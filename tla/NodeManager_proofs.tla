------------------------ MODULE NodeManager_proofs ------------------------
(***************************************************************************)
(* Proofs about NodeManager, for all handles, kinds, limits and bounds.    *)
(*                                                                         *)
(* The inductive invariant NInv relates the manager to everything that     *)
(* refers to its nodes.  Its parts are                                     *)
(*                                                                         *)
(*   CountsOK   the count of a node is maximal or the number of references *)
(*              RefCount: handles, builder, attributes, children of nodes  *)
(*              that are there, and releases that are still to be done; a  *)
(*              node with count 0 is a zombie, in the batch, or about to   *)
(*              be handed out; one in the batch has count 0;               *)
(*   ReferredLive, AttrLive   what is referred to is there;                *)
(*   TreeOK     children are older than their parents, so that there are   *)
(*              no cycles and the youngest node has no parent;             *)
(*   TodoOK     the node that is about to be handed out is not in the      *)
(*              batch, although zombies were reclaimed since it was named; *)
(*   MaxedOK    the nodes with maximal counts are d_maxedOut, later order; *)
(*   OrderOK    in the destructor, each node of order is told from those   *)
(*              before it by a set that is closed under children, so that  *)
(*              the last one has no parent when no zombies are left.       *)
(*                                                                         *)
(* The operations on a manager (inc, dec, DecAll, Reclaim, ...) are dealt  *)
(* with one by one, for any manager k, handles hd, builder bd and pending  *)
(* releases td; the steps of the specification then follow.  OrderOK needs *)
(* that TopologicalSort visits all children, which it does not do for the  *)
(* operator of a node of a parameterized kind: the theorems about the      *)
(* destructor assume that there are none.                                  *)
(***************************************************************************)
EXTENDS NodeManager, FiniteSetTheorems, SequenceTheorems, WellFoundedInduction, TLAPS

-----------------------------------------------------------------------------
(* Induction, by the least counterexample.                                 *)

LEMMA LeastNode ==
    ASSUME NEW S, S \subseteq Nat, S # {}
    PROVE  \E n \in S : \A k \in S : n <= k
  <1> DEFINE R == {p \in Nat \X Nat : p[1] < p[2]}
  <1>1. R = OpToRel(<, Nat)  BY DEF OpToRel
  <1>2. IsWellFoundedOn(R, Nat)  BY <1>1, NatLessThanWellFounded
  <1> HIDE DEF R
  <1>3. PICK n \in S : \A k \in S : ~(<<k, n>> \in R)  BY <1>2, WFMin
  <1>4. \A k \in S : <<k, n>> \in Nat \X Nat  OBVIOUS
  <1>5. ASSUME NEW k \in S  PROVE n <= k
    <2>1. ~(k < n)  BY <1>3, <1>4 DEF R
    <2> QED  BY <2>1
  <1> QED  BY <1>5

(* Induction over 0 .. n, for the members of a set.                        *)
LEMMA Climb ==
    ASSUME NEW n \in Nat, NEW S, 0 \in S,
           \A i \in 1 .. n : i - 1 \in S => i \in S
    PROVE  0 .. n \subseteq S
  <1> DEFINE B == {i \in 0 .. n : i \notin S}
  <1> SUFFICES ASSUME B # {}  PROVE FALSE  OBVIOUS
  <1>1. B \subseteq Nat  OBVIOUS
  <1> HIDE DEF B
  <1>2. PICK b \in B : \A k \in B : b <= k  BY <1>1, LeastNode
  <1>3. b \in 0 .. n /\ b \notin S /\ b # 0  BY DEF B
  <1>4. b \in 1 .. n /\ b - 1 \in 0 .. n /\ ~(b <= b - 1)  BY <1>3
  <1>5. b - 1 \in S  BY <1>2, <1>4 DEF B
  <1> QED  BY <1>3, <1>4, <1>5

(* A set of nodes that is not empty has a youngest one.                    *)
LEMMA YoungestNode ==
    ASSUME NEW S, S \subseteq Id, S # {}
    PROVE  \E g \in S : \A k \in S : k <= g
  <1> DEFINE T == {MaxNodes - k : k \in S}
  <1>1. T \subseteq Nat /\ T # {}
    <2>1. PICK k \in S : TRUE  OBVIOUS
    <2>2. MaxNodes - k \in T  BY <2>1
    <2>3. \A j \in S : MaxNodes - j \in Nat  BY CountsAssumption DEF Id
    <2> QED  BY <2>2, <2>3
  <1> HIDE DEF T
  <1>2. PICK b \in T : \A k \in T : b <= k  BY <1>1, LeastNode
  <1>3. PICK g \in S : b = MaxNodes - g  BY DEF T
  <1>4. ASSUME NEW k \in S  PROVE k <= g
    <2>1. b <= MaxNodes - k  BY <1>2 DEF T
    <2>2. k \in Nat /\ g \in Nat  BY DEF Id
    <2> QED  BY <2>1, <2>2, <1>3, CountsAssumption
  <1> QED  BY <1>4

-----------------------------------------------------------------------------
(* Counting.                                                               *)

LEMMA OccType ==
    ASSUME NEW f, IsFiniteSet(DOMAIN f), NEW v
    PROVE  /\ Occurrences(f, v) \in Nat
           /\ Occurrences(f, v) = 0 <=> \A x \in DOMAIN f : f[x] # v
  <1> DEFINE S == {x \in DOMAIN f : f[x] = v}
  <1>1. IsFiniteSet(S)  BY FS_Subset
  <1>2. Cardinality(S) \in Nat /\ (Cardinality(S) = 0 <=> S = {})
    BY <1>1, FS_CardinalityType, FS_EmptySet
  <1> QED  BY <1>2 DEF Occurrences

(* Two functions that take the value v at the same arguments.              *)
LEMMA OccSame ==
    ASSUME NEW f, NEW g, NEW v, NEW w, DOMAIN f = DOMAIN g,
           \A x \in DOMAIN f : f[x] = v <=> g[x] = w
    PROVE  Occurrences(f, v) = Occurrences(g, w)
  <1> {x \in DOMAIN f : f[x] = v} = {x \in DOMAIN g : g[x] = w}  OBVIOUS
  <1> QED  BY DEF Occurrences

(* One more argument with the value v, or one less.                        *)
LEMMA OccOneMore ==
    ASSUME NEW f, NEW g, NEW v, NEW x, IsFiniteSet(DOMAIN f),
           x \in DOMAIN g, g[x] = v, x \in DOMAIN f => f[x] # v,
           \A y : y # x => (y \in DOMAIN f /\ f[y] = v <=> y \in DOMAIN g /\ g[y] = v)
    PROVE  Occurrences(g, v) = Occurrences(f, v) + 1
  <1> DEFINE S == {y \in DOMAIN f : f[y] = v}
             T == {y \in DOMAIN g : g[y] = v}
  <1>1. IsFiniteSet(S)  BY FS_Subset
  <1>2. x \notin S /\ T = S \cup {x}  OBVIOUS
  <1> HIDE DEF S, T
  <1>3. Cardinality(T) = Cardinality(S) + 1  BY <1>1, <1>2, FS_AddElement
  <1> QED  BY <1>3 DEF Occurrences, S, T

One(a, b) == IF a = b THEN 1 ELSE 0

With(f, x, w) == [f EXCEPT ![x] = w]

LEMMA OccExcept ==
    ASSUME NEW f, NEW x \in DOMAIN f, IsFiniteSet(DOMAIN f), NEW w, NEW v
    PROVE  Occurrences(With(f, x, w), v) + One(f[x], v) = Occurrences(f, v) + One(w, v)
  <1> DEFINE g == With(f, x, w)
  <1>1. DOMAIN g = DOMAIN f /\ g[x] = w /\ \A y \in DOMAIN f : y # x => g[y] = f[y]
    BY DEF With
  <1> HIDE DEF g
  <1>2. CASE f[x] = v /\ w # v
    <2>1. Occurrences(f, v) = Occurrences(g, v) + 1  BY <1>1, <1>2, OccOneMore
    <2>2. Occurrences(g, v) \in Nat  BY <1>1, OccType
    <2> QED  BY <2>1, <2>2, <1>2 DEF g, One
  <1>3. CASE f[x] # v /\ w = v
    <2>1. Occurrences(g, v) = Occurrences(f, v) + 1  BY <1>1, <1>3, OccOneMore
    <2>2. Occurrences(f, v) \in Nat  BY <1>1, OccType
    <2> QED  BY <2>1, <2>2, <1>3 DEF g, One
  <1>4. CASE f[x] = v <=> w = v
    <2>1. Occurrences(g, v) = Occurrences(f, v)  BY <1>1, <1>4, OccSame
    <2> QED  BY <2>1, <1>4 DEF g, One
  <1> QED  BY <1>2, <1>3, <1>4

LEMMA SeqFinite ==
    ASSUME NEW S, NEW q \in Seq(S)
    PROVE  IsFiniteSet(DOMAIN q) /\ DOMAIN q = 1..Len(q) /\ Len(q) \in Nat
  <1> QED  BY LenProperties, FS_Interval

LEMMA OccAppend ==
    ASSUME NEW S, NEW q \in Seq(S), NEW w \in S, NEW v
    PROVE  Occurrences(Append(q, w), v) = Occurrences(q, v) + One(w, v)
  <1> DEFINE g == Append(q, w)
  <1>1. /\ DOMAIN g = 1..(Len(q) + 1) /\ DOMAIN q = 1..Len(q) /\ Len(q) \in Nat
        /\ g[Len(q) + 1] = w
        /\ \A i \in 1..Len(q) : g[i] = q[i]
        /\ IsFiniteSet(DOMAIN q)
    <2>1. g \in Seq(S) /\ Len(g) = Len(q) + 1  BY AppendProperties
    <2> QED  BY <2>1, AppendProperties, LenProperties, SeqFinite
  <1> HIDE DEF g
  <1>2. CASE w = v
    <2>1. Len(q) + 1 \notin DOMAIN q  BY <1>1
    <2>2. ASSUME NEW y, y # Len(q) + 1
          PROVE  y \in DOMAIN q /\ q[y] = v <=> y \in DOMAIN g /\ g[y] = v
      BY <1>1, <2>2
    <2>3. Occurrences(g, v) = Occurrences(q, v) + 1  BY <1>1, <1>2, <2>1, <2>2, OccOneMore
    <2> QED  BY <2>3, <1>2 DEF g, One
  <1>3. CASE w # v
    <2>1. {i \in DOMAIN q : q[i] = v} = {i \in DOMAIN g : g[i] = v}  BY <1>1, <1>3
    <2>2. Occurrences(q, v) \in Nat  BY <1>1, OccType
    <2>3. Occurrences(g, v) = Occurrences(q, v)  BY <2>1 DEF Occurrences
    <2> QED  BY <2>2, <2>3, <1>3 DEF g, One
  <1> QED  BY <1>2, <1>3

LEMMA OccTail ==
    ASSUME NEW S, NEW q \in Seq(S), q # <<>>, NEW v
    PROVE  Occurrences(q, v) = Occurrences(Tail(q), v) + One(Head(q), v)
  <1> DEFINE t == Tail(q)
             A == {i \in DOMAIN q : i > 1 /\ q[i] = v}
             B == {i \in DOMAIN t : t[i] = v}
             g == [i \in B |-> i + 1]
  <1>1. /\ t \in Seq(S) /\ Len(t) = Len(q) - 1 /\ Len(q) \in Nat /\ Len(q) > 0
        /\ \A i \in 1..Len(t) : t[i] = q[i + 1]
        /\ DOMAIN q = 1..Len(q) /\ DOMAIN t = 1..Len(t)
        /\ IsFiniteSet(DOMAIN q) /\ IsFiniteSet(DOMAIN t)
    <2>1. t \in Seq(S) /\ Len(t) = Len(q) - 1 /\ \A i \in 1..Len(t) : t[i] = q[i + 1]
      BY HeadTailProperties
    <2>2. Len(q) \in Nat /\ Len(q) > 0  BY EmptySeq
    <2> HIDE DEF t
    <2> QED  BY <2>1, <2>2, SeqFinite
  <1>2. IsFiniteSet(A) /\ IsFiniteSet(B)  BY <1>1, FS_Subset
  <1>3. g \in Bijection(B, A)
    <2>1. g \in [B -> A]
      <3> SUFFICES ASSUME NEW i \in B  PROVE i + 1 \in A  OBVIOUS
      <3> QED  BY <1>1
    <2>2. \A a, b \in DOMAIN g : g[a] = g[b] => a = b  BY <1>1
    <2>3. ASSUME NEW a \in A  PROVE \E b \in B : g[b] = a
      <3>1. a - 1 \in B  BY <1>1
      <3>2. g[a - 1] = a  BY <3>1, <1>1
      <3> QED  BY <3>1, <3>2
    <2> QED  BY <2>1, <2>2, <2>3 DEF Bijection, Injection, Surjection, IsInjective
  <1>4. Cardinality(A) = Cardinality(B)
    BY <1>2, <1>3, FS_Bijection DEF ExistsBijection
  <1>5. Head(q) = q[1]  BY HeadTailProperties
  <1>6. {i \in DOMAIN q : q[i] = v} = IF Head(q) = v THEN A \cup {1} ELSE A
    BY <1>1, <1>5
  <1>7. 1 \notin A  OBVIOUS
  <1>8. Cardinality(A \cup {1}) = Cardinality(A) + 1  BY <1>2, <1>7, FS_AddElement
  <1>9. Cardinality(A) \in Nat  BY <1>2, FS_CardinalityType
  <1>10. Occurrences(t, v) = Cardinality(A)  BY <1>4 DEF Occurrences
  <1> HIDE DEF A, B, g
  <1>11. CASE Head(q) = v
    <2>1. Occurrences(q, v) = Cardinality(A \cup {1})  BY <1>6, <1>11 DEF Occurrences
    <2> QED  BY <2>1, <1>8, <1>9, <1>10, <1>11 DEF One
  <1>12. CASE Head(q) # v
    <2>1. Occurrences(q, v) = Cardinality(A)  BY <1>6, <1>12 DEF Occurrences
    <2> QED  BY <2>1, <1>9, <1>10, <1>12 DEF One
  <1> QED  BY <1>11, <1>12

-----------------------------------------------------------------------------
(* The parts of the inductive invariant.                                   *)

ManagerOK(k) ==
    /\ k \in Manager
    /\ Len(k.attr) = Len(k.nodes)
    /\ Len(k.nodes) <= MaxNodes

(* The counts of the manager k agree with the references E; a node without *)
(* references is a zombie, is being reclaimed, or is one of the nodes P.   *)
CountsOK(k, E, P) ==
    /\ \A n \in Live(k) : k.nodes[n].rc \in {MaxRC, E[n]}
    /\ \A n \in Live(k) : k.nodes[n].rc = 0 => n \in k.zombies \cup k.batch \cup P
    /\ k.zombies \subseteq Live(k)
    /\ k.batch \subseteq Live(k)
    /\ \A n \in k.batch : k.nodes[n].rc = 0 /\ n \notin k.zombies
    /\ k.batch # {} => k.reclaiming

(* The managers k and j differ in counts and what follows from them.       *)
Shape(k, j) ==
    /\ DOMAIN j.nodes = DOMAIN k.nodes
    /\ Live(j) = Live(k)
    /\ \A n \in Live(k) : /\ j.nodes[n].kind = k.nodes[n].kind
                          /\ j.nodes[n].children = k.nodes[n].children
    /\ j.pool = k.pool /\ j.attr = k.attr /\ j.collecting = k.collecting

SameMaxed(k, j) ==
    /\ j.maxedOut = k.maxedOut
    /\ \A n \in Live(k) : j.nodes[n].rc = MaxRC <=> k.nodes[n].rc = MaxRC

SameBatch(k, j) == j.batch = k.batch /\ j.reclaiming = k.reclaiming

WithRC(k, n, r) == [k EXCEPT !.nodes[n].rc = r]
Less(E, n) == [x \in Id |-> IF x = n THEN E[x] - 1 ELSE E[x]]
More(E, n) == [x \in Id |-> IF x = n THEN E[x] + 1 ELSE E[x]]

-----------------------------------------------------------------------------
(* Counting up and down.                                                   *)

NodeRecord == [kind : Kinds, children : Seq(Id), rc : 0..MaxRC]

LEMMA LiveNode ==
    ASSUME NEW k, ManagerOK(k)
    PROVE  /\ DOMAIN k.nodes = 1..Len(k.nodes) /\ DOMAIN k.attr = DOMAIN k.nodes
           /\ Len(k.nodes) \in Nat
           /\ Live(k) \subseteq DOMAIN k.nodes /\ DOMAIN k.nodes \subseteq Id
           /\ Null \notin Id
           /\ \A n \in Live(k) : k.nodes[n] \in NodeRecord
           /\ \A n \in DOMAIN k.nodes : k.nodes[n] \in NodeValue
  <1>1. /\ k.nodes \in Seq(NodeValue) /\ k.attr \in Seq(Id \cup {Null})
        /\ Len(k.attr) = Len(k.nodes) /\ Len(k.nodes) <= MaxNodes
    BY DEF ManagerOK, Manager
  <1>2. /\ DOMAIN k.nodes = 1..Len(k.nodes) /\ Len(k.nodes) \in Nat
        /\ DOMAIN k.attr = 1..Len(k.nodes)
        /\ \A n \in DOMAIN k.nodes : k.nodes[n] \in NodeValue
    BY <1>1, LenProperties, ElementOfSeq
  <1>3. DOMAIN k.nodes \subseteq Id /\ Null \notin Id  BY <1>1, <1>2, CountsAssumption DEF Id, Null
  <1> QED  BY <1>2, <1>3 DEF Live, NodeValue, NodeRecord

LEMMA RecordNotFreed ==
    ASSUME NEW v \in NodeRecord  PROVE v # Freed
  <1> QED  BY KindsAssumption DEF NodeRecord, Freed

LEMMA WithRCOK ==
    ASSUME NEW k, ManagerOK(k), NEW n \in Live(k), NEW r \in 0..MaxRC
    PROVE  /\ ManagerOK(WithRC(k, n, r))
           /\ Shape(k, WithRC(k, n, r))
           /\ WithRC(k, n, r).nodes[n].rc = r
           /\ \A x \in Live(k) : x # n => WithRC(k, n, r).nodes[x] = k.nodes[x]
           /\ WithRC(k, n, r).zombies = k.zombies
           /\ WithRC(k, n, r).maxedOut = k.maxedOut
           /\ SameBatch(k, WithRC(k, n, r))
  <1> DEFINE v == [k.nodes[n] EXCEPT !.rc = r]
             s == [k.nodes EXCEPT ![n] = v]
             j == [k EXCEPT !.nodes = s]
  <1>1. /\ k \in Manager /\ k.nodes \in Seq(NodeValue) /\ n \in 1..Len(k.nodes)
        /\ k.nodes[n] \in NodeRecord
    BY LiveNode DEF ManagerOK, Manager
  <1>2. WithRC(k, n, r) = j  BY <1>1 DEF WithRC, Manager
  <1>3. v \in NodeRecord /\ v.rc = r /\ v.kind = k.nodes[n].kind /\ v.children = k.nodes[n].children
    BY <1>1 DEF NodeRecord
  <1>4. v \in NodeValue /\ v # Freed  BY <1>3, RecordNotFreed DEF NodeValue, NodeRecord
  <1> HIDE DEF v
  <1>5. /\ s \in Seq(NodeValue) /\ Len(s) = Len(k.nodes) /\ DOMAIN s = DOMAIN k.nodes
        /\ \A x \in DOMAIN k.nodes : s[x] = IF x = n THEN v ELSE k.nodes[x]
    BY <1>1, <1>4, ExceptSeq, LiveNode
  <1> HIDE DEF s
  <1>6. /\ j \in Manager /\ j.nodes = s /\ j.pool = k.pool /\ j.zombies = k.zombies
        /\ j.maxedOut = k.maxedOut /\ j.attr = k.attr /\ j.collecting = k.collecting
        /\ j.reclaiming = k.reclaiming /\ j.batch = k.batch
    BY <1>1, <1>5 DEF Manager
  <1> HIDE DEF j
  <1>7. ManagerOK(j)  BY <1>5, <1>6 DEF ManagerOK
  <1>8. Live(j) = Live(k)
    <2>1. n \in DOMAIN k.nodes /\ k.nodes[n] # Freed  BY DEF Live
    <2> QED  BY <2>1, <1>4, <1>5, <1>6 DEF Live
  <1>9. \A x \in Live(k) : j.nodes[x] = IF x = n THEN v ELSE k.nodes[x]
    BY <1>5, <1>6 DEF Live
  <1>10. Shape(k, j)  BY <1>3, <1>5, <1>6, <1>8, <1>9 DEF Shape
  <1> QED  BY <1>2, <1>3, <1>6, <1>7, <1>9, <1>10 DEF SameBatch

(* A node whose count came down to zero becomes a zombie.                  *)
Marks(k, n, j) ==
    \/ /\ j.zombies = k.zombies \cup {n}
       /\ SameBatch(k, j)
    \/ /\ ~k.reclaiming /\ ~k.collecting
       /\ j.zombies = {} /\ j.reclaiming = TRUE
       /\ j.batch = {z \in k.zombies \cup {n} : k.nodes[z].rc = 0}

LEMMA MarkOK ==
    ASSUME NEW k, ManagerOK(k), NEW n \in Live(k)
    PROVE  /\ ManagerOK(markForDeletion(k, n))
           /\ Shape(k, markForDeletion(k, n))
           /\ markForDeletion(k, n).nodes = k.nodes
           /\ markForDeletion(k, n).maxedOut = k.maxedOut
           /\ Marks(k, n, markForDeletion(k, n))
  <1> DEFINE z == [k EXCEPT !.zombies = @ \cup {n}]
             b == {x \in z.zombies : z.nodes[x].rc = 0}
             r == [z EXCEPT !.reclaiming = TRUE, !.batch = b, !.zombies = {}]
  <1>1. k \in Manager /\ n \in Id  BY LiveNode DEF ManagerOK
  <1>2. z \in Manager  BY <1>1 DEF Manager
  <1>3. /\ z.zombies = k.zombies \cup {n} /\ z.nodes = k.nodes /\ z.pool = k.pool
        /\ z.maxedOut = k.maxedOut /\ z.attr = k.attr /\ z.collecting = k.collecting
        /\ z.reclaiming = k.reclaiming /\ z.batch = k.batch
    BY <1>1 DEF Manager
  <1> HIDE DEF z
  <1>4. b \in SUBSET Id  BY <1>2 DEF Manager
  <1>5. b = {x \in k.zombies \cup {n} : k.nodes[x].rc = 0}  BY <1>3
  <1> HIDE DEF b
  <1>6. r \in Manager  BY <1>2, <1>4 DEF Manager
  <1>7. /\ r.zombies = {} /\ r.nodes = k.nodes /\ r.pool = k.pool
        /\ r.maxedOut = k.maxedOut /\ r.attr = k.attr /\ r.collecting = k.collecting
        /\ r.reclaiming = TRUE /\ r.batch = b
    BY <1>2, <1>3 DEF Manager
  <1> HIDE DEF r
  <1>8. \/ markForDeletion(k, n) = z
        \/ markForDeletion(k, n) = r /\ ~k.reclaiming /\ ~k.collecting
    <2>1. markForDeletion(k, n) = IF safeToReclaimZombies(z) /\ Cardinality(z.zombies) > ZombieLimit
                                  THEN reclaimZombies(z) ELSE z
      BY DEF markForDeletion, z
    <2>2. reclaimZombies(z) = r  BY DEF reclaimZombies, r, b
    <2>3. safeToReclaimZombies(z) => ~k.reclaiming /\ ~k.collecting
      BY <1>3 DEF safeToReclaimZombies
    <2> QED  BY <2>1, <2>2, <2>3
  <1>9. CASE markForDeletion(k, n) = z
    BY <1>9, <1>2, <1>3 DEF ManagerOK, Shape, Marks, SameBatch, Live
  <1>10. CASE markForDeletion(k, n) = r /\ ~k.reclaiming /\ ~k.collecting
    BY <1>10, <1>5, <1>6, <1>7 DEF ManagerOK, Shape, Marks, Live
  <1> QED  BY <1>8, <1>9, <1>10

LEMMA ShapeTrans ==
    ASSUME NEW a, NEW b, NEW c, Shape(a, b), Shape(b, c)
    PROVE  Shape(a, c)
  <1> QED  BY DEF Shape

(* dec takes one reference away.                                           *)
LEMMA DecOK ==
    ASSUME NEW k, ManagerOK(k), NEW n \in Live(k) \cup {Null},
           NEW E \in [Id -> Nat], n # Null => E[n] # 0, NEW P, CountsOK(k, E, P)
    PROVE  /\ ManagerOK(dec(k, n))
           /\ Shape(k, dec(k, n))
           /\ SameMaxed(k, dec(k, n))
           /\ CountsOK(dec(k, n), Less(E, n), P)
           /\ k.reclaiming \/ k.collecting \/ (n # Null /\ E[n] > 1)
                 => SameBatch(k, dec(k, n))
           /\ dec(k, n).zombies \subseteq k.zombies \cup {n}
  <1>0. MaxRC \in Nat /\ MaxRC > 0 /\ Live(k) \subseteq Id /\ Null \notin Id
    BY LiveNode, CountsAssumption
  <1>1. CASE n = Null \/ k.nodes[n].rc = MaxRC
    <2>1. dec(k, n) = k  BY <1>1 DEF dec
    <2>2. \A x \in Live(k) : x # n => Less(E, n)[x] = E[x]  BY <1>0 DEF Less
    <2>3. CountsOK(k, Less(E, n), P)
      <3>1. \A x \in Live(k) : k.nodes[x].rc \in {MaxRC, Less(E, n)[x]}
        BY <2>2, <1>1, <1>0 DEF CountsOK
      <3> QED  BY <3>1 DEF CountsOK
    <2> QED  BY <2>1, <2>3 DEF Shape, SameMaxed, SameBatch
  <1>2. CASE n # Null /\ k.nodes[n].rc # MaxRC
    <2> DEFINE r == k.nodes[n].rc - 1
               d == WithRC(k, n, r)
    <2>1. n \in Live(k) /\ n \in Id /\ k.nodes[n].rc \in 0..MaxRC  BY <1>2, LiveNode DEF NodeRecord
    <2>2. k.nodes[n].rc = E[n] /\ E[n] \in Nat /\ E[n] # 0  BY <2>1, <1>2 DEF CountsOK
    <2>3. r \in 0..MaxRC /\ r # MaxRC /\ r = E[n] - 1 /\ (k.nodes[n].rc - 1) % (MaxRC + 1) = r
      BY <2>1, <2>2, <1>0
    <2>4. [k EXCEPT !.nodes[n].rc = (@ - 1) % (MaxRC + 1)] = d
      BY <2>3 DEF WithRC
    <2> HIDE DEF r
    <2>5. /\ ManagerOK(d) /\ Shape(k, d) /\ d.nodes[n].rc = r
          /\ \A x \in Live(k) : x # n => d.nodes[x] = k.nodes[x]
          /\ d.zombies = k.zombies /\ d.maxedOut = k.maxedOut /\ SameBatch(k, d)
      BY <2>1, <2>3, WithRCOK
    <2>6. dec(k, n) = IF d.nodes[n].rc = 0 THEN markForDeletion(d, n) ELSE d
      BY <1>2, <2>4 DEF dec
    <2> HIDE DEF d
    <2>7. Live(d) = Live(k) /\ d.collecting = k.collecting  BY <2>5 DEF Shape
    <2>8. \A x \in Live(k) : d.nodes[x].rc \in {MaxRC, Less(E, n)[x]}
      BY <2>1, <2>2, <2>3, <2>5, <1>0 DEF CountsOK, Less
    <2>9. \A x \in Live(k) : d.nodes[x].rc = MaxRC <=> k.nodes[x].rc = MaxRC
      BY <2>3, <2>5, <1>2
    <2>10. n \notin k.batch  BY <2>2 DEF CountsOK
    <2>11. CASE r # 0
      <3>1. dec(k, n) = d  BY <2>5, <2>6, <2>11
      <3>2. CountsOK(d, Less(E, n), P)
        BY <2>5, <2>7, <2>8, <2>10, <2>11 DEF CountsOK, SameBatch
      <3> QED  BY <3>1, <3>2, <2>5, <2>9 DEF SameMaxed
    <2>12. CASE r = 0
      <3> DEFINE j == markForDeletion(d, n)
      <3>1. dec(k, n) = j  BY <2>5, <2>6, <2>12
      <3>2. /\ ManagerOK(j) /\ Shape(d, j) /\ j.nodes = d.nodes
            /\ j.maxedOut = d.maxedOut /\ Marks(d, n, j)
        BY <2>1, <2>5, <2>7, MarkOK
      <3> HIDE DEF j
      <3>3. Shape(k, j) /\ Live(j) = Live(k)  BY <2>5, <3>2, ShapeTrans DEF Shape
      <3>4. SameMaxed(k, j)  BY <3>2, <2>5, <2>9 DEF SameMaxed
      <3>5. E[n] = 1  BY <2>2, <2>3, <2>12
      <3>11. j.zombies \subseteq k.zombies \cup {n}  BY <3>2, <2>5 DEF Marks
      <3>6. k.reclaiming \/ k.collecting => SameBatch(k, j)
        BY <3>2, <2>5, <2>7 DEF Marks, SameBatch
      <3>7. \A x \in Live(k) : j.nodes[x].rc \in {MaxRC, Less(E, n)[x]}  BY <2>8, <3>2
      <3>8. \A x \in Live(k) : j.nodes[x].rc = 0 => x = n \/ x \in k.zombies \cup k.batch \cup P
        BY <2>5, <3>2 DEF CountsOK
      <3>9. CASE j.zombies = d.zombies \cup {n} /\ SameBatch(d, j)
        <4>1. j.zombies = k.zombies \cup {n} /\ j.batch = k.batch /\ j.reclaiming = k.reclaiming
          BY <3>9, <2>5 DEF SameBatch
        <4>2. \A x \in k.batch : j.nodes[x].rc = 0 /\ x \notin j.zombies
          BY <4>1, <2>5, <2>10, <3>2 DEF CountsOK
        <4> QED  BY <4>1, <4>2, <3>1, <3>2, <3>3, <3>4, <3>5, <3>6, <3>7, <3>8, <3>11, <2>1 DEF CountsOK
      <3>10. CASE /\ ~d.reclaiming /\ ~d.collecting
                  /\ j.zombies = {} /\ j.reclaiming = TRUE
                  /\ j.batch = {z \in d.zombies \cup {n} : d.nodes[z].rc = 0}
        <4>1. k.batch = {}  BY <3>10, <2>5 DEF CountsOK, SameBatch
        <4>2. j.batch \subseteq Live(k) /\ \A x \in j.batch : j.nodes[x].rc = 0
          BY <3>10, <3>2, <2>1, <2>5 DEF CountsOK
        <4>3. \A x \in Live(k) : j.nodes[x].rc = 0 => x \in j.batch \cup P
          BY <3>8, <3>10, <3>2, <2>5, <4>1
        <4> QED  BY <3>10, <4>2, <4>3, <3>1, <3>2, <3>3, <3>4, <3>5, <3>6, <3>7, <3>11 DEF CountsOK
      <3> QED  BY <3>2, <3>9, <3>10 DEF Marks
    <2> QED  BY <2>11, <2>12
  <1> QED  BY <1>1, <1>2

Maxed(k) == {n \in Live(k) : k.nodes[n].rc = MaxRC}

(* inc adds one reference.                                                 *)
LEMMA IncOK ==
    ASSUME NEW k, ManagerOK(k), NEW n \in Live(k), n \notin k.batch,
           NEW E \in [Id -> Nat], NEW P, CountsOK(k, E, P)
    PROVE  /\ ManagerOK(inc(k, n))
           /\ Shape(k, inc(k, n))
           /\ SameBatch(k, inc(k, n))
           /\ CountsOK(inc(k, n), More(E, n), P \ {n})
           /\ inc(k, n).zombies = k.zombies
           /\ \/ inc(k, n).maxedOut = k.maxedOut /\ Maxed(inc(k, n)) = Maxed(k)
              \/ /\ inc(k, n).maxedOut = Append(k.maxedOut, n)
                 /\ n \notin Maxed(k) /\ Maxed(inc(k, n)) = Maxed(k) \cup {n}
  <1>0. /\ MaxRC \in Nat /\ MaxRC > 0 /\ Live(k) \subseteq Id /\ Null \notin Id
        /\ n \in Id /\ n # Null /\ k.nodes[n].rc \in 0..MaxRC
    BY LiveNode, CountsAssumption DEF NodeRecord
  <1>1. CASE k.nodes[n].rc = MaxRC
    <2>1. inc(k, n) = k  BY <1>1 DEF inc
    <2>2. \A x \in Live(k) : x # n => More(E, n)[x] = E[x]  BY <1>0 DEF More
    <2>3. CountsOK(k, More(E, n), P \ {n})
      <3>1. \A x \in Live(k) : k.nodes[x].rc \in {MaxRC, More(E, n)[x]}
        BY <2>2, <1>1, <1>0 DEF CountsOK
      <3>2. \A x \in Live(k) : k.nodes[x].rc = 0 => x # n  BY <1>0, <1>1
      <3> QED  BY <3>1, <3>2 DEF CountsOK
    <2> QED  BY <2>1, <2>3 DEF Shape, SameBatch
  <1>2. CASE k.nodes[n].rc # MaxRC
    <2> DEFINE r == k.nodes[n].rc + 1
               d == WithRC(k, n, r)
               q == IF k.nodes[n].rc = MaxRC - 1 THEN Append(k.maxedOut, n) ELSE k.maxedOut
               j == [d EXCEPT !.maxedOut = q]
    <2>1. r \in 0..MaxRC /\ r # 0 /\ r = E[n] + 1 /\ (r = MaxRC <=> k.nodes[n].rc = MaxRC - 1)
      BY <1>0, <1>2 DEF CountsOK
    <2>2. inc(k, n) = [k EXCEPT !.nodes[n].rc = r, !.maxedOut = q]
      BY <1>0, <1>2 DEF inc
    <2>3. k \in Manager /\ k.maxedOut \in Seq(Id)  BY DEF ManagerOK, Manager
    <2>4. inc(k, n) = j  BY <2>2, <2>3 DEF WithRC, Manager
    <2>5. q \in Seq(Id)  BY <2>3, <1>0, AppendProperties
    <2> HIDE DEF r
    <2>6. /\ ManagerOK(d) /\ Shape(k, d) /\ d.nodes[n].rc = r
          /\ \A x \in Live(k) : x # n => d.nodes[x] = k.nodes[x]
          /\ d.zombies = k.zombies /\ SameBatch(k, d)
      BY <2>1, WithRCOK
    <2> HIDE DEF d, q
    <2>7. d \in Manager  BY <2>6 DEF ManagerOK
    <2>8. /\ j \in Manager /\ j.nodes = d.nodes /\ j.pool = d.pool /\ j.zombies = d.zombies
          /\ j.maxedOut = q /\ j.attr = d.attr /\ j.collecting = d.collecting
          /\ j.reclaiming = d.reclaiming /\ j.batch = d.batch
      BY <2>5, <2>7 DEF Manager
    <2> HIDE DEF j
    <2>9. ManagerOK(j) /\ Shape(k, j) /\ SameBatch(k, j) /\ Live(j) = Live(k)
      BY <2>6, <2>8 DEF ManagerOK, Shape, SameBatch, Live
    <2>10. \A x \in Live(k) : j.nodes[x].rc \in {MaxRC, More(E, n)[x]}
      BY <2>1, <2>6, <2>8, <1>0 DEF CountsOK, More
    <2>11. \A x \in Live(k) : j.nodes[x].rc = 0 => x # n /\ k.nodes[x].rc = 0
      BY <2>1, <2>6, <2>8
    <2>12. \A x \in k.batch : j.nodes[x].rc = 0  BY <2>6, <2>8 DEF CountsOK
    <2>13. CountsOK(j, More(E, n), P \ {n})
      BY <2>6, <2>8, <2>9, <2>10, <2>11, <2>12 DEF CountsOK, SameBatch
    <2>14. n \notin Maxed(k)  BY <1>2 DEF Maxed
    <2>15. CASE r = MaxRC
      <3>1. Maxed(j) = Maxed(k) \cup {n}  BY <2>15, <2>6, <2>8, <2>9 DEF Maxed
      <3>2. q = Append(k.maxedOut, n)  BY <2>1, <2>15 DEF q
      <3> QED  BY <3>1, <3>2, <2>4, <2>6, <2>8, <2>9, <2>13, <2>14
    <2>16. CASE r # MaxRC
      <3>1. Maxed(j) = Maxed(k)  BY <2>14, <2>16, <2>6, <2>8, <2>9 DEF Maxed
      <3>2. q = k.maxedOut  BY <2>1, <2>16 DEF q
      <3> QED  BY <3>1, <3>2, <2>4, <2>6, <2>8, <2>9, <2>13
    <2> QED  BY <2>15, <2>16
  <1> QED  BY <1>1, <1>2

MaxedOK(k, o) ==
    /\ Range(k.maxedOut) \cup Range(o) = Maxed(k)
    /\ IsInjective(k.maxedOut)
    /\ IsInjective(o)
    /\ k.maxedOut = <<>> \/ o = <<>>

LEMMA AppendRange ==
    ASSUME NEW S, NEW q \in Seq(S), NEW w \in S
    PROVE  /\ Range(Append(q, w)) = Range(q) \cup {w}
           /\ IsInjective(q) /\ w \notin Range(q) => IsInjective(Append(q, w))
  <1>1. /\ DOMAIN Append(q, w) = 1..(Len(q) + 1) /\ DOMAIN q = 1..Len(q) /\ Len(q) \in Nat
        /\ Append(q, w)[Len(q) + 1] = w
        /\ \A i \in 1..Len(q) : Append(q, w)[i] = q[i]
    <2>1. Append(q, w) \in Seq(S) /\ Len(Append(q, w)) = Len(q) + 1  BY AppendProperties
    <2> QED  BY <2>1, AppendProperties, LenProperties
  <1>2. \A i \in DOMAIN Append(q, w) : i \in DOMAIN q \/ i = Len(q) + 1  BY <1>1
  <1>3. DOMAIN q \subseteq DOMAIN Append(q, w) /\ Len(q) + 1 \in DOMAIN Append(q, w)  BY <1>1
  <1>4. Range(Append(q, w)) = Range(q) \cup {w}  BY <1>1, <1>2, <1>3 DEF Range
  <1>5. IsInjective(q) /\ w \notin Range(q) => IsInjective(Append(q, w))
    BY <1>1, <1>2 DEF Range, IsInjective
  <1> QED  BY <1>4, <1>5

LEMMA IncMaxed ==
    ASSUME NEW k, ManagerOK(k), MaxedOK(k, <<>>), NEW n \in Id, NEW j,
           \/ j.maxedOut = k.maxedOut /\ Maxed(j) = Maxed(k)
           \/ /\ j.maxedOut = Append(k.maxedOut, n)
              /\ n \notin Maxed(k) /\ Maxed(j) = Maxed(k) \cup {n}
    PROVE  MaxedOK(j, <<>>)
  <1>1. Range(<<>>) = {}  BY DEF Range
  <1>2. k.maxedOut \in Seq(Id) /\ Range(k.maxedOut) = Maxed(k) /\ IsInjective(k.maxedOut)
    BY <1>1 DEF ManagerOK, Manager, MaxedOK
  <1>3. IsInjective(<<>>)  BY DEF IsInjective
  <1>4. CASE j.maxedOut = k.maxedOut /\ Maxed(j) = Maxed(k)
    BY <1>4, <1>1, <1>2, <1>3 DEF MaxedOK
  <1>5. CASE /\ j.maxedOut = Append(k.maxedOut, n)
             /\ n \notin Maxed(k) /\ Maxed(j) = Maxed(k) \cup {n}
    <2>1. Range(j.maxedOut) = Maxed(j) /\ IsInjective(j.maxedOut)
      BY <1>2, <1>5, AppendRange
    <2> QED  BY <2>1, <1>1, <1>3 DEF MaxedOK
  <1> QED  BY <1>4, <1>5

(* The function that DecAll is defined by.                                 *)
DecRun(f, k, q, n) == f = [i \in 0..n |-> IF i = 0 THEN k ELSE dec(f[i - 1], q[i])]

LEMMA DecRunExists ==
    ASSUME NEW k, NEW q, NEW n \in Nat
    PROVE  \E f : DecRun(f, k, q, n)
  <1> DEFINE S == {i \in Nat : \E f : DecRun(f, k, q, i)}
  <1>1. 0 \in S
    <2> DEFINE f == [i \in 0..0 |-> k]
    <2>1. f = [i \in 0..0 |-> IF i = 0 THEN k ELSE dec(f[i - 1], q[i])]  OBVIOUS
    <2>2. DecRun(f, k, q, 0)  BY <2>1 DEF DecRun
    <2> QED  BY <2>2
  <1>2. ASSUME NEW i \in 1..n, i - 1 \in S  PROVE i \in S
    <2>1. i \in Nat /\ i - 1 \in Nat  OBVIOUS
    <2>2. PICK f : DecRun(f, k, q, i - 1)  BY <1>2
    <2> DEFINE last == dec(f[i - 1], q[i])
               g == [x \in 0..i |-> IF x = i THEN last ELSE f[x]]
               h == [x \in 0..i |-> IF x = 0 THEN k ELSE dec(g[x - 1], q[x])]
    <2> HIDE DEF last
    <2>3. ASSUME NEW x \in 0..i  PROVE g[x] = h[x]
      <3>1. CASE x = 0  BY <3>1, <2>1, <2>2 DEF DecRun
      <3>2. CASE x # 0 /\ x # i
        <4>1. x \in 0..(i - 1) /\ x - 1 \in 0..i /\ x - 1 # i  BY <3>2, <2>1
        <4>2. f[x] = dec(f[x - 1], q[x])  BY <4>1, <3>2, <2>2 DEF DecRun
        <4>3. g[x - 1] = f[x - 1] /\ g[x] = f[x]  BY <4>1, <3>2
        <4> QED  BY <4>2, <4>3, <3>2
      <3>3. CASE x = i
        <4>1. x # 0 /\ x - 1 \in 0..i /\ x - 1 # i  BY <3>3, <2>1
        <4>2. g[x - 1] = f[x - 1] /\ g[x] = last  BY <4>1, <3>3
        <4> QED  BY <4>1, <4>2, <3>3 DEF last
      <3> QED  BY <3>1, <3>2, <3>3
    <2>4. g = h  BY <2>3
    <2>5. DecRun(g, k, q, i)  BY <2>4 DEF DecRun
    <2> HIDE DEF g
    <2> QED  BY <2>1, <2>5
  <1> HIDE DEF S
  <1>3. 0..n \subseteq S  BY <1>1, <1>2, Climb
  <1>4. n \in S  BY <1>3
  <1> QED  BY <1>4 DEF S

LEMMA DecAllRun ==
    ASSUME NEW k, NEW q, Len(q) \in Nat
    PROVE  \E f : DecRun(f, k, q, Len(q)) /\ DecAll(k, q) = f[Len(q)]
  <1> DEFINE F(g) == [i \in 0..Len(q) |-> IF i = 0 THEN k ELSE dec(g[i - 1], q[i])]
             h == CHOOSE g : g = F(g)
  <1>1. PICK f : DecRun(f, k, q, Len(q))  BY DecRunExists
  <1>2. f = F(f)  BY <1>1 DEF DecRun
  <1>3. h = F(h)  BY <1>2
  <1>4. DecAll(k, q) = h[Len(q)]  BY DEF DecAll
  <1> HIDE DEF h
  <1>5. DecRun(h, k, q, Len(q))  BY <1>3 DEF DecRun
  <1> QED  BY <1>4, <1>5

Before(q, i, x) == Cardinality({j \in 1..i : q[j] = x})
MinusTo(E, q, i) == [x \in Id |-> E[x] - Before(q, i, x)]
Minus(E, q) == [x \in Id |-> E[x] - Occurrences(q, x)]

LEMMA BeforeSteps ==
    ASSUME NEW q, NEW x, NEW i \in Nat
    PROVE  /\ Before(q, i, x) \in Nat
           /\ Before(q, 0, x) = 0
           /\ i > 0 => Before(q, i, x) = Before(q, i - 1, x) + One(q[i], x)
           /\ \A n \in Nat : i <= n => Before(q, i, x) <= Before(q, n, x)
  <1> DEFINE S(n) == {j \in 1..n : q[j] = x}
  <1>1. \A n \in Nat : IsFiniteSet(S(n))  
    <2> SUFFICES ASSUME NEW n \in Nat  PROVE IsFiniteSet(S(n))  OBVIOUS
    <2>1. IsFiniteSet(1..n) /\ S(n) \in SUBSET (1..n)  BY FS_Interval
    <2> QED  BY <2>1, FS_Subset
  <1>2. Before(q, i, x) \in Nat  BY <1>1, FS_CardinalityType DEF Before
  <1>3. Before(q, 0, x) = 0
    <2>1. S(0) = {}  OBVIOUS
    <2> QED  BY <2>1, FS_EmptySet DEF Before
  <1>4. ASSUME i > 0  PROVE Before(q, i, x) = Before(q, i - 1, x) + One(q[i], x)
    <2>1. i - 1 \in Nat /\ IsFiniteSet(S(i - 1))  BY <1>1, <1>4
    <2>2. Cardinality(S(i - 1)) \in Nat  BY <2>1, FS_CardinalityType
    <2>3. CASE q[i] = x
      <3>1. S(i) = S(i - 1) \cup {i} /\ i \notin S(i - 1)  BY <1>4, <2>3
      <3>2. Cardinality(S(i)) = Cardinality(S(i - 1)) + 1
        <4> HIDE DEF S
        <4> QED  BY <3>1, <2>1, FS_AddElement
      <3> QED  BY <3>2, <2>3 DEF Before, One
    <2>4. CASE q[i] # x
      <3>1. S(i) = S(i - 1)  BY <1>4, <2>4
      <3>2. Cardinality(S(i)) = Cardinality(S(i - 1))  BY <3>1
      <3> QED  BY <3>2, <2>2, <2>4 DEF Before, One
    <2> QED  BY <2>3, <2>4
  <1>5. ASSUME NEW n \in Nat, i <= n  PROVE Before(q, i, x) <= Before(q, n, x)
    <2>1. IsFiniteSet(S(n)) /\ S(i) \in SUBSET S(n)  BY <1>1, <1>5
    <2> QED  BY <2>1, FS_Subset DEF Before
  <1> QED  BY <1>2, <1>3, <1>4, <1>5

LEMMA MinusStep ==
    ASSUME NEW E \in [Id -> Nat], NEW q, NEW n \in Nat, NEW i \in 1..n,
           \A x \in Id : Before(q, n, x) <= E[x]
    PROVE  /\ MinusTo(E, q, i - 1) \in [Id -> Nat]
           /\ q[i] \in Id => MinusTo(E, q, i - 1)[q[i]] # 0
           /\ Less(MinusTo(E, q, i - 1), q[i]) = MinusTo(E, q, i)
  <1>1. ASSUME NEW x \in Id
        PROVE  /\ Before(q, i - 1, x) \in Nat /\ Before(q, i, x) \in Nat
               /\ Before(q, i, x) = Before(q, i - 1, x) + One(q[i], x)
               /\ Before(q, i, x) <= E[x]
    <2>1. i \in Nat /\ i - 1 \in Nat /\ i > 0 /\ i <= n  OBVIOUS
    <2>2. Before(q, i - 1, x) \in Nat  BY <2>1, BeforeSteps
    <2>3. /\ Before(q, i, x) \in Nat /\ Before(q, i, x) <= Before(q, n, x)
          /\ Before(q, i, x) = Before(q, i - 1, x) + One(q[i], x)
          /\ Before(q, n, x) \in Nat
      BY <2>1, BeforeSteps
    <2> QED  BY <2>2, <2>3
  <1>2. \A x \in Id : One(q[i], x) = IF x = q[i] THEN 1 ELSE 0  BY DEF One
  <1>3. MinusTo(E, q, i - 1) \in [Id -> Nat]
    <2> SUFFICES ASSUME NEW x \in Id  PROVE E[x] - Before(q, i - 1, x) \in Nat  BY DEF MinusTo
    <2> QED  BY <1>1, <1>2
  <1>4. q[i] \in Id => MinusTo(E, q, i - 1)[q[i]] # 0  BY <1>1, <1>2 DEF MinusTo
  <1>5. \A x \in Id : Less(MinusTo(E, q, i - 1), q[i])[x] = MinusTo(E, q, i)[x]
    BY <1>1, <1>2 DEF Less, MinusTo
  <1>6. Less(MinusTo(E, q, i - 1), q[i]) = MinusTo(E, q, i)  BY <1>5 DEF Less, MinusTo
  <1> QED  BY <1>3, <1>4, <1>6

(* DecAll takes a reference away for each node of the sequence.            *)
LEMMA DecAllOK ==
    ASSUME NEW k, ManagerOK(k), k.reclaiming \/ k.collecting,
           NEW q \in Seq(Id \cup {Null}), \A i \in DOMAIN q : q[i] \in Live(k) \cup {Null},
           NEW E \in [Id -> Nat], \A x \in Id : Occurrences(q, x) <= E[x],
           NEW P, CountsOK(k, E, P)
    PROVE  /\ ManagerOK(DecAll(k, q))
           /\ Shape(k, DecAll(k, q))
           /\ SameMaxed(k, DecAll(k, q))
           /\ SameBatch(k, DecAll(k, q))
           /\ CountsOK(DecAll(k, q), Minus(E, q), P)
           /\ DecAll(k, q).zombies \subseteq k.zombies \cup Range(q)
  <1> DEFINE n == Len(q)
             Fine(j, i) == /\ ManagerOK(j) /\ Shape(k, j) /\ SameMaxed(k, j) /\ SameBatch(k, j)
                           /\ CountsOK(j, MinusTo(E, q, i), P)
                           /\ j.zombies \subseteq k.zombies \cup Range(q)
  <1>1. n \in Nat /\ DOMAIN q = 1..n  BY LenProperties
  <1>2. PICK f : DecRun(f, k, q, n) /\ DecAll(k, q) = f[n]  BY <1>1, DecAllRun
  <1>3. \A x \in Id : Occurrences(q, x) = Before(q, n, x)  BY <1>1 DEF Occurrences, Before
  <1>4. MinusTo(E, q, n) = Minus(E, q)  BY <1>3 DEF MinusTo, Minus
  <1>5. MinusTo(E, q, 0) = E  
    <2>1. \A x \in Id : E[x] - Before(q, 0, x) = E[x]  BY BeforeSteps
    <2> QED  BY <2>1 DEF MinusTo
  <1> HIDE DEF n
  <1> DEFINE S == {i \in Nat : Fine(f[i], i)}
  <1>6. 0 \in S
    <2>1. f[0] = k  BY <1>1, <1>2 DEF DecRun
    <2>2. Shape(k, k) /\ SameMaxed(k, k) /\ SameBatch(k, k)  BY DEF Shape, SameMaxed, SameBatch
    <2> QED  BY <2>1, <2>2, <1>5
  <1>7. ASSUME NEW i \in 1..n, i - 1 \in S  PROVE i \in S
    <2>1. i \in 0..n /\ i # 0 /\ i \in DOMAIN q /\ i \in Nat  BY <1>1
    <2>2. f[i] = dec(f[i - 1], q[i])  BY <2>1, <1>2 DEF DecRun
    <2> DEFINE j == f[i - 1]
               F == MinusTo(E, q, i - 1)
    <2>3. Fine(j, i - 1)  BY <1>7
    <2>4. F \in [Id -> Nat] /\ (q[i] \in Id => F[q[i]] # 0) /\ Less(F, q[i]) = MinusTo(E, q, i)
      <3> HIDE DEF S
      <3>1. \A x \in Id : Before(q, n, x) <= E[x]  BY <1>3
      <3>2. /\ MinusTo(E, q, i - 1) \in [Id -> Nat]
            /\ q[i] \in Id => MinusTo(E, q, i - 1)[q[i]] # 0
            /\ Less(MinusTo(E, q, i - 1), q[i]) = MinusTo(E, q, i)
        BY <1>1, <3>1, MinusStep
      <3> QED  BY <3>2
    <2>5. q[i] \in Live(j) \cup {Null} /\ (j.reclaiming \/ j.collecting)
      BY <2>1, <2>3 DEF Shape, SameBatch
    <2>6. q[i] # Null => q[i] \in Id  BY <2>1, <1>1, LiveNode
    <2>7. ManagerOK(j) /\ CountsOK(j, F, P)  BY <2>3
    <2> HIDE DEF j, F, Fine
    <2>8. /\ ManagerOK(dec(j, q[i])) /\ Shape(j, dec(j, q[i])) /\ SameMaxed(j, dec(j, q[i]))
          /\ CountsOK(dec(j, q[i]), Less(F, q[i]), P) /\ SameBatch(j, dec(j, q[i]))
          /\ dec(j, q[i]).zombies \subseteq j.zombies \cup {q[i]}
      BY <2>4, <2>5, <2>6, <2>7, DecOK
    <2>9. Shape(k, dec(j, q[i]))  BY <2>3, <2>8, ShapeTrans DEF Fine
    <2>10. SameMaxed(k, dec(j, q[i])) /\ SameBatch(k, dec(j, q[i]))
      BY <2>3, <2>8 DEF Fine, SameMaxed, SameBatch, Shape
    <2>11. q[i] \in Range(q)  BY <2>1 DEF Range
    <2>12. dec(j, q[i]).zombies \subseteq k.zombies \cup Range(q)  BY <2>3, <2>8, <2>11 DEF Fine
    <2>13. Fine(f[i], i)  BY <2>2, <2>4, <2>8, <2>9, <2>10, <2>12 DEF Fine, j
    <2> QED  BY <2>1, <2>13
  <1> HIDE DEF S
  <1>8. 0..n \subseteq S  BY <1>1, <1>6, <1>7, Climb
  <1>9. n \in S  BY <1>1, <1>8
  <1> QED  BY <1>2, <1>4, <1>9 DEF S

-----------------------------------------------------------------------------
(* References and the inductive invariant.                                 *)

ChildSites(k, n) ==
    {c \in Live(k) \X (1..MaxChildren) :
        c[2] \in DOMAIN k.nodes[c[1]].children /\ k.nodes[c[1]].children[c[2]] = n}

RefCount(k, hd, bd, td) ==
    [n \in Id |-> Occurrences(hd, n) + Occurrences(bd, n) + Occurrences(k.attr, n)
                  + Occurrences(td, Dec(n)) + Cardinality(ChildSites(k, n))]

HeldBy(hd) == {hd[h] : h \in Handle} \ {Null}
PutsOf(td) == {td[i].node : i \in {j \in DOMAIN td : td[j].op = "put"}}

(* Children are older than their parents.                                  *)
TreeOK(k) ==
    \A n \in Live(k) :
        /\ Len(k.nodes[n].children) <= MaxChildren
        /\ \A i \in DOMAIN k.nodes[n].children : k.nodes[n].children[i] < n

AttrLive(k) == \A n \in DOMAIN k.attr : k.attr[n] # Null => n \in Live(k)

UniqueIn(k) ==
    /\ k.pool = {n \in Live(k) : k.nodes[n].kind # "VARIABLE"}
    /\ \A a, b \in k.pool :
          k.nodes[a].kind = k.nodes[b].kind /\ k.nodes[a].children = k.nodes[b].children
          => a = b

Typed(k, hd, bd, td) ==
    /\ ManagerOK(k)
    /\ hd \in [Handle -> Id \cup {Null}]
    /\ bd \in Seq(Id) /\ Len(bd) <= MaxChildren
    /\ td \in Seq(Task)

ReferredLive(k, E) == \A n \in Id : E[n] # 0 => n \in Live(k)

Core(k, hd, bd, td) ==
    /\ Typed(k, hd, bd, td)
    /\ TreeOK(k)
    /\ AttrLive(k)
    /\ UniqueIn(k)
    /\ k.collecting = FALSE
    /\ CountsOK(k, RefCount(k, hd, bd, td), PutsOf(td))
    /\ ReferredLive(k, RefCount(k, hd, bd, td))

LEMMA ChildSitesFinite ==
    ASSUME NEW k, ManagerOK(k), NEW n
    PROVE  /\ IsFiniteSet(ChildSites(k, n))
           /\ Cardinality(ChildSites(k, n)) \in Nat
           /\ Cardinality(ChildSites(k, n)) = 0 <=> ChildSites(k, n) = {}
  <1>1. IsFiniteSet(DOMAIN k.nodes)  BY LiveNode, FS_Interval
  <1>2. IsFiniteSet(Live(k))  BY <1>1, LiveNode, FS_Subset
  <1>3. IsFiniteSet(1..MaxChildren)  BY FS_Interval, CountsAssumption
  <1>4. IsFiniteSet(Live(k) \X (1..MaxChildren))  BY <1>2, <1>3, FS_Product
  <1>5. ChildSites(k, n) \in SUBSET (Live(k) \X (1..MaxChildren))  BY DEF ChildSites
  <1>6. IsFiniteSet(ChildSites(k, n))  BY <1>4, <1>5, FS_Subset
  <1> QED  BY <1>6, FS_CardinalityType, FS_EmptySet

LEMMA RefParts ==
    ASSUME NEW k, NEW hd, NEW bd, NEW td, Typed(k, hd, bd, td), NEW n \in Id
    PROVE  /\ Occurrences(hd, n) \in Nat /\ Occurrences(bd, n) \in Nat
           /\ Occurrences(k.attr, n) \in Nat /\ Occurrences(td, Dec(n)) \in Nat
           /\ Cardinality(ChildSites(k, n)) \in Nat
           /\ RefCount(k, hd, bd, td)[n]
                = Occurrences(hd, n) + Occurrences(bd, n) + Occurrences(k.attr, n)
                  + Occurrences(td, Dec(n)) + Cardinality(ChildSites(k, n))
  <1>1. IsFiniteSet(DOMAIN hd)  BY HandlesFinite DEF Typed
  <1>2. IsFiniteSet(DOMAIN bd) /\ IsFiniteSet(DOMAIN td)  BY SeqFinite DEF Typed
  <1>3. ManagerOK(k) /\ k.attr \in Seq(Id \cup {Null})  BY DEF Typed, ManagerOK, Manager
  <1>4. IsFiniteSet(DOMAIN k.attr)  BY <1>3, SeqFinite
  <1>5. /\ Occurrences(hd, n) \in Nat /\ Occurrences(bd, n) \in Nat
        /\ Occurrences(k.attr, n) \in Nat /\ Occurrences(td, Dec(n)) \in Nat
    BY <1>1, <1>2, <1>4, OccType
  <1>6. Cardinality(ChildSites(k, n)) \in Nat  BY <1>3, ChildSitesFinite
  <1> QED  BY <1>5, <1>6 DEF RefCount

LEMMA RefType ==
    ASSUME NEW k, NEW hd, NEW bd, NEW td, Typed(k, hd, bd, td)
    PROVE  RefCount(k, hd, bd, td) \in [Id -> Nat]
  <1>1. \A n \in Id : RefCount(k, hd, bd, td)[n] \in Nat  BY RefParts
  <1> QED  BY <1>1 DEF RefCount

(* What refers to a node counts.                                           *)
LEMMA RefBounds ==
    ASSUME NEW k, NEW hd, NEW bd, NEW td, Typed(k, hd, bd, td), TreeOK(k)
    PROVE  /\ \A h \in Handle : hd[h] # Null => hd[h] \in Id /\ Occurrences(hd, hd[h]) > 0
           /\ \A i \in DOMAIN bd : bd[i] \in Id /\ Occurrences(bd, bd[i]) > 0
           /\ \A i \in DOMAIN k.attr :
                 k.attr[i] # Null => k.attr[i] \in Id /\ Occurrences(k.attr, k.attr[i]) > 0
           /\ \A i \in DOMAIN td, n \in Id : td[i] = Dec(n) => Occurrences(td, Dec(n)) > 0
           /\ \A n \in Live(k) : \A i \in DOMAIN k.nodes[n].children :
                 /\ k.nodes[n].children[i] \in Id
                 /\ <<n, i>> \in ChildSites(k, k.nodes[n].children[i])
                 /\ Cardinality(ChildSites(k, k.nodes[n].children[i])) > 0
  <1>1. IsFiniteSet(DOMAIN hd)  BY HandlesFinite DEF Typed
  <1>2. IsFiniteSet(DOMAIN bd) /\ IsFiniteSet(DOMAIN td)  BY SeqFinite DEF Typed
  <1>3. ManagerOK(k) /\ k.attr \in Seq(Id \cup {Null})  BY DEF Typed, ManagerOK, Manager
  <1>4. IsFiniteSet(DOMAIN k.attr)  BY <1>3, SeqFinite
  <1>5. ASSUME NEW f, IsFiniteSet(DOMAIN f), NEW x \in DOMAIN f, NEW v, f[x] = v
        PROVE  Occurrences(f, v) > 0
    <2>1. Occurrences(f, v) \in Nat /\ Occurrences(f, v) # 0  BY <1>5, OccType
    <2> QED  BY <2>1
  <1>6. \A h \in Handle : hd[h] # Null => hd[h] \in Id /\ Occurrences(hd, hd[h]) > 0
    <2>1. DOMAIN hd = Handle /\ \A h \in Handle : hd[h] \in Id \cup {Null}  BY DEF Typed
    <2> QED  BY <1>1, <1>5, <2>1
  <1>7. \A i \in DOMAIN bd : bd[i] \in Id /\ Occurrences(bd, bd[i]) > 0
    <2>1. \A i \in DOMAIN bd : bd[i] \in Id  BY LenProperties, ElementOfSeq DEF Typed
    <2> QED  BY <1>2, <1>5, <2>1
  <1>8. \A i \in DOMAIN k.attr :
           k.attr[i] # Null => k.attr[i] \in Id /\ Occurrences(k.attr, k.attr[i]) > 0
    <2>1. \A i \in DOMAIN k.attr : k.attr[i] \in Id \cup {Null}
      BY <1>3, LenProperties, ElementOfSeq
    <2> QED  BY <1>4, <1>5, <2>1
  <1>9. \A i \in DOMAIN td, n \in Id : td[i] = Dec(n) => Occurrences(td, Dec(n)) > 0
    BY <1>2, <1>5
  <1>10. ASSUME NEW n \in Live(k), NEW i \in DOMAIN k.nodes[n].children
         PROVE  /\ k.nodes[n].children[i] \in Id
                /\ <<n, i>> \in ChildSites(k, k.nodes[n].children[i])
                /\ Cardinality(ChildSites(k, k.nodes[n].children[i])) > 0
    <2> DEFINE q == k.nodes[n].children
    <2>1. q \in Seq(Id)  BY <1>3, LiveNode DEF NodeRecord
    <2>2. Len(q) <= MaxChildren  BY DEF TreeOK
    <2>3. i \in 1..MaxChildren /\ q[i] \in Id
      <3> HIDE DEF q
      <3>1. DOMAIN q = 1..Len(q) /\ Len(q) \in Nat  BY <2>1, LenProperties
      <3>2. i \in 1..Len(q)  BY <3>1 DEF q
      <3> QED  BY <2>1, <2>2, <3>1, <3>2, ElementOfSeq, CountsAssumption
    <2>4. <<n, i>> \in ChildSites(k, q[i])  BY <2>3 DEF ChildSites
    <2>5. Cardinality(ChildSites(k, q[i])) \in Nat \ {0}  BY <1>3, <2>4, ChildSitesFinite
    <2> QED  BY <2>3, <2>4, <2>5
  <1> QED  BY <1>6, <1>7, <1>8, <1>9, <1>10

(* So everything that is referred to is there.                             *)
LEMMA RefLive ==
    ASSUME NEW k, NEW hd, NEW bd, NEW td, Typed(k, hd, bd, td), TreeOK(k),
           ReferredLive(k, RefCount(k, hd, bd, td))
    PROVE  /\ HeldBy(hd) \subseteq Live(k)
           /\ \A i \in DOMAIN bd : bd[i] \in Live(k)
           /\ \A i \in DOMAIN k.attr : k.attr[i] \in Live(k) \cup {Null}
           /\ \A i \in DOMAIN td, n \in Id : td[i] = Dec(n) => n \in Live(k)
           /\ \A n \in Live(k) : Range(k.nodes[n].children) \subseteq Live(k)
  <1> DEFINE R == RefCount(k, hd, bd, td)
  <1>1. ASSUME NEW n \in Id,
               \/ Occurrences(hd, n) > 0 \/ Occurrences(bd, n) > 0
               \/ Occurrences(k.attr, n) > 0 \/ Occurrences(td, Dec(n)) > 0
               \/ Cardinality(ChildSites(k, n)) > 0
        PROVE  n \in Live(k)
    <2>1. R[n] # 0  BY <1>1, RefParts
    <2> QED  BY <2>1 DEF ReferredLive
  <1> HIDE DEF R
  <1>2. HeldBy(hd) \subseteq Live(k)  BY <1>1, RefBounds DEF HeldBy
  <1>3. \A i \in DOMAIN bd : bd[i] \in Live(k)  BY <1>1, RefBounds
  <1>4. \A i \in DOMAIN k.attr : k.attr[i] \in Live(k) \cup {Null}  BY <1>1, RefBounds
  <1>5. \A i \in DOMAIN td, n \in Id : td[i] = Dec(n) => n \in Live(k)  BY <1>1, RefBounds
  <1>6. \A n \in Live(k) : Range(k.nodes[n].children) \subseteq Live(k)
    BY <1>1, RefBounds DEF Range
  <1> QED  BY <1>2, <1>3, <1>4, <1>5, <1>6

(* The managers k and j also differ in attributes.                         *)
Frame(k, j) ==
    /\ DOMAIN j.nodes = DOMAIN k.nodes
    /\ Live(j) = Live(k)
    /\ \A n \in Live(k) : /\ j.nodes[n].kind = k.nodes[n].kind
                          /\ j.nodes[n].children = k.nodes[n].children
    /\ j.pool = k.pool

LEMMA ShapeFrame ==
    ASSUME NEW a, NEW b, NEW c
    PROVE  /\ Shape(a, b) => Frame(a, b)
           /\ Frame(a, b) /\ Frame(b, c) => Frame(a, c)
  <1> QED  BY DEF Shape, Frame

LEMMA FrameKeeps ==
    ASSUME NEW k, NEW j, Frame(k, j)
    PROVE  /\ \A n : ChildSites(j, n) = ChildSites(k, n)
           /\ TreeOK(k) => TreeOK(j)
           /\ UniqueIn(k) => UniqueIn(j)
  <1>1. \A n : ChildSites(j, n) = ChildSites(k, n)
    <2> SUFFICES ASSUME NEW n  PROVE ChildSites(j, n) = ChildSites(k, n)  OBVIOUS
    <2>1. ASSUME NEW c \in Live(k) \X (1..MaxChildren)
          PROVE  j.nodes[c[1]].children = k.nodes[c[1]].children
      BY DEF Frame
    <2> QED  BY <2>1 DEF ChildSites, Frame
  <1>2. TreeOK(k) => TreeOK(j)  BY DEF Frame, TreeOK
  <1>3. UniqueIn(k) => UniqueIn(j)
    <2> SUFFICES ASSUME UniqueIn(k)  PROVE UniqueIn(j)  OBVIOUS
    <2>1. j.pool = {n \in Live(j) : j.nodes[n].kind # "VARIABLE"}  BY DEF Frame, UniqueIn
    <2>2. j.pool = k.pool /\ k.pool \subseteq Live(k)  BY DEF Frame, UniqueIn
    <2> QED  BY <2>1, <2>2 DEF Frame, UniqueIn
  <1> QED  BY <1>1, <1>2, <1>3

(* What remains to be shown of a step that keeps the nodes.                *)
LEMMA CoreStep ==
    ASSUME NEW k, NEW hd, NEW bd, NEW td, Core(k, hd, bd, td),
           NEW j, NEW hd2, NEW bd2, NEW td2, Typed(j, hd2, bd2, td2),
           Frame(k, j), AttrLive(j), j.collecting = FALSE,
           NEW E, \A n \in Id : E[n] = RefCount(j, hd2, bd2, td2)[n],
           \A n \in Id : E[n] # 0 => n \in Live(k),
           CountsOK(j, E, PutsOf(td2))
    PROVE  Core(j, hd2, bd2, td2)
  <1>1. TreeOK(j) /\ UniqueIn(j)  BY FrameKeeps DEF Core
  <1>2. Live(j) = Live(k) /\ Live(j) \subseteq Id  BY LiveNode DEF Frame, Typed
  <1>3. ReferredLive(j, RefCount(j, hd2, bd2, td2))  BY <1>2 DEF ReferredLive
  <1>4. CountsOK(j, RefCount(j, hd2, bd2, td2), PutsOf(td2))  BY <1>2 DEF CountsOK
  <1> QED  BY <1>1, <1>3, <1>4 DEF Core

LEMMA CountsWeaken ==
    ASSUME NEW k, NEW E, NEW P, NEW Q, CountsOK(k, E, P), P \subseteq Q
    PROVE  CountsOK(k, E, Q)
  <1> QED  BY DEF CountsOK

IsDec(t) == t = Dec(t.node) /\ t.node \in Id

(* A node that is handed out is not about to be reclaimed; the one that an *)
(* attribute is set on is held by the program.                             *)
PutOK(k, hd, t) ==
    /\ t.op = "put"
    /\ t.node \in Live(k) \ k.batch
    /\ \/ t.at[1] = "handle" /\ t.at[2] \in Handle /\ hd[t.at[2]] = Null
       \/ /\ t.at[1] = "attr"
          /\ {t.at[2], t.node} \subseteq HeldBy(hd)
          /\ k.attr[t.at[2]] = Null

(* The references a builder gives up when a node with the same children is *)
(* found are not the last ones.                                            *)
TodoOK(k, hd, td) ==
    \A i \in DOMAIN td :
        \/ IsDec(td[i])
        \/ /\ i = Len(td)
           /\ PutOK(k, hd, td[i])
           /\ i > 1 => ~k.reclaiming
           /\ \A x \in 1..(i - 1) : td[x].node \in Range(k.nodes[td[i].node].children)

-----------------------------------------------------------------------------
(* The operations of the program.                                          *)

LEMMA SumPositive ==
    ASSUME NEW a \in Nat, NEW b \in Nat, NEW c \in Nat, NEW d \in Nat, NEW e \in Nat
    PROVE  /\ a > 0 \/ b > 0 \/ c > 0 \/ d > 0 \/ e > 0 => a + b + c + d + e > 0
           /\ d > 0 /\ e > 0 => a + b + c + d + e > 1
  <1> QED  OBVIOUS

LEMMA RefPositive ==
    ASSUME NEW k, NEW hd, NEW bd, NEW td, Typed(k, hd, bd, td), TreeOK(k)
    PROVE  /\ \A n \in HeldBy(hd) : n \in Id /\ RefCount(k, hd, bd, td)[n] > 0
           /\ \A p \in Live(k) : \A c \in Range(k.nodes[p].children) :
                 c \in Id /\ RefCount(k, hd, bd, td)[c] > 0
           /\ \A i \in DOMAIN k.attr :
                 k.attr[i] # Null => RefCount(k, hd, bd, td)[k.attr[i]] > 0
           /\ \A i \in DOMAIN td, n \in Id : td[i] = Dec(n) => RefCount(k, hd, bd, td)[n] > 0
           /\ \A i \in DOMAIN td, n \in Id, p \in Live(k) :
                 td[i] = Dec(n) /\ n \in Range(k.nodes[p].children)
                 => RefCount(k, hd, bd, td)[n] > 1
  <1> DEFINE R == RefCount(k, hd, bd, td)
  <1>1. ASSUME NEW n \in Id,
               \/ Occurrences(hd, n) > 0 \/ Occurrences(bd, n) > 0
               \/ Occurrences(k.attr, n) > 0 \/ Occurrences(td, Dec(n)) > 0
               \/ Cardinality(ChildSites(k, n)) > 0
        PROVE  R[n] > 0
    <2>1. /\ Occurrences(hd, n) \in Nat /\ Occurrences(bd, n) \in Nat
          /\ Occurrences(k.attr, n) \in Nat /\ Occurrences(td, Dec(n)) \in Nat
          /\ Cardinality(ChildSites(k, n)) \in Nat
          /\ RefCount(k, hd, bd, td)[n]
               = Occurrences(hd, n) + Occurrences(bd, n) + Occurrences(k.attr, n)
                 + Occurrences(td, Dec(n)) + Cardinality(ChildSites(k, n))
      BY RefParts
    <2> QED  BY <1>1, <2>1, SumPositive
  <1>2. ASSUME NEW n \in Id, Occurrences(td, Dec(n)) > 0, Cardinality(ChildSites(k, n)) > 0
        PROVE  R[n] > 1
    <2>1. /\ Occurrences(hd, n) \in Nat /\ Occurrences(bd, n) \in Nat
          /\ Occurrences(k.attr, n) \in Nat /\ Occurrences(td, Dec(n)) \in Nat
          /\ Cardinality(ChildSites(k, n)) \in Nat
          /\ RefCount(k, hd, bd, td)[n]
               = Occurrences(hd, n) + Occurrences(bd, n) + Occurrences(k.attr, n)
                 + Occurrences(td, Dec(n)) + Cardinality(ChildSites(k, n))
      BY RefParts
    <2> QED  BY <1>2, <2>1, SumPositive
  <1> HIDE DEF R
  <1>3. \A n \in HeldBy(hd) : n \in Id /\ R[n] > 0  BY <1>1, RefBounds DEF HeldBy
  <1>4. \A p \in Live(k) : \A c \in Range(k.nodes[p].children) :
           c \in Id /\ R[c] > 0 /\ Cardinality(ChildSites(k, c)) > 0
    BY <1>1, RefBounds DEF Range
  <1>5. \A i \in DOMAIN k.attr : k.attr[i] # Null => R[k.attr[i]] > 0  BY <1>1, RefBounds
  <1>6. \A i \in DOMAIN td, n \in Id : td[i] = Dec(n) => R[n] > 0 /\ Occurrences(td, Dec(n)) > 0
    BY <1>1, RefBounds
  <1>7. \A i \in DOMAIN td, n \in Id, p \in Live(k) :
           td[i] = Dec(n) /\ n \in Range(k.nodes[p].children) => R[n] > 1
    BY <1>2, <1>4, <1>6
  <1> QED  BY <1>3, <1>4, <1>5, <1>6, <1>7 DEF R

LEMMA NothingTodo ==
    /\ PutsOf(<<>>) = {}
    /\ \A v : Occurrences(<<>>, v) = 0
    /\ \A k, hd : TodoOK(k, hd, <<>>)
    /\ <<>> \in Seq(Task)
  <1>1. DOMAIN <<>> = {}  OBVIOUS
  <1>2. \A v : Occurrences(<<>>, v) = 0  BY <1>1, FS_EmptySet DEF Occurrences
  <1> QED  BY <1>1, <1>2, EmptySeq DEF PutsOf, TodoOK

LEMMA OnePut ==
    ASSUME NEW t \in Task, t.op = "put"
    PROVE  /\ <<t>> \in Seq(Task)
           /\ PutsOf(<<t>>) = {t.node}
           /\ \A n : Occurrences(<<t>>, Dec(n)) = 0
           /\ \A k, hd : PutOK(k, hd, t) => TodoOK(k, hd, <<t>>)
  <1>1. <<t>> \in Seq(Task) /\ DOMAIN <<t>> = {1} /\ Len(<<t>>) = 1 /\ <<t>>[1] = t  OBVIOUS
  <1>2. \A n : t # Dec(n)  BY DEF Dec
  <1>3. \A n : {i \in DOMAIN <<t>> : <<t>>[i] = Dec(n)} = {}  BY <1>1, <1>2
  <1>4. \A n : Occurrences(<<t>>, Dec(n)) = 0  BY <1>3, FS_EmptySet DEF Occurrences
  <1>5. PutsOf(<<t>>) = {t.node}  BY <1>1 DEF PutsOf
  <1>6. ASSUME NEW k, NEW hd, PutOK(k, hd, t)  PROVE TodoOK(k, hd, <<t>>)
    BY <1>1, <1>6 DEF TodoOK
  <1> QED  BY <1>1, <1>4, <1>5, <1>6

LEMMA PutTaskType ==
    ASSUME NEW n \in Id \cup {Null}
    PROVE  /\ \A h \in Handle : PutTask(<<"handle", h>>, n) \in Task
           /\ \A a \in Id : PutTask(<<"attr", a>>, n) \in Task
           /\ \A p : PutTask(p, n).op = "put" /\ PutTask(p, n).node = n /\ PutTask(p, n).at = p
  <1> QED  BY DEF PutTask, Task, Place

(* A node that something refers to is not in the batch.                    *)
LEMMA CountedNotInBatch ==
    ASSUME NEW k, NEW E, NEW P, CountsOK(k, E, P), NEW n \in Live(k), E[n] # 0
    PROVE  n \notin k.batch
  <1> QED  BY CountsAssumption DEF CountsOK

LEMMA LessFacts ==
    ASSUME NEW E \in [Id -> Nat], NEW n
    PROVE  \A x \in Id : /\ x # n => Less(E, n)[x] = E[x]
                         /\ Less(E, n)[x] # 0 /\ (x = n => E[x] # 0) => E[x] # 0
                         /\ Less(E, n)[x] + One(n, x) = E[x]
  <1> QED  BY DEF Less, One

LEMMA MaxedKeeps ==
    ASSUME NEW k, NEW j, NEW o, Live(j) = Live(k), SameMaxed(k, j), MaxedOK(k, o)
    PROVE  MaxedOK(j, o)
  <1>1. Maxed(j) = Maxed(k)  BY DEF SameMaxed, Maxed
  <1> QED  BY <1>1 DEF MaxedOK, SameMaxed

(* A step that keeps the children changes the references by what it does to *)
(* handles, builder, attributes and the nodes still to be released.        *)
LEMMA RefShift ==
    ASSUME NEW k, NEW hd, NEW bd, NEW td, Typed(k, hd, bd, td),
           NEW j, NEW hd2, NEW bd2, NEW td2, Typed(j, hd2, bd2, td2), Frame(k, j),
           NEW n \in Id, NEW up \in Nat, NEW down \in Nat,
           Occurrences(hd2, n) + Occurrences(bd2, n) + Occurrences(j.attr, n)
              + Occurrences(td2, Dec(n)) + down
           = Occurrences(hd, n) + Occurrences(bd, n) + Occurrences(k.attr, n)
              + Occurrences(td, Dec(n)) + up
    PROVE  RefCount(j, hd2, bd2, td2)[n] + down = RefCount(k, hd, bd, td)[n] + up
  <1>1. ChildSites(j, n) = ChildSites(k, n)  BY FrameKeeps
  <1>2. /\ Occurrences(hd, n) \in Nat /\ Occurrences(bd, n) \in Nat
          /\ Occurrences(k.attr, n) \in Nat /\ Occurrences(td, Dec(n)) \in Nat
          /\ Cardinality(ChildSites(k, n)) \in Nat
          /\ RefCount(k, hd, bd, td)[n]
               = Occurrences(hd, n) + Occurrences(bd, n) + Occurrences(k.attr, n)
                 + Occurrences(td, Dec(n)) + Cardinality(ChildSites(k, n))
    BY RefParts
  <1>3. /\ Occurrences(hd2, n) \in Nat /\ Occurrences(bd2, n) \in Nat
          /\ Occurrences(j.attr, n) \in Nat /\ Occurrences(td2, Dec(n)) \in Nat
          /\ Cardinality(ChildSites(j, n)) \in Nat
          /\ RefCount(j, hd2, bd2, td2)[n]
               = Occurrences(hd2, n) + Occurrences(bd2, n) + Occurrences(j.attr, n)
                 + Occurrences(td2, Dec(n)) + Cardinality(ChildSites(j, n))
    BY RefParts
  <1>4. PICK a : a = Occurrences(hd, n)  OBVIOUS
  <1>5. PICK b : b = Occurrences(bd, n)  OBVIOUS
  <1>6. PICK c : c = Occurrences(k.attr, n)  OBVIOUS
  <1>7. PICK d : d = Occurrences(td, Dec(n))  OBVIOUS
  <1>8. PICK e : e = Cardinality(ChildSites(k, n))  OBVIOUS
  <1>9. PICK a2 : a2 = Occurrences(hd2, n)  OBVIOUS
  <1>10. PICK b2 : b2 = Occurrences(bd2, n)  OBVIOUS
  <1>11. PICK c2 : c2 = Occurrences(j.attr, n)  OBVIOUS
  <1>12. PICK d2 : d2 = Occurrences(td2, Dec(n))  OBVIOUS
  <1>13. a2 + b2 + c2 + d2 + down = a + b + c + d + up
    BY <1>4, <1>5, <1>6, <1>7, <1>9, <1>10, <1>11, <1>12
  <1>14. /\ a \in Nat /\ b \in Nat /\ c \in Nat /\ d \in Nat /\ e \in Nat
         /\ RefCount(k, hd, bd, td)[n] = a + b + c + d + e
    BY <1>2, <1>4, <1>5, <1>6, <1>7, <1>8
  <1>15. /\ a2 \in Nat /\ b2 \in Nat /\ c2 \in Nat /\ d2 \in Nat
         /\ RefCount(j, hd2, bd2, td2)[n] = a2 + b2 + c2 + d2 + e
    BY <1>1, <1>3, <1>8, <1>9, <1>10, <1>11, <1>12
  <1>16. (a2 + b2 + c2 + d2 + e) + down = (a + b + c + d + e) + up
    BY <1>13, <1>14, <1>15
  <1> QED  BY <1>14, <1>15, <1>16

(* Assign: also when the node assigned is a child of the one released.     *)
LEMMA AssignOK ==
    ASSUME NEW k, NEW hd, NEW bd, Core(k, hd, bd, <<>>), NEW o, MaxedOK(k, o),
           NEW h \in Handle, NEW n \in Id \cup {Null}, n # hd[h],
           n = Null \/ n \in HeldBy(hd) \/ \E p \in HeldBy(hd) : n \in Range(k.nodes[p].children),
           NEW td, td = IF n = Null THEN <<>> ELSE <<PutTask(<<"handle", h>>, n)>>
    PROVE  /\ Core(dec(k, hd[h]), [hd EXCEPT ![h] = Null], bd, td)
           /\ TodoOK(dec(k, hd[h]), [hd EXCEPT ![h] = Null], td)
           /\ MaxedOK(dec(k, hd[h]), o)
  <1> DEFINE R == RefCount(k, hd, bd, <<>>)
             old == hd[h]
             hd2 == [hd EXCEPT ![h] = Null]
             j == dec(k, old)
             t == PutTask(<<"handle", h>>, n)
  <1>1. Typed(k, hd, bd, <<>>) /\ TreeOK(k) /\ CountsOK(k, R, {}) /\ ReferredLive(k, R)
    BY NothingTodo DEF Core
  <1>2. R \in [Id -> Nat]  BY <1>1, RefType
  <1>3. ManagerOK(k) /\ hd \in [Handle -> Id \cup {Null}] /\ Null \notin Id  BY <1>1, LiveNode DEF Typed
  <1>4. old # Null => old \in HeldBy(hd)  BY DEF HeldBy
  <1>5. old \in Live(k) \cup {Null} /\ (old # Null => R[old] # 0)
    BY <1>1, <1>4, RefLive, RefPositive
  <1>6. n # Null => n \in Live(k) /\ R[n] # 0
    <2>1. \A p \in HeldBy(hd) : p \in Live(k)  BY <1>1, RefLive
    <2> QED  BY <2>1, <1>1, RefLive, RefPositive
  <1> HIDE DEF R, old, t
  <1>7. /\ ManagerOK(j) /\ Shape(k, j) /\ SameMaxed(k, j) /\ CountsOK(j, Less(R, old), {})
    BY <1>1, <1>2, <1>3, <1>5, DecOK
  <1> HIDE DEF j
  <1>8. /\ td \in Seq(Task) /\ (\A x : Occurrences(td, Dec(x)) = 0)
        /\ {} \subseteq PutsOf(td)
    <2>1. CASE n = Null  BY <2>1, NothingTodo
    <2>2. CASE n # Null
      <3>1. t \in Task /\ t.op = "put"  BY PutTaskType DEF t
      <3>2. td = <<t>>  BY <2>2 DEF t
      <3> QED  BY <3>1, <3>2, OnePut
    <2> QED  BY <2>1, <2>2
  <1>9. Typed(j, hd2, bd, td)  BY <1>1, <1>3, <1>7, <1>8 DEF Typed
  <1>10. Frame(k, j) /\ j.attr = k.attr /\ j.collecting = FALSE /\ Live(j) = Live(k)
    BY <1>7, ShapeFrame DEF Shape, Core
  <1>11. AttrLive(j)  BY <1>10 DEF AttrLive, Core
  <1>12. ASSUME NEW x \in Id  PROVE Less(R, old)[x] = RefCount(j, hd2, bd, td)[x]
    <2>1. Occurrences(hd2, x) + One(old, x) = Occurrences(hd, x) + One(Null, x)
      <3>1. IsFiniteSet(DOMAIN hd) /\ h \in DOMAIN hd  BY <1>3, HandlesFinite
      <3>2. Occurrences(With(hd, h, Null), x) + One(old, x) = Occurrences(hd, x) + One(Null, x)
        BY <3>1, OccExcept DEF old
      <3> QED  BY <3>2 DEF With
    <2>2. One(Null, x) = 0  BY <1>3 DEF One
    <2>4. Occurrences(<<>>, Dec(x)) = 0 /\ Occurrences(td, Dec(x)) = 0  BY <1>8, NothingTodo
    <2>5. One(old, x) \in Nat  BY DEF One
    <2> HIDE DEF hd2
    <2>6. Occurrences(hd, x) \in Nat /\ Occurrences(bd, x) \in Nat /\ Occurrences(k.attr, x) \in Nat
      BY <1>1, RefParts
    <2>7. Occurrences(hd2, x) \in Nat  BY <1>9, RefParts
    <2>8. Occurrences(hd2, x) + Occurrences(bd, x) + Occurrences(j.attr, x)
              + Occurrences(td, Dec(x)) + One(old, x)
           = Occurrences(hd, x) + Occurrences(bd, x) + Occurrences(k.attr, x)
              + Occurrences(<<>>, Dec(x)) + 0
      BY <2>1, <2>2, <2>4, <2>5, <2>6, <2>7, <1>10
    <2>9. RefCount(j, hd2, bd, td)[x] + One(old, x) = RefCount(k, hd, bd, <<>>)[x] + 0
      BY <2>5, <2>8, <1>1, <1>9, <1>10, RefShift
    <2>10. Less(R, old)[x] + One(old, x) = R[x] /\ Less(R, old)[x] \in Int /\ R[x] \in Nat
      BY <1>2 DEF Less, One
    <2>11. RefCount(j, hd2, bd, td)[x] \in Nat  BY <1>9, RefType
    <2> QED  BY <2>5, <2>9, <2>10, <2>11 DEF R
  <1>13. \A x \in Id : Less(R, old)[x] # 0 => x \in Live(k)
    <2>1. \A x \in Id : x # old => Less(R, old)[x] = R[x]  BY <1>2, LessFacts
    <2>2. old \in Id => old \in Live(k)  BY <1>3, <1>5
    <2> QED  BY <1>1, <2>1, <2>2 DEF ReferredLive
  <1>14. Core(j, hd2, bd, td)
    <2> HIDE DEF hd2
    <2>1. CountsOK(j, Less(R, old), PutsOf(td))  BY <1>7, CountsWeaken
    <2> QED  BY <2>1, <1>9, <1>10, <1>11, <1>12, <1>13, CoreStep
  <1>15. TodoOK(j, hd2, td)
    <2>1. CASE n = Null  BY <2>1, NothingTodo
    <2>2. CASE n # Null
      <3>1. t \in Task /\ t.op = "put" /\ t.node = n /\ t.at = <<"handle", h>>
        BY PutTaskType DEF t
      <3>2. td = <<t>>  BY <2>2 DEF t
      <3>3. n \in Id /\ Less(R, old)[n] = R[n]  BY <2>2, <1>2, LessFacts DEF old
      <3>4. n \notin j.batch  BY <2>2, <3>3, <1>6, <1>7, <1>10, CountedNotInBatch
      <3>5. hd2[h] = Null  BY <1>3
      <3>6. PutOK(j, hd2, t)  BY <2>2, <3>1, <3>4, <3>5, <1>6, <1>10 DEF PutOK
      <3> HIDE DEF hd2
      <3> QED  BY <3>1, <3>2, <3>6, OnePut
    <2> QED  BY <2>1, <2>2
  <1>16. MaxedOK(j, o)  BY <1>7, <1>10, MaxedKeeps
  <1> QED  BY <1>14, <1>15, <1>16 DEF j, old

(* The references to n that are not from other nodes.                      *)
Direct(k, hd, bd, td, n) ==
    Occurrences(hd, n) + Occurrences(bd, n) + Occurrences(k.attr, n) + Occurrences(td, Dec(n))

LEMMA DirectShift ==
    ASSUME NEW k, NEW hd, NEW bd, NEW td, Typed(k, hd, bd, td),
           NEW j, NEW hd2, NEW bd2, NEW td2, Typed(j, hd2, bd2, td2), Frame(k, j),
           NEW n \in Id, NEW up \in Nat, NEW down \in Nat,
           Direct(j, hd2, bd2, td2, n) + down = Direct(k, hd, bd, td, n) + up
    PROVE  RefCount(j, hd2, bd2, td2)[n] + down = RefCount(k, hd, bd, td)[n] + up
  <1>1. Occurrences(hd2, n) + Occurrences(bd2, n) + Occurrences(j.attr, n)
              + Occurrences(td2, Dec(n)) + down
           = Occurrences(hd, n) + Occurrences(bd, n) + Occurrences(k.attr, n)
              + Occurrences(td, Dec(n)) + up
    BY DEF Direct
  <1> QED  BY <1>1, RefShift

(* The managers k and j differ at most in attributes.                      *)
OnlyAttr(k, j) ==
    /\ ManagerOK(j)
    /\ j.nodes = k.nodes /\ j.pool = k.pool /\ j.zombies = k.zombies
    /\ j.maxedOut = k.maxedOut /\ j.collecting = k.collecting
    /\ j.reclaiming = k.reclaiming /\ j.batch = k.batch

LEMMA OnlyAttrKeeps ==
    ASSUME NEW k, NEW j, OnlyAttr(k, j)
    PROVE  /\ Frame(k, j) /\ Live(j) = Live(k)
           /\ \A E, P : CountsOK(k, E, P) => CountsOK(j, E, P)
           /\ \A o : MaxedOK(k, o) => MaxedOK(j, o)
           /\ SameBatch(k, j)
  <1>1. Live(j) = Live(k)  BY DEF OnlyAttr, Live
  <1>2. Maxed(j) = Maxed(k)  BY <1>1 DEF OnlyAttr, Maxed
  <1> QED  BY <1>1, <1>2 DEF OnlyAttr, Frame, CountsOK, MaxedOK, SameBatch

WithAttr(k, a, v) == [k EXCEPT !.attr[a] = v]

LEMMA WithAttrOK ==
    ASSUME NEW k, ManagerOK(k), NEW a \in DOMAIN k.attr, NEW v \in Id \cup {Null}
    PROVE  /\ OnlyAttr(k, WithAttr(k, a, v))
           /\ WithAttr(k, a, v).attr[a] = v
           /\ DOMAIN WithAttr(k, a, v).attr = DOMAIN k.attr
           /\ \A x \in DOMAIN k.attr : x # a => WithAttr(k, a, v).attr[x] = k.attr[x]
           /\ \A w : k.attr[a] = w =>
                 \A x : Occurrences(WithAttr(k, a, v).attr, x) + One(w, x)
                        = Occurrences(k.attr, x) + One(v, x)
  <1> DEFINE q == [k.attr EXCEPT ![a] = v]
             j == [k EXCEPT !.attr = q]
  <1>1. /\ k \in Manager /\ k.attr \in Seq(Id \cup {Null})
        /\ Len(k.attr) = Len(k.nodes) /\ Len(k.nodes) <= MaxNodes
    BY DEF ManagerOK, Manager
  <1>2. a \in 1..Len(k.attr) /\ DOMAIN k.attr = 1..Len(k.attr) /\ IsFiniteSet(DOMAIN k.attr)
    BY <1>1, SeqFinite
  <1>3. q \in Seq(Id \cup {Null}) /\ Len(q) = Len(k.attr)  BY <1>1, <1>2, ExceptSeq
  <1>4. /\ DOMAIN q = DOMAIN k.attr /\ q[a] = v
        /\ \A x \in DOMAIN k.attr : x # a => q[x] = k.attr[x]
    OBVIOUS
  <1>5. \A x : Occurrences(q, x) + One(k.attr[a], x) = Occurrences(k.attr, x) + One(v, x)
    <2>1. \A x : Occurrences(With(k.attr, a, v), x) + One(k.attr[a], x) = Occurrences(k.attr, x) + One(v, x)
      BY <1>2, OccExcept
    <2> QED  BY <2>1 DEF With
  <1>6. WithAttr(k, a, v) = j  BY <1>1 DEF WithAttr, Manager
  <1> HIDE DEF q
  <1>7. /\ j \in Manager /\ j.nodes = k.nodes /\ j.pool = k.pool /\ j.zombies = k.zombies
        /\ j.maxedOut = k.maxedOut /\ j.attr = q /\ j.collecting = k.collecting
        /\ j.reclaiming = k.reclaiming /\ j.batch = k.batch
    BY <1>1, <1>3 DEF Manager
  <1> HIDE DEF j
  <1>8. OnlyAttr(k, j)  BY <1>1, <1>3, <1>7 DEF OnlyAttr, ManagerOK
  <1> QED  BY <1>4, <1>5, <1>6, <1>7, <1>8 DEF q

(* A step that adds one reference to n.                                    *)
LEMMA GainOK ==
    ASSUME NEW k, NEW hd, NEW bd, NEW td, Core(k, hd, bd, td), MaxedOK(k, <<>>),
           NEW n \in Live(k), n \notin k.batch,
           NEW j, OnlyAttr(inc(k, n), j), AttrLive(j),
           NEW hd2, NEW bd2, NEW td2, Typed(j, hd2, bd2, td2),
           PutsOf(td) \ {n} \subseteq PutsOf(td2),
           \A x \in Id : Direct(j, hd2, bd2, td2, x) = Direct(k, hd, bd, td, x) + One(n, x)
    PROVE  /\ Core(j, hd2, bd2, td2)
           /\ MaxedOK(j, <<>>)
           /\ SameBatch(k, j)
  <1> DEFINE R == RefCount(k, hd, bd, td)
             i == inc(k, n)
  <1>1. Typed(k, hd, bd, td) /\ ManagerOK(k) /\ CountsOK(k, R, PutsOf(td)) /\ ReferredLive(k, R)
    BY DEF Core, Typed
  <1>2. R \in [Id -> Nat] /\ n \in Id  BY <1>1, RefType, LiveNode
  <1> HIDE DEF R
  <1>3. /\ ManagerOK(i) /\ Shape(k, i) /\ SameBatch(k, i)
        /\ CountsOK(i, More(R, n), PutsOf(td) \ {n})
        /\ \/ i.maxedOut = k.maxedOut /\ Maxed(i) = Maxed(k)
           \/ /\ i.maxedOut = Append(k.maxedOut, n)
              /\ n \notin Maxed(k) /\ Maxed(i) = Maxed(k) \cup {n}
    BY <1>1, <1>2, IncOK
  <1> HIDE DEF i
  <1>4. MaxedOK(i, <<>>)  BY <1>1, <1>2, <1>3, IncMaxed
  <1>5. OnlyAttr(i, j)  BY DEF i
  <1>6. /\ Frame(i, j) /\ Live(j) = Live(i) /\ CountsOK(j, More(R, n), PutsOf(td) \ {n})
        /\ MaxedOK(j, <<>>) /\ SameBatch(i, j) /\ j.collecting = i.collecting
    BY <1>3, <1>4, <1>5, OnlyAttrKeeps DEF OnlyAttr
  <1>7. Frame(k, j) /\ j.collecting = FALSE /\ SameBatch(k, j)
    BY <1>3, <1>6, ShapeFrame DEF Shape, SameBatch, Core
  <1>8. CountsOK(j, More(R, n), PutsOf(td2))  BY <1>6, CountsWeaken
  <1>9. ASSUME NEW x \in Id  PROVE More(R, n)[x] = RefCount(j, hd2, bd2, td2)[x]
    <2>1. RefCount(j, hd2, bd2, td2)[x] \in Nat  BY RefType
    <2>2. RefCount(j, hd2, bd2, td2)[x] + 0 = R[x] + One(n, x)
      <3>1. One(n, x) \in Nat  BY DEF One
      <3>2. Direct(j, hd2, bd2, td2, x) + 0 = Direct(k, hd, bd, td, x) + One(n, x)
        <4>1. Direct(k, hd, bd, td, x) \in Nat  BY <1>1, RefParts DEF Direct
        <4> QED  BY <4>1, <3>1
      <3> QED  BY <3>1, <3>2, <1>1, <1>7, DirectShift DEF R
    <2>3. More(R, n)[x] = R[x] + One(n, x)  BY <1>2 DEF More, One
    <2> QED  BY <2>1, <2>2, <2>3
  <1>10. \A x \in Id : More(R, n)[x] # 0 => x \in Live(k)
    BY <1>1, <1>2 DEF More, ReferredLive
  <1>11. Core(j, hd2, bd2, td2)  BY <1>7, <1>8, <1>9, <1>10, CoreStep
  <1> QED  BY <1>6, <1>7, <1>11

(* A step that takes one reference to n away.                              *)
LEMMA LossOK ==
    ASSUME NEW k, NEW hd, NEW bd, NEW td, Core(k, hd, bd, td), NEW o, MaxedOK(k, o),
           NEW a, OnlyAttr(k, a), AttrLive(a),
           NEW n \in Live(k) \cup {Null}, n # Null => RefCount(k, hd, bd, td)[n] > 0,
           NEW hd2, NEW bd2, NEW td2, Typed(a, hd2, bd2, td2), PutsOf(td) \subseteq PutsOf(td2),
           \A x \in Id : Direct(a, hd2, bd2, td2, x) + One(n, x) = Direct(k, hd, bd, td, x)
    PROVE  /\ Core(dec(a, n), hd2, bd2, td2)
           /\ MaxedOK(dec(a, n), o)
           /\ Shape(a, dec(a, n))
           /\ k.reclaiming \/ (n # Null /\ RefCount(k, hd, bd, td)[n] > 1) => SameBatch(k, dec(a, n))
           /\ \A x \in Live(k) : x # n /\ RefCount(k, hd, bd, td)[x] > 0 => x \notin dec(a, n).batch
  <1> DEFINE R == RefCount(k, hd, bd, td)
             j == dec(a, n)
             P == PutsOf(td)
  <1>1. Typed(k, hd, bd, td) /\ ManagerOK(k) /\ CountsOK(k, R, P) /\ ReferredLive(k, R)
    BY DEF Core, Typed
  <1>2. R \in [Id -> Nat] /\ Live(k) \subseteq Id /\ Null \notin Id  BY <1>1, RefType, LiveNode
  <1>3. /\ ManagerOK(a) /\ Frame(k, a) /\ Live(a) = Live(k) /\ CountsOK(a, R, P)
        /\ MaxedOK(a, o) /\ SameBatch(k, a) /\ a.collecting = FALSE
    BY <1>1, OnlyAttrKeeps DEF OnlyAttr, Core
  <1>4. n \in Live(a) \cup {Null} /\ (n # Null => R[n] # 0)  BY <1>2, <1>3
  <1> HIDE DEF R, P
  <1>5. /\ ManagerOK(j) /\ Shape(a, j) /\ SameMaxed(a, j) /\ CountsOK(j, Less(R, n), P)
        /\ a.reclaiming \/ a.collecting \/ (n # Null /\ R[n] > 1) => SameBatch(a, j)
    BY <1>2, <1>3, <1>4, DecOK
  <1> HIDE DEF j
  <1>6. k.reclaiming \/ (n # Null /\ R[n] > 1) => SameBatch(k, j)
    BY <1>3, <1>5 DEF SameBatch
  <1>7. /\ Live(j) = Live(a) /\ j.attr = a.attr /\ j.collecting = FALSE /\ DOMAIN j.attr = DOMAIN a.attr
    BY <1>3, <1>5 DEF Shape
  <1>8. Frame(k, j)  BY <1>3, <1>5, ShapeFrame
  <1>9. MaxedOK(j, o)  BY <1>3, <1>5, <1>7, MaxedKeeps
  <1>10. AttrLive(j)  BY <1>7 DEF AttrLive
  <1>11. Typed(j, hd2, bd2, td2)  BY <1>5 DEF Typed
  <1>12. CountsOK(j, Less(R, n), PutsOf(td2))  BY <1>5, CountsWeaken DEF P
  <1>13. ASSUME NEW x \in Id  PROVE Less(R, n)[x] = RefCount(j, hd2, bd2, td2)[x]
    <2>1. RefCount(j, hd2, bd2, td2)[x] \in Nat  BY <1>11, RefType
    <2>2. One(n, x) \in Nat  BY DEF One
    <2>3. Direct(j, hd2, bd2, td2, x) = Direct(a, hd2, bd2, td2, x)  BY <1>7 DEF Direct
    <2>4. Direct(j, hd2, bd2, td2, x) + One(n, x) = Direct(k, hd, bd, td, x) + 0
      <3>1. Direct(k, hd, bd, td, x) \in Nat  BY <1>1, RefParts DEF Direct
      <3> QED  BY <3>1, <2>3
    <2>5. RefCount(j, hd2, bd2, td2)[x] + One(n, x) = R[x] + 0
      BY <2>2, <2>4, <1>1, <1>8, <1>11, DirectShift DEF R
    <2>6. Less(R, n)[x] + One(n, x) = R[x] /\ Less(R, n)[x] \in Int /\ R[x] \in Nat
      BY <1>2 DEF Less, One
    <2> QED  BY <2>1, <2>2, <2>5, <2>6
  <1>14. \A x \in Id : x # n => Less(R, n)[x] = R[x]  BY <1>2, LessFacts
  <1>15. \A x \in Id : Less(R, n)[x] # 0 => x \in Live(k)
    BY <1>1, <1>2, <1>14 DEF ReferredLive
  <1>16. Core(j, hd2, bd2, td2)  BY <1>7, <1>8, <1>10, <1>11, <1>12, <1>13, <1>15, CoreStep
  <1>17. ASSUME NEW x \in Live(k), x # n, R[x] > 0  PROVE x \notin j.batch
    <2>1. Less(R, n)[x] # 0 /\ x \in Live(j)  BY <1>2, <1>3, <1>7, <1>14, <1>17
    <2> QED  BY <2>1, <1>5, CountedNotInBatch
  <1> QED  BY <1>5, <1>6, <1>9, <1>16, <1>17 DEF j, R

Running(k, hd, bd, td) == Core(k, hd, bd, td) /\ TodoOK(k, hd, td) /\ MaxedOK(k, <<>>)

LEMMA NoBatch ==
    ASSUME NEW k, NEW hd, NEW bd, NEW td, Core(k, hd, bd, td), ~k.reclaiming
    PROVE  k.batch = {}
  <1> QED  BY DEF Core, CountsOK

LEMMA IncFacts ==
    ASSUME NEW k, NEW hd, NEW bd, NEW td, Core(k, hd, bd, td), NEW n \in Live(k), n \notin k.batch
    PROVE  /\ OnlyAttr(inc(k, n), inc(k, n)) /\ ManagerOK(inc(k, n))
           /\ inc(k, n).attr = k.attr /\ Live(inc(k, n)) = Live(k)
           /\ AttrLive(inc(k, n))
  <1> DEFINE R == RefCount(k, hd, bd, td)
             j == inc(k, n)
  <1>1. Typed(k, hd, bd, td) /\ ManagerOK(k) /\ CountsOK(k, R, PutsOf(td)) /\ AttrLive(k)
    BY DEF Core, Typed
  <1>2. R \in [Id -> Nat]  BY <1>1, RefType
  <1> HIDE DEF R
  <1>3. ManagerOK(j) /\ Shape(k, j)  BY <1>1, <1>2, IncOK
  <1> HIDE DEF j
  <1>4. j.attr = k.attr /\ Live(j) = Live(k)  BY <1>3 DEF Shape
  <1>5. AttrLive(j)  BY <1>1, <1>4 DEF AttrLive
  <1>6. OnlyAttr(j, j)  BY <1>3 DEF OnlyAttr
  <1> QED  BY <1>3, <1>4, <1>5, <1>6 DEF j

LEMMA HandleCount ==
    ASSUME NEW hd \in [Handle -> Id \cup {Null}], NEW h \in Handle, NEW v, NEW x \in Id
    PROVE  hd[h] = Null
           => Occurrences([hd EXCEPT ![h] = v], x) = Occurrences(hd, x) + One(v, x)
  <1>1. IsFiniteSet(DOMAIN hd) /\ h \in DOMAIN hd  BY HandlesFinite
  <1>2. Occurrences([hd EXCEPT ![h] = v], x) + One(hd[h], x) = Occurrences(hd, x) + One(v, x)
    <2>1. Occurrences(With(hd, h, v), x) + One(hd[h], x) = Occurrences(hd, x) + One(v, x)
      BY <1>1, OccExcept
    <2> QED  BY <2>1 DEF With
  <1>3. One(Null, x) = 0  BY CountsAssumption DEF One, Id, Null
  <1>4. DOMAIN [hd EXCEPT ![h] = v] = DOMAIN hd  OBVIOUS
  <1>5. Occurrences([hd EXCEPT ![h] = v], x) \in Nat  BY <1>1, <1>4, OccType
  <1>6. hd[h] = Null => One(hd[h], x) = 0  BY <1>3
  <1> QED  BY <1>2, <1>5, <1>6

LEMMA DirectParts ==
    ASSUME NEW k, NEW hd, NEW bd, NEW td, Typed(k, hd, bd, td), NEW n \in Id
    PROVE  /\ Occurrences(hd, n) \in Nat /\ Occurrences(bd, n) \in Nat
           /\ Occurrences(k.attr, n) \in Nat /\ Occurrences(td, Dec(n)) \in Nat
  <1> QED  BY RefParts

(* A handle without a node is set to v.                                    *)
LEMMA SetHandleOK ==
    ASSUME NEW k, NEW hd, NEW bd, NEW td, Core(k, hd, bd, td), MaxedOK(k, <<>>), ~k.reclaiming,
           NEW h \in Handle, hd[h] = Null, NEW v \in Live(k),
           PutsOf(td) \subseteq {v}, \A x : Occurrences(td, Dec(x)) = 0
    PROVE  Running(inc(k, v), [hd EXCEPT ![h] = v], bd, <<>>)
  <1> DEFINE j == inc(k, v)
             hd2 == [hd EXCEPT ![h] = v]
  <1>1. v \notin k.batch  BY NoBatch
  <1>2. Typed(k, hd, bd, td) /\ ManagerOK(k) /\ hd \in [Handle -> Id \cup {Null}]
    BY DEF Core, Typed
  <1>3. OnlyAttr(inc(k, v), j) /\ ManagerOK(j) /\ j.attr = k.attr /\ AttrLive(j)
    BY <1>1, IncFacts
  <1>4. v \in Id  BY <1>2, LiveNode
  <1> HIDE DEF j
  <1>5. Typed(j, hd2, bd, <<>>)  BY <1>2, <1>3, <1>4, NothingTodo DEF Typed
  <1>6. ASSUME NEW x \in Id
        PROVE  Direct(j, hd2, bd, <<>>, x) = Direct(k, hd, bd, td, x) + One(v, x)
    <2>1. Occurrences(hd2, x) = Occurrences(hd, x) + One(v, x)  BY <1>2, HandleCount
    <2>2. Occurrences(<<>>, Dec(x)) = 0 /\ Occurrences(td, Dec(x)) = 0  BY NothingTodo
    <2>3. One(v, x) \in Nat  BY DEF One
    <2>4. Occurrences(hd, x) \in Nat /\ Occurrences(bd, x) \in Nat /\ Occurrences(k.attr, x) \in Nat
      BY <1>2, DirectParts
    <2> HIDE DEF hd2
    <2> QED  BY <2>1, <2>2, <2>3, <2>4, <1>3 DEF Direct
  <1>7. PutsOf(td) \ {v} \subseteq PutsOf(<<>>)  OBVIOUS
  <1> HIDE DEF hd2
  <1>8. Core(j, hd2, bd, <<>>) /\ MaxedOK(j, <<>>)
    BY <1>1, <1>3, <1>5, <1>6, <1>7, GainOK
  <1> QED  BY <1>8, NothingTodo DEF Running, j, hd2

LEMMA AppendOK ==
    ASSUME NEW k, NEW hd, NEW bd, Core(k, hd, bd, <<>>), MaxedOK(k, <<>>), ~k.reclaiming,
           NEW n \in HeldBy(hd), Len(bd) < MaxChildren
    PROVE  Running(inc(k, n), hd, Append(bd, n), <<>>)
  <1> DEFINE j == inc(k, n)
             bd2 == Append(bd, n)
  <1>1. /\ Typed(k, hd, bd, <<>>) /\ ManagerOK(k) /\ TreeOK(k)
        /\ ReferredLive(k, RefCount(k, hd, bd, <<>>)) /\ bd \in Seq(Id)
    BY DEF Core, Typed
  <1>2. n \in Live(k) /\ n \in Id  BY <1>1, RefLive, LiveNode
  <1>3. n \notin k.batch  BY NoBatch
  <1>4. OnlyAttr(inc(k, n), j) /\ ManagerOK(j) /\ j.attr = k.attr /\ AttrLive(j)
    BY <1>2, <1>3, IncFacts
  <1> HIDE DEF j
  <1>5. bd2 \in Seq(Id) /\ Len(bd2) <= MaxChildren
    BY <1>1, <1>2, AppendProperties, LenProperties, CountsAssumption
  <1>6. Typed(j, hd, bd2, <<>>)  BY <1>1, <1>4, <1>5 DEF Typed
  <1>7. ASSUME NEW x \in Id
        PROVE  Direct(j, hd, bd2, <<>>, x) = Direct(k, hd, bd, <<>>, x) + One(n, x)
    <2>1. Occurrences(bd2, x) = Occurrences(bd, x) + One(n, x)  BY <1>1, <1>2, OccAppend
    <2>2. One(n, x) \in Nat  BY DEF One
    <2>3. /\ Occurrences(hd, x) \in Nat /\ Occurrences(bd, x) \in Nat
          /\ Occurrences(k.attr, x) \in Nat /\ Occurrences(<<>>, Dec(x)) \in Nat
      BY <1>1, DirectParts
    <2> HIDE DEF bd2
    <2> QED  BY <2>1, <2>2, <2>3, <1>4 DEF Direct
  <1>8. PutsOf(<<>>) \ {n} \subseteq PutsOf(<<>>)  OBVIOUS
  <1> HIDE DEF bd2
  <1>9. Core(j, hd, bd2, <<>>) /\ MaxedOK(j, <<>>)
    BY <1>2, <1>3, <1>4, <1>6, <1>7, <1>8, GainOK
  <1> QED  BY <1>9, NothingTodo DEF Running, j, bd2

(* SetAttribute, until the entry is set.                                   *)
LEMMA SetAttributeOK ==
    ASSUME NEW k, NEW hd, NEW bd, Core(k, hd, bd, <<>>), MaxedOK(k, <<>>),
           NEW a \in HeldBy(hd), NEW v \in HeldBy(hd), k.attr[a] # v
    PROVE  Running(dec(WithAttr(k, a, Null), k.attr[a]), hd, bd, <<PutTask(<<"attr", a>>, v)>>)
  <1> DEFINE i == WithAttr(k, a, Null)
             n == k.attr[a]
             j == dec(i, n)
             t == PutTask(<<"attr", a>>, v)
             R == RefCount(k, hd, bd, <<>>)
  <1>1. /\ Typed(k, hd, bd, <<>>) /\ ManagerOK(k) /\ TreeOK(k) /\ ReferredLive(k, R)
        /\ AttrLive(k)
    BY DEF Core, Typed
  <1>2. /\ a \in Live(k) /\ v \in Live(k) /\ a \in Id /\ v \in Id /\ a \in DOMAIN k.attr
        /\ R[v] > 0
    BY <1>1, RefLive, LiveNode, RefPositive
  <1>3. n \in Live(k) \cup {Null} /\ (n # Null => R[n] > 0)  BY <1>1, <1>2, RefLive, RefPositive
  <1>4. /\ OnlyAttr(k, i) /\ ManagerOK(i) /\ i.attr[a] = Null /\ DOMAIN i.attr = DOMAIN k.attr
        /\ \A x \in DOMAIN k.attr : x # a => i.attr[x] = k.attr[x]
        /\ \A x : Occurrences(i.attr, x) + One(n, x) = Occurrences(k.attr, x) + One(Null, x)
    <2>1. /\ OnlyAttr(k, WithAttr(k, a, Null))
          /\ WithAttr(k, a, Null).attr[a] = Null
          /\ DOMAIN WithAttr(k, a, Null).attr = DOMAIN k.attr
          /\ \A x \in DOMAIN k.attr : x # a => WithAttr(k, a, Null).attr[x] = k.attr[x]
          /\ \A w : k.attr[a] = w =>
                 \A x : Occurrences(WithAttr(k, a, Null).attr, x) + One(w, x)
                        = Occurrences(k.attr, x) + One(Null, x)
      BY <1>1, <1>2, WithAttrOK
    <2> QED  BY <2>1 DEF OnlyAttr
  <1> HIDE DEF i, n
  <1>5. Live(i) = Live(k)  BY <1>4, OnlyAttrKeeps
  <1>6. AttrLive(i)  BY <1>1, <1>4, <1>5 DEF AttrLive
  <1>7. t \in Task /\ t.op = "put" /\ t.node = v /\ t.at = <<"attr", a>>
    BY <1>2, PutTaskType
  <1> HIDE DEF t
  <1>8. <<t>> \in Seq(Task) /\ PutsOf(<<>>) \subseteq PutsOf(<<t>>) /\ \A x : Occurrences(<<t>>, Dec(x)) = 0
    BY <1>7, OnePut, NothingTodo
  <1>9. Typed(i, hd, bd, <<t>>)  BY <1>1, <1>4, <1>8 DEF Typed
  <1>10. ASSUME NEW x \in Id
         PROVE  Direct(i, hd, bd, <<t>>, x) + One(n, x) = Direct(k, hd, bd, <<>>, x)
    <2>1. Occurrences(i.attr, x) + One(n, x) = Occurrences(k.attr, x) + One(Null, x)  BY <1>4
    <2>2. One(Null, x) = 0  BY <1>1, LiveNode DEF One
    <2>3. One(n, x) \in Nat  BY DEF One
    <2>4. Occurrences(<<t>>, Dec(x)) = 0 /\ Occurrences(<<>>, Dec(x)) = 0  BY <1>8, NothingTodo
    <2>5. Occurrences(hd, x) \in Nat /\ Occurrences(bd, x) \in Nat /\ Occurrences(k.attr, x) \in Nat
      BY <1>1, DirectParts
    <2>6. Occurrences(i.attr, x) \in Nat  BY <1>9, DirectParts
    <2> QED  BY <2>1, <2>2, <2>3, <2>4, <2>5, <2>6 DEF Direct
  <1>11. /\ Core(j, hd, bd, <<t>>) /\ MaxedOK(j, <<>>) /\ Shape(i, j)
         /\ \A x \in Live(k) : x # n /\ R[x] > 0 => x \notin j.batch
    BY <1>3, <1>4, <1>6, <1>8, <1>9, <1>10, LossOK
  <1> HIDE DEF j, R
  <1>12. v \notin j.batch  BY <1>2, <1>11 DEF n
  <1>13. j.attr[a] = Null /\ Live(j) = Live(k)  BY <1>4, <1>5, <1>11 DEF Shape
  <1>14. PutOK(j, hd, t)  BY <1>2, <1>7, <1>12, <1>13 DEF PutOK
  <1>15. TodoOK(j, hd, <<t>>)  BY <1>7, <1>14, OnePut
  <1> QED  BY <1>11, <1>15 DEF Running, j, i, n, t

LEMMA PutAlone ==
    ASSUME NEW k, NEW hd, NEW td \in Seq(Task), TodoOK(k, hd, td), td # <<>>, Head(td).op = "put"
    PROVE  /\ PutOK(k, hd, Head(td)) /\ Tail(td) = <<>> /\ Head(td) \in Task
           /\ PutsOf(td) = {Head(td).node} /\ \A x : Occurrences(td, Dec(x)) = 0
  <1>1. /\ Len(td) \in Nat /\ Len(td) > 0 /\ DOMAIN td = 1..Len(td) /\ Head(td) = td[1]
        /\ Head(td) \in Task
    BY EmptySeq, LenProperties, HeadTailProperties
  <1>2. 1 \in DOMAIN td /\ ~IsDec(td[1])  BY <1>1 DEF IsDec, Dec
  <1>3. Len(td) = 1 /\ PutOK(k, hd, td[1])  BY <1>1, <1>2 DEF TodoOK
  <1>4. td = <<Head(td)>>  BY <1>1, <1>3, SeqEqual
  <1>5. Tail(td) = <<>>
    <2>1. Tail(td) \in Seq(Task) /\ Len(Tail(td)) = 0  BY <1>3, HeadTailProperties
    <2> QED  BY <2>1, EmptySeq
  <1>6. PutsOf(<<Head(td)>>) = {Head(td).node} /\ \A x : Occurrences(<<Head(td)>>, Dec(x)) = 0
    BY <1>1, OnePut
  <1> QED  BY <1>1, <1>3, <1>4, <1>5, <1>6

LEMMA PutAttrOK ==
    ASSUME NEW k, NEW hd, NEW bd, NEW td, Core(k, hd, bd, td), MaxedOK(k, <<>>), ~k.reclaiming,
           NEW a \in HeldBy(hd), k.attr[a] = Null, NEW v \in Live(k),
           PutsOf(td) \subseteq {v}, \A x : Occurrences(td, Dec(x)) = 0
    PROVE  Running(WithAttr(inc(k, v), a, v), hd, bd, <<>>)
  <1> DEFINE i == inc(k, v)
             j == WithAttr(i, a, v)
  <1>1. v \notin k.batch  BY NoBatch
  <1>2. /\ Typed(k, hd, bd, td) /\ ManagerOK(k) /\ TreeOK(k)
        /\ ReferredLive(k, RefCount(k, hd, bd, td))
    BY DEF Core, Typed
  <1>3. ManagerOK(i) /\ i.attr = k.attr /\ AttrLive(i) /\ Live(i) = Live(k)
    BY <1>1, IncFacts
  <1>4. v \in Id /\ a \in Live(k) /\ a \in DOMAIN i.attr  BY <1>2, <1>3, LiveNode, RefLive
  <1> HIDE DEF i
  <1>5. /\ OnlyAttr(i, j) /\ ManagerOK(j) /\ DOMAIN j.attr = DOMAIN k.attr
        /\ \A x \in DOMAIN k.attr : x # a => j.attr[x] = k.attr[x]
        /\ \A x : Occurrences(j.attr, x) + One(Null, x) = Occurrences(k.attr, x) + One(v, x)
    <2>1. /\ OnlyAttr(i, WithAttr(i, a, v))
          /\ DOMAIN WithAttr(i, a, v).attr = DOMAIN i.attr
          /\ \A x \in DOMAIN i.attr : x # a => WithAttr(i, a, v).attr[x] = i.attr[x]
          /\ \A w : i.attr[a] = w =>
                 \A x : Occurrences(WithAttr(i, a, v).attr, x) + One(w, x)
                        = Occurrences(i.attr, x) + One(v, x)
      BY <1>3, <1>4, WithAttrOK
    <2> QED  BY <2>1, <1>3 DEF OnlyAttr
  <1> HIDE DEF j
  <1>6. Live(j) = Live(k)  BY <1>3, <1>5, OnlyAttrKeeps
  <1>7. AttrLive(j)  BY <1>3, <1>4, <1>5, <1>6 DEF AttrLive
  <1>8. Typed(j, hd, bd, <<>>)  BY <1>2, <1>5, NothingTodo DEF Typed
  <1>9. ASSUME NEW x \in Id
        PROVE  Direct(j, hd, bd, <<>>, x) = Direct(k, hd, bd, td, x) + One(v, x)
    <2>1. Occurrences(j.attr, x) + One(Null, x) = Occurrences(k.attr, x) + One(v, x)  BY <1>5
    <2>2. One(Null, x) = 0  BY <1>2, LiveNode DEF One
    <2>3. One(v, x) \in Nat  BY DEF One
    <2>4. Occurrences(<<>>, Dec(x)) = 0 /\ Occurrences(td, Dec(x)) = 0  BY NothingTodo
    <2>5. Occurrences(hd, x) \in Nat /\ Occurrences(bd, x) \in Nat /\ Occurrences(k.attr, x) \in Nat
      BY <1>2, DirectParts
    <2>6. Occurrences(j.attr, x) \in Nat  BY <1>8, DirectParts
    <2> QED  BY <2>1, <2>2, <2>3, <2>4, <2>5, <2>6 DEF Direct
  <1>10. PutsOf(td) \ {v} \subseteq PutsOf(<<>>)  OBVIOUS
  <1>11. Core(j, hd, bd, <<>>) /\ MaxedOK(j, <<>>)
    BY <1>1, <1>5, <1>7, <1>8, <1>9, <1>10, GainOK DEF i
  <1> QED  BY <1>11, NothingTodo DEF Running, j, i

(* DoPut                                                                   *)
LEMMA DoPutOK ==
    ASSUME NEW k, NEW hd, NEW bd, NEW td, Running(k, hd, bd, td), ~k.reclaiming,
           td # <<>>, Head(td).op = "put"
    PROVE  /\ Head(td).at[1] = "handle"
                => Running(inc(k, Head(td).node), [hd EXCEPT ![Head(td).at[2]] = Head(td).node], bd, Tail(td))
           /\ Head(td).at[1] # "handle"
                => Running(WithAttr(inc(k, Head(td).node), Head(td).at[2], Head(td).node), hd, bd, Tail(td))
  <1> DEFINE t == Head(td)
  <1>1. Core(k, hd, bd, td) /\ TodoOK(k, hd, td) /\ MaxedOK(k, <<>>) /\ td \in Seq(Task)
    BY DEF Running, Core, Typed
  <1>2. PutOK(k, hd, t) /\ Tail(td) = <<>> /\ PutsOf(td) = {t.node} /\ \A x : Occurrences(td, Dec(x)) = 0
    BY <1>1, PutAlone
  <1> HIDE DEF t
  <1>3. t.node \in Live(k)  BY <1>2 DEF PutOK
  <1>4. ASSUME t.at[1] = "handle"
        PROVE  Running(inc(k, t.node), [hd EXCEPT ![t.at[2]] = t.node], bd, <<>>)
    <2>1. t.at[2] \in Handle /\ hd[t.at[2]] = Null  BY <1>2, <1>4 DEF PutOK
    <2> QED  BY <2>1, <1>1, <1>2, <1>3, SetHandleOK
  <1>5. ASSUME t.at[1] # "handle"
        PROVE  Running(WithAttr(inc(k, t.node), t.at[2], t.node), hd, bd, <<>>)
    <2>1. t.at[2] \in HeldBy(hd) /\ k.attr[t.at[2]] = Null  BY <1>2, <1>5 DEF PutOK
    <2> QED  BY <2>1, <1>1, <1>2, <1>3, PutAttrOK
  <1> QED  BY <1>2, <1>4, <1>5 DEF t

(* The references of a builder that are still to be released.              *)
DecsOf(bd) == [i \in DOMAIN bd |-> Dec(bd[i])]

LEMMA DecsOfOK ==
    ASSUME NEW bd \in Seq(Id)
    PROVE  /\ DecsOf(bd) \in Seq(Task) /\ Len(DecsOf(bd)) = Len(bd)
           /\ \A i \in 1..Len(bd) : DecsOf(bd)[i] = Dec(bd[i]) /\ IsDec(DecsOf(bd)[i])
           /\ \A n : Occurrences(DecsOf(bd), Dec(n)) = Occurrences(bd, n)
           /\ PutsOf(DecsOf(bd)) = {}
  <1> DEFINE d == DecsOf(bd)
  <1>1. DOMAIN bd = 1..Len(bd) /\ Len(bd) \in Nat /\ \A i \in 1..Len(bd) : bd[i] \in Id
    BY LenProperties, ElementOfSeq
  <1>2. DOMAIN d = 1..Len(bd) /\ \A i \in 1..Len(bd) : d[i] = Dec(bd[i])  BY <1>1 DEF DecsOf
  <1>3. \A n \in Id : Dec(n) \in Task  BY DEF Dec, Task
  <1>4. d \in [1..Len(bd) -> Task]  BY <1>1, <1>2, <1>3 DEF DecsOf
  <1>5. d \in Seq(Task) /\ Len(d) = Len(bd)  BY <1>1, <1>4
  <1>6. \A x, y : Dec(x) = Dec(y) <=> x = y  BY DEF Dec
  <1>7. \A i \in 1..Len(bd) : IsDec(d[i]) /\ d[i].op # "put"  BY <1>1, <1>2 DEF IsDec, Dec
  <1> HIDE DEF d
  <1>8. ASSUME NEW n  PROVE Occurrences(d, Dec(n)) = Occurrences(bd, n)
    <2>1. \A i \in DOMAIN d : d[i] = Dec(n) <=> bd[i] = n  BY <1>2, <1>6
    <2> QED  BY <1>1, <1>2, <2>1, OccSame
  <1>9. PutsOf(d) = {}  BY <1>2, <1>7 DEF PutsOf
  <1> QED  BY <1>2, <1>5, <1>7, <1>8, <1>9 DEF d

(* References that only change their place.                                *)
LEMMA SameRefs ==
    ASSUME NEW k, NEW hd, NEW bd, NEW td, Core(k, hd, bd, td),
           NEW bd2, NEW td2, Typed(k, hd, bd2, td2), PutsOf(td) \subseteq PutsOf(td2),
           \A x \in Id : Occurrences(bd2, x) + Occurrences(td2, Dec(x))
                         = Occurrences(bd, x) + Occurrences(td, Dec(x))
    PROVE  Core(k, hd, bd2, td2)
  <1> DEFINE R == RefCount(k, hd, bd, td)
  <1>1. Typed(k, hd, bd, td) /\ CountsOK(k, R, PutsOf(td)) /\ ReferredLive(k, R)
        /\ AttrLive(k) /\ k.collecting = FALSE
    BY DEF Core
  <1>2. Frame(k, k)  BY DEF Frame
  <1>3. ASSUME NEW x \in Id  PROVE R[x] = RefCount(k, hd, bd2, td2)[x]
    <2>1. /\ Occurrences(hd, x) \in Nat /\ Occurrences(bd, x) \in Nat
          /\ Occurrences(k.attr, x) \in Nat /\ Occurrences(td, Dec(x)) \in Nat
      BY <1>1, DirectParts
    <2>2. Occurrences(bd2, x) \in Nat /\ Occurrences(td2, Dec(x)) \in Nat  BY DirectParts
    <2>3. Direct(k, hd, bd2, td2, x) + 0 = Direct(k, hd, bd, td, x) + 0
      BY <2>1, <2>2 DEF Direct
    <2>4. RefCount(k, hd, bd2, td2)[x] + 0 = RefCount(k, hd, bd, td)[x] + 0
      BY <1>1, <1>2, <2>3, DirectShift
    <2>5. R[x] \in Nat /\ RefCount(k, hd, bd2, td2)[x] \in Nat  BY <1>1, RefType
    <2> QED  BY <2>4, <2>5
  <1>4. CountsOK(k, R, PutsOf(td2))  BY <1>1, CountsWeaken
  <1>5. \A x \in Id : R[x] # 0 => x \in Live(k)  BY <1>1 DEF ReferredLive
  <1> HIDE DEF R
  <1> QED  BY <1>1, <1>2, <1>3, <1>4, <1>5, CoreStep

LEMMA DestroyBuilderOK ==
    ASSUME NEW k, NEW hd, NEW bd, Core(k, hd, bd, <<>>), MaxedOK(k, <<>>)
    PROVE  Running(k, hd, <<>>, DecsOf(bd))
  <1> DEFINE d == DecsOf(bd)
  <1>1. Typed(k, hd, bd, <<>>) /\ bd \in Seq(Id)  BY DEF Core, Typed
  <1>2. /\ d \in Seq(Task) /\ Len(d) = Len(bd) /\ (\A i \in 1..Len(bd) : IsDec(d[i]))
        /\ \A n : Occurrences(d, Dec(n)) = Occurrences(bd, n)
    BY <1>1, DecsOfOK
  <1> HIDE DEF d
  <1>3. <<>> \in Seq(Id) /\ Len(<<>>) <= MaxChildren  BY CountsAssumption
  <1>4. Typed(k, hd, <<>>, d)  BY <1>1, <1>2, <1>3 DEF Typed
  <1>5. ASSUME NEW x \in Id
        PROVE  Occurrences(<<>>, x) + Occurrences(d, Dec(x)) = Occurrences(bd, x) + Occurrences(<<>>, Dec(x))
    <2>1. Occurrences(bd, x) \in Nat  BY <1>1, DirectParts
    <2> QED  BY <2>1, <1>2, NothingTodo
  <1>6. Core(k, hd, <<>>, d)  BY <1>4, <1>5, NothingTodo, SameRefs
  <1>7. TodoOK(k, hd, d)
    <2>1. DOMAIN d = 1..Len(bd)  BY <1>2, LenProperties
    <2> QED  BY <2>1, <1>2 DEF TodoOK
  <1> QED  BY <1>6, <1>7 DEF Running, d

(* constructNV: a node with the same children is in the pool.              *)
LEMMA FoundOK ==
    ASSUME NEW k, NEW hd, NEW bd, Core(k, hd, bd, <<>>), MaxedOK(k, <<>>), ~k.reclaiming,
           NEW h \in Handle, hd[h] = Null, NEW kind, NEW n \in poolLookup(k, kind, bd)
    PROVE  Running(k, hd, <<>>, DecsOf(bd) \o <<PutTask(<<"handle", h>>, n)>>)
  <1> DEFINE d == DecsOf(bd)
             t == PutTask(<<"handle", h>>, n)
             td == d \o <<t>>
  <1>1. Typed(k, hd, bd, <<>>) /\ bd \in Seq(Id) /\ ManagerOK(k) /\ UniqueIn(k)
    BY DEF Core, Typed
  <1>2. n \in Live(k) /\ n \in Id /\ k.nodes[n].children = bd
    BY <1>1, LiveNode DEF poolLookup, UniqueIn
  <1>3. n \notin k.batch  BY NoBatch
  <1>4. /\ d \in Seq(Task) /\ Len(d) = Len(bd)
        /\ (\A i \in 1..Len(bd) : d[i] = Dec(bd[i]) /\ IsDec(d[i]))
        /\ \A x : Occurrences(d, Dec(x)) = Occurrences(bd, x)
    BY <1>1, DecsOfOK
  <1>5. t \in Task /\ t.op = "put" /\ t.node = n /\ t.at = <<"handle", h>>
    BY <1>2, PutTaskType
  <1> HIDE DEF d, t
  <1>6. td = Append(d, t)  BY <1>4, <1>5, AppendIsConcat
  <1>7. /\ td \in Seq(Task) /\ Len(td) = Len(bd) + 1 /\ td[Len(bd) + 1] = t
        /\ \A i \in 1..Len(bd) : td[i] = d[i]
    BY <1>4, <1>5, <1>6, AppendProperties
  <1>8. DOMAIN td = 1..(Len(bd) + 1) /\ Len(bd) \in Nat  BY <1>1, <1>7, LenProperties
  <1>9. ASSUME NEW x  PROVE Occurrences(td, Dec(x)) = Occurrences(bd, x)
    <2>1. Occurrences(td, Dec(x)) = Occurrences(d, Dec(x)) + One(t, Dec(x))
      <3>1. Occurrences(Append(d, t), Dec(x)) = Occurrences(d, Dec(x)) + One(t, Dec(x))
        BY <1>4, <1>5, OccAppend
      <3> QED  BY <3>1, <1>6
    <2>2. One(t, Dec(x)) = 0  BY <1>5 DEF One, Dec
    <2>3. Occurrences(d, Dec(x)) \in Nat  BY <1>4, SeqFinite, OccType
    <2> QED  BY <2>1, <2>2, <2>3, <1>4
  <1> HIDE DEF td
  <1>10. <<>> \in Seq(Id) /\ Len(<<>>) <= MaxChildren  BY CountsAssumption
  <1>11. Typed(k, hd, <<>>, td)  BY <1>1, <1>7, <1>10 DEF Typed
  <1>12. ASSUME NEW x \in Id
         PROVE  Occurrences(<<>>, x) + Occurrences(td, Dec(x)) = Occurrences(bd, x) + Occurrences(<<>>, Dec(x))
    <2>1. Occurrences(bd, x) \in Nat  BY <1>1, DirectParts
    <2> QED  BY <2>1, <1>9, NothingTodo
  <1>13. Core(k, hd, <<>>, td)  BY <1>11, <1>12, NothingTodo, SameRefs
  <1>14. PutOK(k, hd, t)  BY <1>2, <1>3, <1>5 DEF PutOK
  <1>15. ASSUME NEW x \in 1..Len(bd)  PROVE td[x].node \in Range(bd)
    <2>0. td[x] = Dec(bd[x]) /\ x \in DOMAIN bd  BY <1>1, <1>4, <1>7, LenProperties
    <2>1. td[x].node = bd[x] /\ x \in DOMAIN bd  BY <2>0 DEF Dec
    <2> QED  BY <2>1 DEF Range
  <1>16. TodoOK(k, hd, td)
    <2> SUFFICES ASSUME NEW i \in DOMAIN td, ~IsDec(td[i])
                 PROVE  /\ i = Len(td) /\ PutOK(k, hd, td[i])
                        /\ \A x \in 1..(i - 1) : td[x].node \in Range(k.nodes[td[i].node].children)
      BY DEF TodoOK
    <2>1. i = Len(bd) + 1  BY <1>4, <1>7, <1>8
    <2> QED  BY <2>1, <1>2, <1>5, <1>7, <1>8, <1>14, <1>15
  <1> QED  BY <1>13, <1>16 DEF Running, td, d, t

(* DoDec                                                                   *)
LEMMA DoDecOK ==
    ASSUME NEW k, NEW hd, NEW bd, NEW td, Running(k, hd, bd, td),
           td # <<>>, Head(td).op = "dec"
    PROVE  Running(dec(k, Head(td).node), hd, bd, Tail(td))
  <1> DEFINE n == Head(td).node
             j == dec(k, n)
             R == RefCount(k, hd, bd, td)
             tl == Tail(td)
  <1>1. /\ Core(k, hd, bd, td) /\ TodoOK(k, hd, td) /\ MaxedOK(k, <<>>) /\ td \in Seq(Task)
        /\ Typed(k, hd, bd, td) /\ ManagerOK(k) /\ TreeOK(k) /\ AttrLive(k) /\ ReferredLive(k, R)
    BY DEF Running, Core, Typed
  <1>2. /\ Len(td) \in Nat /\ Len(td) > 0 /\ DOMAIN td = 1..Len(td) /\ Head(td) = td[1]
        /\ tl \in Seq(Task) /\ Len(tl) = Len(td) - 1 /\ \A i \in 1..Len(tl) : tl[i] = td[i + 1]
    BY <1>1, EmptySeq, LenProperties, HeadTailProperties
  <1>3. 1 \in DOMAIN td /\ IsDec(td[1])  BY <1>1, <1>2 DEF TodoOK, PutOK
  <1>4. td[1] = Dec(n) /\ n \in Id /\ Head(td) = Dec(n)  BY <1>2, <1>3 DEF IsDec
  <1>5. n \in Live(k) /\ R[n] > 0 /\ n # Null  BY <1>1, <1>3, <1>4, RefLive, RefPositive, LiveNode
  <1>6. OnlyAttr(k, k)  BY <1>1 DEF OnlyAttr
  <1>7. Typed(k, hd, bd, tl)  BY <1>1, <1>2 DEF Typed
  <1>8. PutsOf(td) \subseteq PutsOf(tl)
    <2> SUFFICES ASSUME NEW i \in DOMAIN td, td[i].op = "put"
                 PROVE  td[i].node \in PutsOf(tl)
      BY DEF PutsOf
    <2>1. i # 1  BY <1>4 DEF Dec
    <2>2. i - 1 \in 1..Len(tl) /\ tl[i - 1] = td[i]  BY <1>2, <2>1
    <2>3. i - 1 \in DOMAIN tl  BY <1>2, <2>2, LenProperties
    <2> QED  BY <2>2, <2>3 DEF PutsOf
  <1>9. ASSUME NEW x \in Id
        PROVE  Direct(k, hd, bd, tl, x) + One(n, x) = Direct(k, hd, bd, td, x)
    <2>1. Occurrences(td, Dec(x)) = Occurrences(tl, Dec(x)) + One(Head(td), Dec(x))
      BY <1>1, OccTail
    <2>2. One(Head(td), Dec(x)) = One(n, x)  BY <1>4 DEF One, Dec
    <2>3. /\ Occurrences(hd, x) \in Nat /\ Occurrences(bd, x) \in Nat
          /\ Occurrences(k.attr, x) \in Nat /\ Occurrences(tl, Dec(x)) \in Nat
      BY <1>7, DirectParts
    <2>4. One(n, x) \in Nat  BY DEF One
    <2> HIDE DEF n, tl
    <2> QED  BY <2>1, <2>2, <2>3, <2>4 DEF Direct
  <1> HIDE DEF n, tl
  <1>10. /\ Core(j, hd, bd, tl) /\ MaxedOK(j, <<>>) /\ Shape(k, j)
         /\ R[n] > 1 => SameBatch(k, j)
    BY <1>1, <1>5, <1>6, <1>7, <1>8, <1>9, LossOK
  <1> HIDE DEF j, R
  <1>11. ASSUME NEW i \in DOMAIN tl, ~IsDec(tl[i])
         PROVE  /\ i = Len(tl) /\ PutOK(j, hd, tl[i]) /\ ~j.reclaiming
                /\ \A x \in 1..(i - 1) : tl[x].node \in Range(j.nodes[tl[i].node].children)
    <2>1. i \in 1..Len(tl) /\ tl[i] = td[i + 1] /\ i + 1 \in DOMAIN td /\ i + 1 > 1
      <3>1. i \in 1..Len(tl)  BY <1>2, LenProperties
      <3> QED  BY <3>1, <1>2
    <2>2. /\ i + 1 = Len(td) /\ PutOK(k, hd, tl[i]) /\ ~k.reclaiming
          /\ \A x \in 1..i : td[x].node \in Range(k.nodes[tl[i].node].children)
      BY <1>1, <1>11, <2>1 DEF TodoOK
    <2>3. tl[i].node \in Live(k)  BY <2>2 DEF PutOK
    <2>4. n \in Range(k.nodes[tl[i].node].children)  BY <1>2, <2>1, <2>2 DEF n
    <2>5. R[n] > 1  BY <1>1, <1>3, <1>4, <2>3, <2>4, RefPositive DEF R
    <2>6. j.batch = k.batch /\ j.reclaiming = k.reclaiming /\ Live(j) = Live(k) /\ j.attr = k.attr
      BY <2>5, <1>10 DEF SameBatch, Shape
    <2>7. PutOK(j, hd, tl[i])  BY <2>2, <2>6 DEF PutOK
    <2>8. j.nodes[tl[i].node].children = k.nodes[tl[i].node].children  BY <2>3, <1>10 DEF Shape
    <2>9. \A x \in 1..(i - 1) : tl[x].node \in Range(k.nodes[tl[i].node].children)
      <3> TAKE x \in 1..(i - 1)
      <3>1. x + 1 \in 1..i /\ tl[x] = td[x + 1]  BY <1>2, <2>1
      <3> QED  BY <3>1, <2>2
    <2> QED  BY <1>2, <2>1, <2>2, <2>6, <2>7, <2>8, <2>9
  <1>12. TodoOK(j, hd, tl)  BY <1>11 DEF TodoOK
  <1> QED  BY <1>10, <1>12 DEF Running, j, tl, n

-----------------------------------------------------------------------------
(* Nodes come and go.                                                      *)

(* The manager j has the node p in addition to those of k.                 *)
HasOneMore(k, j, p) ==
    /\ p \in Live(j) /\ p \notin Live(k)
    /\ Live(j) = Live(k) \cup {p}
    /\ Len(j.nodes[p].children) <= MaxChildren
    /\ \A n \in Live(k) : j.nodes[n].children = k.nodes[n].children

LEMMA SitesSplit ==
    ASSUME NEW k, ManagerOK(k), NEW j, ManagerOK(j), NEW p, HasOneMore(k, j, p), NEW x
    PROVE  Cardinality(ChildSites(j, x)) = Cardinality(ChildSites(k, x)) + Occurrences(j.nodes[p].children, x)
  <1> DEFINE q == j.nodes[p].children
             S == {i \in DOMAIN q : q[i] = x}
             f == [i \in S |-> <<p, i>>]
             T == {<<p, i>> : i \in S}
  <1>1. q \in Seq(Id)  BY LiveNode DEF HasOneMore, NodeRecord
  <1>2. Len(q) <= MaxChildren  BY DEF HasOneMore
  <1>3. IsFiniteSet(DOMAIN q) /\ DOMAIN q = 1..Len(q) /\ Len(q) \in Nat
    <2> HIDE DEF q
    <2> QED  BY <1>1, SeqFinite
  <1>4. IsFiniteSet(S)  BY <1>3, FS_Subset
  <1>5. S \subseteq 1..MaxChildren  BY <1>2, <1>3, CountsAssumption
  <1>6. f \in Bijection(S, T)
    <2>1. f \in [S -> T]  OBVIOUS
    <2>2. \A a, b \in DOMAIN f : f[a] = f[b] => a = b  OBVIOUS
    <2>3. \A t \in T : \E i \in S : f[i] = t  OBVIOUS
    <2> QED  BY <2>1, <2>2, <2>3 DEF Bijection, Injection, Surjection, IsInjective
  <1>7. IsFiniteSet(T) /\ Cardinality(T) = Cardinality(S)
    <2> HIDE DEF f, S, T
    <2> QED  BY <1>4, <1>6, FS_Bijection DEF ExistsBijection
  <1>8. ChildSites(j, x) = ChildSites(k, x) \cup T
    <2>1. ASSUME NEW c \in ChildSites(j, x)  PROVE c \in ChildSites(k, x) \cup T
      <3>1. /\ c \in Live(j) \X (1..MaxChildren) /\ c[2] \in DOMAIN j.nodes[c[1]].children
            /\ j.nodes[c[1]].children[c[2]] = x
        BY <2>1 DEF ChildSites
      <3>2. CASE c[1] = p
        <4>1. c = <<p, c[2]>> /\ c[2] \in S  BY <3>1, <3>2
        <4> QED  BY <4>1
      <3>3. CASE c[1] # p
        <4>1. c[1] \in Live(k) /\ c \in Live(k) \X (1..MaxChildren)  BY <3>1, <3>3 DEF HasOneMore
        <4> QED  BY <3>1, <4>1 DEF ChildSites, HasOneMore
      <3> QED  BY <3>2, <3>3
    <2>2. ASSUME NEW c \in ChildSites(k, x)  PROVE c \in ChildSites(j, x)
      BY <2>2 DEF ChildSites, HasOneMore
    <2>3. ASSUME NEW c \in T  PROVE c \in ChildSites(j, x)
      <3>1. PICK i \in S : c = <<p, i>>  BY <2>3
      <3>2. i \in 1..MaxChildren /\ i \in DOMAIN q /\ q[i] = x  BY <3>1, <1>5
      <3>3. c \in Live(j) \X (1..MaxChildren) /\ c[1] = p /\ c[2] = i  BY <3>1, <3>2 DEF HasOneMore
      <3> QED  BY <3>2, <3>3 DEF ChildSites
    <2> QED  BY <2>1, <2>2, <2>3
  <1>9. ChildSites(k, x) \cap T = {}
    <2>1. \A c \in T : c[1] = p  OBVIOUS
    <2>2. \A c \in ChildSites(k, x) : c[1] \in Live(k)  BY DEF ChildSites
    <2> QED  BY <2>1, <2>2 DEF HasOneMore
  <1> HIDE DEF S, T
  <1>10. IsFiniteSet(ChildSites(k, x)) /\ Cardinality(ChildSites(k, x)) \in Nat  BY ChildSitesFinite
  <1>11. Cardinality(T) \in Nat  BY <1>7, FS_CardinalityType
  <1>12. Cardinality(ChildSites(k, x) \cup T)
           = Cardinality(ChildSites(k, x)) + Cardinality(T) - Cardinality(ChildSites(k, x) \cap T)
    BY <1>7, <1>10, FS_Union
  <1>13. Cardinality(ChildSites(k, x) \cap T) = 0  BY <1>9, FS_EmptySet
  <1>14. Cardinality(T) = Occurrences(q, x)  BY <1>7 DEF Occurrences, S
  <1> QED  BY <1>8, <1>10, <1>11, <1>12, <1>13, <1>14

(* What NewNode does.                                                      *)
HasNew(k, kind, q, j, p) ==
    /\ ManagerOK(j) /\ p \in Id /\ p \notin DOMAIN k.nodes
    /\ Live(j) = Live(k) \cup {p}
    /\ j.nodes[p] = [kind |-> kind, children |-> q, rc |-> 0]
    /\ \A n \in DOMAIN k.nodes : j.nodes[n] = k.nodes[n]
    /\ j.attr = Append(k.attr, Null)
    /\ j.pool = IF kind = "VARIABLE" THEN k.pool ELSE k.pool \cup {p}
    /\ j.zombies = k.zombies /\ j.maxedOut = k.maxedOut
    /\ j.collecting = k.collecting /\ SameBatch(k, j)

LEMMA NewNodeFacts ==
    ASSUME NEW k, ManagerOK(k), Len(k.nodes) < MaxNodes, NEW kind \in Kinds, NEW q \in Seq(Id)
    PROVE  HasNew(k, kind, q, NewNode(k, kind, q), Len(k.nodes) + 1)
  <1> DEFINE p == Len(k.nodes) + 1
             v == [kind |-> kind, children |-> q, rc |-> 0]
             s == Append(k.nodes, v)
             a == Append(k.attr, Null)
             u == IF kind = "VARIABLE" THEN k.pool ELSE k.pool \cup {p}
             j == NewNode(k, kind, q)
  <1>1. /\ k \in Manager /\ k.nodes \in Seq(NodeValue) /\ k.attr \in Seq(Id \cup {Null})
        /\ Len(k.attr) = Len(k.nodes) /\ k.pool \subseteq Id
    BY DEF ManagerOK, Manager
  <1>2. Len(k.nodes) \in Nat /\ DOMAIN k.nodes = 1..Len(k.nodes)  BY <1>1, LenProperties
  <1>3. p \in Id /\ p \notin DOMAIN k.nodes  BY <1>2, CountsAssumption DEF Id
  <1>4. v \in NodeRecord  BY CountsAssumption DEF NodeRecord
  <1>5. v \in NodeValue /\ v # Freed  BY <1>4, RecordNotFreed DEF NodeValue, NodeRecord
  <1>6. j = [k EXCEPT !.nodes = s, !.attr = a, !.pool = u]  BY DEF NewNode
  <1> HIDE DEF v, j
  <1>7. /\ s \in Seq(NodeValue) /\ Len(s) = p /\ s[p] = v
        /\ \A n \in 1..Len(k.nodes) : s[n] = k.nodes[n]
    BY <1>1, <1>5, AppendProperties
  <1>8. a \in Seq(Id \cup {Null}) /\ Len(a) = p  BY <1>1, AppendProperties
  <1>9. u \in SUBSET Id  BY <1>1, <1>3
  <1>10. DOMAIN s = 1..p  BY <1>7, LenProperties
  <1> HIDE DEF s, a, u
  <1>11. /\ j \in Manager /\ j.nodes = s /\ j.pool = u /\ j.zombies = k.zombies
         /\ j.maxedOut = k.maxedOut /\ j.attr = a /\ j.collecting = k.collecting
         /\ j.reclaiming = k.reclaiming /\ j.batch = k.batch
    BY <1>1, <1>6, <1>7, <1>8, <1>9 DEF Manager
  <1>12. ManagerOK(j)  BY <1>2, <1>7, <1>8, <1>11, CountsAssumption DEF ManagerOK
  <1>13. Live(j) = Live(k) \cup {p}
    <2>1. DOMAIN j.nodes = DOMAIN k.nodes \cup {p}  BY <1>2, <1>10, <1>11
    <2> QED  BY <2>1, <1>2, <1>3, <1>5, <1>7, <1>11 DEF Live
  <1> QED  BY <1>2, <1>3, <1>7, <1>11, <1>12, <1>13 DEF v, a, u, j, SameBatch, HasNew

(* constructNV: there is no such node yet.                                 *)
LEMMA NewNodeOK ==
    ASSUME NEW k, NEW hd, NEW bd, Core(k, hd, bd, <<>>), MaxedOK(k, <<>>), ~k.reclaiming,
           NEW h \in Handle, hd[h] = Null, NEW kind \in Kinds, poolLookup(k, kind, bd) = {},
           Len(k.nodes) < MaxNodes
    PROVE  Running(NewNode(k, kind, bd), hd, <<>>, <<PutTask(<<"handle", h>>, Len(k.nodes) + 1)>>)
  <1> DEFINE j == NewNode(k, kind, bd)
             p == Len(k.nodes) + 1
             t == PutTask(<<"handle", h>>, p)
             td == <<t>>
             R == RefCount(k, hd, bd, <<>>)
             Q == RefCount(j, hd, <<>>, td)
  <1>1. /\ Typed(k, hd, bd, <<>>) /\ bd \in Seq(Id) /\ Len(bd) <= MaxChildren /\ ManagerOK(k)
        /\ hd \in [Handle -> Id \cup {Null}]
        /\ UniqueIn(k) /\ TreeOK(k) /\ AttrLive(k) /\ CountsOK(k, R, {}) /\ ReferredLive(k, R)
        /\ k.collecting = FALSE
    BY NothingTodo DEF Core, Typed
  <1>2. /\ ManagerOK(j) /\ p \in Id /\ p \notin DOMAIN k.nodes /\ Live(j) = Live(k) \cup {p}
        /\ j.nodes[p] = [kind |-> kind, children |-> bd, rc |-> 0]
        /\ \A n \in DOMAIN k.nodes : j.nodes[n] = k.nodes[n]
        /\ j.attr = Append(k.attr, Null)
        /\ j.pool = IF kind = "VARIABLE" THEN k.pool ELSE k.pool \cup {p}
        /\ j.zombies = k.zombies /\ j.maxedOut = k.maxedOut
        /\ j.collecting = k.collecting /\ SameBatch(k, j)
    <2>1. HasNew(k, kind, bd, j, p)  BY <1>1, NewNodeFacts
    <2> HIDE DEF j, p
    <2> QED  BY <2>1 DEF HasNew
  <1>3. /\ DOMAIN k.nodes = 1..Len(k.nodes) /\ DOMAIN k.attr = 1..Len(k.nodes) /\ Len(k.nodes) \in Nat
        /\ Live(k) \subseteq DOMAIN k.nodes /\ Live(k) \subseteq Id /\ Null \notin Id
    BY <1>1, LiveNode
  <1>4. p \notin Live(k) /\ \A n \in Live(k) : j.nodes[n] = k.nodes[n]  BY <1>2, <1>3
  <1>5. /\ j.nodes[p].kind = kind /\ j.nodes[p].children = bd /\ j.nodes[p].rc = 0  BY <1>2
  <1>6. t \in Task /\ t.op = "put" /\ t.node = p /\ t.at = <<"handle", h>>
    <2> HIDE DEF p
    <2> QED  BY <1>2, PutTaskType
  <1> HIDE DEF t, j
  <1>7. td \in Seq(Task) /\ PutsOf(td) = {p} /\ \A x : Occurrences(td, Dec(x)) = 0
    BY <1>6, OnePut
  <1> HIDE DEF td
  <1>8. <<>> \in Seq(Id) /\ Len(<<>>) <= MaxChildren  BY CountsAssumption
  <1>9. Typed(j, hd, <<>>, td)  BY <1>1, <1>2, <1>7, <1>8 DEF Typed
  <1>10. HasOneMore(k, j, p)  BY <1>1, <1>2, <1>4, <1>5 DEF HasOneMore
  <1>11. ASSUME NEW x \in Id  PROVE Q[x] = R[x]
    <2>1. Cardinality(ChildSites(j, x)) = Cardinality(ChildSites(k, x)) + Occurrences(bd, x)
      <3>1. Cardinality(ChildSites(j, x)) = Cardinality(ChildSites(k, x)) + Occurrences(j.nodes[p].children, x)
        BY <1>1, <1>2, <1>10, SitesSplit
      <3> QED  BY <3>1, <1>5
    <2>2. Occurrences(j.attr, x) = Occurrences(k.attr, x) + One(Null, x)
      <3>1. k.attr \in Seq(Id \cup {Null})  BY <1>1 DEF ManagerOK, Manager
      <3>2. Occurrences(Append(k.attr, Null), x) = Occurrences(k.attr, x) + One(Null, x)
        BY <3>1, OccAppend
      <3> QED  BY <3>2, <1>2
    <2>3. One(Null, x) = 0  BY <1>3 DEF One
    <2>4. Occurrences(<<>>, x) = 0 /\ Occurrences(<<>>, Dec(x)) = 0 /\ Occurrences(td, Dec(x)) = 0
      BY <1>7, NothingTodo
    <2>5. /\ Occurrences(hd, x) \in Nat /\ Occurrences(bd, x) \in Nat
          /\ Occurrences(k.attr, x) \in Nat /\ Cardinality(ChildSites(k, x)) \in Nat
          /\ R[x] = Occurrences(hd, x) + Occurrences(bd, x) + Occurrences(k.attr, x)
                    + Occurrences(<<>>, Dec(x)) + Cardinality(ChildSites(k, x))
      BY <1>1, RefParts
    <2>6. Q[x] = Occurrences(hd, x) + Occurrences(<<>>, x) + Occurrences(j.attr, x)
                 + Occurrences(td, Dec(x)) + Cardinality(ChildSites(j, x))
      BY <1>9, RefParts
    <2> HIDE DEF R, Q
    <2>7. Occurrences(j.attr, x) = Occurrences(k.attr, x)  BY <2>2, <2>3, <2>5
    <2>8. Q[x] = Occurrences(hd, x) + 0 + Occurrences(k.attr, x)
                 + 0 + (Cardinality(ChildSites(k, x)) + Occurrences(bd, x))
      BY <2>1, <2>4, <2>6, <2>7
    <2>9. R[x] = Occurrences(hd, x) + Occurrences(bd, x) + Occurrences(k.attr, x)
                    + 0 + Cardinality(ChildSites(k, x))
      BY <2>4, <2>5
    <2> QED  BY <2>5, <2>8, <2>9
  <1>12. R[p] = 0  BY <1>1, <1>2, <1>4 DEF ReferredLive
  <1> HIDE DEF R, Q
  <1>13. CountsOK(j, Q, {p})
    <2>1. \A n \in Live(j) : j.nodes[n].rc \in {MaxRC, Q[n]}
      BY <1>1, <1>2, <1>3, <1>4, <1>5, <1>11, <1>12 DEF CountsOK
    <2>2. \A n \in Live(j) : j.nodes[n].rc = 0 => n \in j.zombies \cup j.batch \cup {p}
      BY <1>1, <1>2, <1>4 DEF CountsOK, SameBatch
    <2>3. \A n \in j.batch : j.nodes[n].rc = 0 /\ n \notin j.zombies
      BY <1>1, <1>2, <1>4 DEF CountsOK, SameBatch
    <2> QED  BY <2>1, <2>2, <2>3, <1>1, <1>2 DEF CountsOK, SameBatch
  <1>14. ReferredLive(j, Q)  BY <1>1, <1>2, <1>11 DEF ReferredLive
  <1>15. TreeOK(j)
    <2>1. ASSUME NEW i \in DOMAIN bd  PROVE bd[i] < p
      <3>1. bd[i] \in Live(k)  BY <1>1, RefLive DEF R
      <3> QED  BY <3>1, <1>3
    <2> QED  BY <2>1, <1>1, <1>2, <1>4, <1>5 DEF TreeOK
  <1>16. AttrLive(j)
    <2>1. k.attr \in Seq(Id \cup {Null}) /\ Len(k.attr) = Len(k.nodes)
      BY <1>1 DEF ManagerOK, Manager
    <2>2. /\ DOMAIN j.attr = 1..p /\ j.attr[p] = Null
          /\ \A i \in 1..Len(k.nodes) : j.attr[i] = k.attr[i]
      BY <2>1, <1>2, AppendProperties, LenProperties
    <2> QED  BY <2>2, <1>1, <1>2, <1>3 DEF AttrLive
  <1>17. UniqueIn(j)
    <2>1. k.pool = {n \in Live(k) : k.nodes[n].kind # "VARIABLE"}  BY <1>1 DEF UniqueIn
    <2>2. j.pool = {n \in Live(j) : j.nodes[n].kind # "VARIABLE"}
      BY <2>1, <1>2, <1>4, <1>5
    <2>3. \A n \in k.pool : ~(k.nodes[n].kind = kind /\ k.nodes[n].children = bd)
      BY DEF poolLookup
    <2>4. ASSUME NEW a \in j.pool, NEW b \in j.pool,
                 j.nodes[a].kind = j.nodes[b].kind, j.nodes[a].children = j.nodes[b].children
          PROVE  a = b
      <3>1. \A n \in j.pool : n = p \/ (n \in k.pool /\ n \in Live(k))  BY <1>2, <2>1
      <3> QED  BY <3>1, <2>3, <2>4, <1>1, <1>4, <1>5 DEF UniqueIn
    <2> QED  BY <2>2, <2>4 DEF UniqueIn
  <1>18. Core(j, hd, <<>>, td)
    BY <1>1, <1>2, <1>7, <1>9, <1>13, <1>14, <1>15, <1>16, <1>17 DEF Core, Q
  <1>19. MaxedOK(j, <<>>)
    <2>1. Maxed(j) = Maxed(k)  BY <1>2, <1>4, <1>5, CountsAssumption DEF Maxed
    <2> QED  BY <2>1, <1>2 DEF MaxedOK
  <1>20. k.batch = {}  BY NoBatch
  <1>21. PutOK(j, hd, t)  BY <1>2, <1>6, <1>20 DEF PutOK, SameBatch
  <1>22. TodoOK(j, hd, td)  BY <1>6, <1>21, OnePut DEF td
  <1> QED  BY <1>18, <1>19, <1>22 DEF Running, j, td, t

(* The managers that reclaiming passes through, without their definitions. *)
Unlinked(k, nv) == [[k EXCEPT !.batch = @ \ {nv}] EXCEPT !.pool = @ \ {nv}, !.attr[nv] = Null]
FreeNode(d, nv) == [d EXCEPT !.nodes[nv] = Freed]

IsUnlinked(k, nv, b) ==
    /\ ManagerOK(b) /\ b.nodes = k.nodes /\ b.zombies = k.zombies
    /\ b.batch = k.batch \ {nv} /\ b.pool = k.pool \ {nv}
    /\ b.maxedOut = k.maxedOut /\ b.collecting = k.collecting /\ b.reclaiming = k.reclaiming
    /\ DOMAIN b.attr = DOMAIN k.attr /\ b.attr[nv] = Null
    /\ \A x \in DOMAIN k.attr : x # nv => b.attr[x] = k.attr[x]
    /\ \A w : k.attr[nv] = w =>
          \A x : Occurrences(b.attr, x) + One(w, x) = Occurrences(k.attr, x) + One(Null, x)

LEMMA UnlinkedOK ==
    ASSUME NEW k, ManagerOK(k), NEW nv \in DOMAIN k.attr
    PROVE  IsUnlinked(k, nv, Unlinked(k, nv))
  <1> DEFINE w == WithAttr(k, nv, Null)
             B == k.batch \ {nv}
             U == k.pool \ {nv}
             b == [w EXCEPT !.batch = B, !.pool = U]
  <1>1. k \in Manager  BY DEF ManagerOK
  <1>2. /\ OnlyAttr(k, w) /\ w.attr[nv] = Null /\ DOMAIN w.attr = DOMAIN k.attr
        /\ \A x \in DOMAIN k.attr : x # nv => w.attr[x] = k.attr[x]
        /\ \A v : k.attr[nv] = v =>
              \A x : Occurrences(w.attr, x) + One(v, x) = Occurrences(k.attr, x) + One(Null, x)
    <2>1. Null \in Id \cup {Null}  OBVIOUS
    <2> QED  BY <2>1, WithAttrOK
  <1>3. Unlinked(k, nv) = b  BY <1>1 DEF Unlinked, WithAttr, Manager
  <1> HIDE DEF w
  <1>4. w \in Manager /\ B \in SUBSET Id /\ U \in SUBSET Id
    BY <1>1, <1>2 DEF OnlyAttr, ManagerOK, Manager
  <1> HIDE DEF B, U
  <1>5. /\ b \in Manager /\ b.nodes = w.nodes /\ b.pool = U /\ b.zombies = w.zombies
        /\ b.maxedOut = w.maxedOut /\ b.attr = w.attr /\ b.collecting = w.collecting
        /\ b.reclaiming = w.reclaiming /\ b.batch = B
    BY <1>4 DEF Manager
  <1> HIDE DEF b
  <1>6. ManagerOK(b)  BY <1>2, <1>5 DEF OnlyAttr, ManagerOK
  <1> QED  BY <1>2, <1>3, <1>5, <1>6 DEF IsUnlinked, OnlyAttr, B, U

IsFreed(d, nv, j) ==
    /\ ManagerOK(j) /\ DOMAIN j.nodes = DOMAIN d.nodes
    /\ Live(j) = Live(d) \ {nv} /\ \A x \in Live(j) : j.nodes[x] = d.nodes[x]
    /\ j.zombies = d.zombies /\ j.batch = d.batch /\ j.pool = d.pool /\ j.attr = d.attr
    /\ j.maxedOut = d.maxedOut /\ j.collecting = d.collecting /\ j.reclaiming = d.reclaiming

LEMMA FreeNodeOK ==
    ASSUME NEW d, ManagerOK(d), NEW nv \in DOMAIN d.nodes
    PROVE  IsFreed(d, nv, FreeNode(d, nv))
  <1> DEFINE s == [d.nodes EXCEPT ![nv] = Freed]
             j == [d EXCEPT !.nodes = s]
  <1>1. /\ d \in Manager /\ d.nodes \in Seq(NodeValue) /\ nv \in 1..Len(d.nodes)
        /\ DOMAIN d.nodes = 1..Len(d.nodes)
    BY LiveNode DEF ManagerOK, Manager
  <1>2. FreeNode(d, nv) = j  BY <1>1 DEF FreeNode, Manager
  <1>3. Freed \in NodeValue  BY DEF NodeValue
  <1>4. /\ s \in Seq(NodeValue) /\ Len(s) = Len(d.nodes) /\ DOMAIN s = DOMAIN d.nodes
        /\ \A x \in DOMAIN d.nodes : s[x] = IF x = nv THEN Freed ELSE d.nodes[x]
    BY <1>1, <1>3, ExceptSeq
  <1> HIDE DEF s
  <1>5. /\ j \in Manager /\ j.nodes = s /\ j.pool = d.pool /\ j.zombies = d.zombies
        /\ j.maxedOut = d.maxedOut /\ j.attr = d.attr /\ j.collecting = d.collecting
        /\ j.reclaiming = d.reclaiming /\ j.batch = d.batch
    BY <1>1, <1>4 DEF Manager
  <1> HIDE DEF j
  <1>6. ManagerOK(j)  BY <1>4, <1>5 DEF ManagerOK
  <1>7. Live(j) = Live(d) \ {nv} /\ \A x \in Live(j) : j.nodes[x] = d.nodes[x]
    BY <1>4, <1>5 DEF Live
  <1> QED  BY <1>2, <1>4, <1>5, <1>6, <1>7 DEF IsFreed

(* What the destructor needs to know of a step that reclaims.              *)
Shrinks(k, j) ==
    /\ Live(j) \subseteq Live(k)
    /\ \A n \in Live(j) : j.nodes[n].children = k.nodes[n].children
    /\ j.maxedOut = k.maxedOut
    /\ \A n \in DOMAIN j.attr : n \in DOMAIN k.attr /\ (k.attr[n] = Null => j.attr[n] = Null)

LEMMA ReclaimOK ==
    ASSUME NEW k, NEW hd, NEW bd, NEW td, Core(k, hd, bd, td), TodoOK(k, hd, td),
           NEW o, MaxedOK(k, o), NEW nv \in k.batch
    PROVE  /\ Core(Reclaim(k, nv), hd, bd, td)
           /\ TodoOK(Reclaim(k, nv), hd, td)
           /\ MaxedOK(Reclaim(k, nv), o)
           /\ Shrinks(k, Reclaim(k, nv))
  <1> DEFINE R == RefCount(k, hd, bd, td)
             P == PutsOf(td)
             PP == P \cup {nv}
             q == k.nodes[nv].children
             n == k.attr[nv]
             b == Unlinked(k, nv)
             a == dec(b, n)
             d == DecAll(a, q)
             j == FreeNode(d, nv)
             L == Less(R, n)
             F == Minus(L, q)
  <1>1. /\ Typed(k, hd, bd, td) /\ ManagerOK(k) /\ TreeOK(k) /\ AttrLive(k) /\ UniqueIn(k)
        /\ k.collecting = FALSE /\ CountsOK(k, R, P) /\ ReferredLive(k, R)
    BY DEF Core, Typed
  <1>2. /\ k.reclaiming /\ nv \in Live(k) /\ k.nodes[nv].rc = 0 /\ nv \notin k.zombies
    BY <1>1 DEF CountsOK
  <1>3. /\ DOMAIN k.attr = DOMAIN k.nodes /\ Live(k) \subseteq DOMAIN k.nodes
        /\ Live(k) \subseteq Id /\ Null \notin Id /\ nv \in DOMAIN k.attr /\ nv \in DOMAIN k.nodes
        /\ q \in Seq(Id)
    BY <1>1, <1>2, LiveNode DEF NodeRecord
  <1>4. R \in [Id -> Nat]  BY <1>1, RefType
  <1>5. R[nv] = 0  BY <1>1, <1>2, CountsAssumption DEF CountsOK
  <1>6. n \in Live(k) \cup {Null} /\ (n # Null => R[n] # 0) /\ n # nv
    <2>1. n \in Live(k) \cup {Null} /\ (n # Null => R[n] > 0)  BY <1>1, <1>3, RefLive, RefPositive
    <2>2. nv # Null  BY <1>2, <1>3
    <2> QED  BY <2>1, <2>2, <1>5
  <1>7. Range(q) \subseteq Live(k) /\ nv \notin Range(q)
    <2>1. Range(q) \subseteq Live(k)  BY <1>1, <1>2, RefLive
    <2>2. \A i \in DOMAIN q : q[i] < nv  BY <1>1, <1>2 DEF TreeOK
    <2>3. nv \in Nat  BY <1>2, <1>3 DEF Id
    <2> QED  BY <2>1, <2>2, <2>3 DEF Range
  <1>8. Reclaim(k, nv) = j
    BY <1>2 DEF Reclaim, Unlinked, FreeNode
  <1>9. IsUnlinked(k, nv, b)  BY <1>1, <1>3, UnlinkedOK
  <1> HIDE DEF R, P, q, n, b
  <1>10. ManagerOK(b) /\ Live(b) = Live(k) /\ b.reclaiming /\ b.collecting = FALSE
    BY <1>1, <1>2, <1>9 DEF IsUnlinked, Live
  <1>11. CountsOK(b, R, PP)
    BY <1>1, <1>2, <1>9, <1>10 DEF CountsOK, IsUnlinked
  <1>12. /\ ManagerOK(a) /\ Shape(b, a) /\ SameMaxed(b, a) /\ CountsOK(a, L, PP)
         /\ SameBatch(b, a) /\ a.zombies \subseteq b.zombies \cup {n}
    <2> HIDE DEF PP
    <2>1. n \in Live(b) \cup {Null}  BY <1>6, <1>10
    <2> QED  BY <2>1, <1>4, <1>6, <1>10, <1>11, DecOK
  <1>13. ASSUME NEW x \in Id
         PROVE  /\ R[x] \in Nat /\ One(n, x) \in Nat /\ Occurrences(q, x) \in Nat
                /\ One(n, x) + Occurrences(q, x) <= R[x]
                /\ L[x] = R[x] - One(n, x)
    <2>1. R[x] \in Nat  BY <1>4
    <2>2. One(n, x) \in Nat /\ L[x] = R[x] - One(n, x)  BY <1>4 DEF One, Less
    <2>3. /\ Occurrences(hd, x) \in Nat /\ Occurrences(bd, x) \in Nat
          /\ Occurrences(k.attr, x) \in Nat /\ Occurrences(td, Dec(x)) \in Nat
          /\ Cardinality(ChildSites(k, x)) \in Nat
          /\ R[x] = Occurrences(hd, x) + Occurrences(bd, x) + Occurrences(k.attr, x)
                    + Occurrences(td, Dec(x)) + Cardinality(ChildSites(k, x))
      BY <1>1, RefParts DEF R
    <2>4. Occurrences(q, x) \in Nat  BY <1>3, SeqFinite, OccType
    <2>5. Occurrences(b.attr, x) \in Nat
      <3>1. b.attr \in Seq(Id \cup {Null})  BY <1>10 DEF ManagerOK, Manager
      <3> QED  BY <3>1, SeqFinite, OccType
    <2>6. Occurrences(b.attr, x) + One(n, x) = Occurrences(k.attr, x) + One(Null, x)
      BY <1>9 DEF IsUnlinked, n
    <2>7. One(Null, x) = 0  BY <1>3 DEF One
    <2>8. One(n, x) <= Occurrences(k.attr, x)  BY <2>2, <2>3, <2>5, <2>6, <2>7
    <2>9. Occurrences(q, x) <= Cardinality(ChildSites(k, x))
      <3> DEFINE e == FreeNode(k, nv)
      <3>1. IsFreed(k, nv, e)  BY <1>1, <1>3, FreeNodeOK
      <3> HIDE DEF e
      <3>2. ManagerOK(e) /\ HasOneMore(e, k, nv)
        BY <3>1, <1>1, <1>2 DEF IsFreed, HasOneMore, TreeOK
      <3>3. Cardinality(ChildSites(k, x)) = Cardinality(ChildSites(e, x)) + Occurrences(k.nodes[nv].children, x)
        BY <1>1, <3>2, SitesSplit
      <3>4. Cardinality(ChildSites(e, x)) \in Nat  BY <3>2, ChildSitesFinite
      <3> QED  BY <3>3, <3>4, <2>3, <2>4 DEF q
    <2> QED  BY <2>1, <2>2, <2>3, <2>4, <2>8, <2>9
  <1> HIDE DEF a, PP
  <1>14. /\ ManagerOK(d) /\ Shape(a, d) /\ SameMaxed(a, d) /\ SameBatch(a, d)
         /\ CountsOK(d, F, PP) /\ d.zombies \subseteq a.zombies \cup Range(q)
    <2>1. L \in [Id -> Nat]
      <3>1. \A x \in Id : L[x] \in Nat  BY <1>13
      <3> QED  BY <3>1 DEF Less
    <2>2. \A x \in Id : Occurrences(q, x) <= L[x]
      <3> HIDE DEF L
      <3> QED  BY <1>13
    <2> HIDE DEF L
    <2>3. a.reclaiming  BY <1>10, <1>12 DEF SameBatch
    <2>4. q \in Seq(Id \cup {Null})  BY <1>3, SeqMonotonic
    <2>5. \A i \in DOMAIN q : q[i] \in Live(a) \cup {Null}
      BY <1>7, <1>10, <1>12 DEF Range, Shape
    <2> QED  BY <1>12, <2>1, <2>2, <2>3, <2>4, <2>5, DecAllOK
  <1>15. \A x \in Id : F[x] = R[x] - One(n, x) - Occurrences(q, x)
    BY <1>13 DEF Minus
  <1> HIDE DEF L, F, d
  <1>16. Live(d) = Live(k) /\ nv \in DOMAIN d.nodes
    <2>1. DOMAIN d.nodes = DOMAIN k.nodes  BY <1>9, <1>12, <1>14 DEF IsUnlinked, Shape
    <2> QED  BY <2>1, <1>3, <1>10, <1>12, <1>14 DEF Shape
  <1>17. IsFreed(d, nv, j)  BY <1>14, <1>16, FreeNodeOK
  <1> HIDE DEF j
  <1>18. /\ ManagerOK(j) /\ Live(j) = Live(k) \ {nv} /\ Live(j) \subseteq Id
         /\ j.attr = b.attr /\ j.collecting = FALSE /\ j.reclaiming = TRUE
         /\ j.batch = k.batch \ {nv} /\ j.pool = k.pool \ {nv} /\ j.maxedOut = k.maxedOut
         /\ DOMAIN j.attr = DOMAIN k.attr
    <2>1. b.reclaiming = TRUE  BY <1>9, <1>10, <1>1 DEF IsUnlinked, ManagerOK, Manager
    <2> QED  BY <2>1, <1>3, <1>9, <1>10, <1>12, <1>14, <1>16, <1>17
      DEF IsFreed, Shape, SameBatch, SameMaxed, IsUnlinked
  <1>19. \A x \in Live(j) : /\ j.nodes[x].kind = k.nodes[x].kind
                            /\ j.nodes[x].children = k.nodes[x].children
                            /\ j.nodes[x].rc = d.nodes[x].rc
                            /\ j.nodes[x].rc = MaxRC <=> k.nodes[x].rc = MaxRC
    <2>1. \A x \in Live(j) : x \in Live(k) /\ j.nodes[x] = d.nodes[x]  BY <1>17, <1>18 DEF IsFreed
    <2>2. \A x \in Live(k) : /\ d.nodes[x].kind = k.nodes[x].kind
                             /\ d.nodes[x].children = k.nodes[x].children
                             /\ d.nodes[x].rc = MaxRC <=> k.nodes[x].rc = MaxRC
      BY <1>9, <1>10, <1>12, <1>14 DEF Shape, SameMaxed, IsUnlinked
    <2> QED  BY <2>1, <2>2
  <1>20. j.zombies \subseteq k.zombies \cup {n} \cup Range(q) /\ j.zombies = d.zombies
    BY <1>9, <1>12, <1>14, <1>17 DEF IsFreed, IsUnlinked
  <1>21. nv \notin j.zombies  BY <1>2, <1>6, <1>7, <1>20
  <1>22. Typed(j, hd, bd, td)  BY <1>1, <1>18 DEF Typed
  <1>23. ASSUME NEW x \in Id  PROVE F[x] = RefCount(j, hd, bd, td)[x]
    <2>1. /\ Occurrences(hd, x) \in Nat /\ Occurrences(bd, x) \in Nat
          /\ Occurrences(k.attr, x) \in Nat /\ Occurrences(td, Dec(x)) \in Nat
          /\ Cardinality(ChildSites(k, x)) \in Nat
          /\ R[x] = Occurrences(hd, x) + Occurrences(bd, x) + Occurrences(k.attr, x)
                    + Occurrences(td, Dec(x)) + Cardinality(ChildSites(k, x))
      BY <1>1, RefParts DEF R
    <2>2. /\ Occurrences(j.attr, x) \in Nat /\ Cardinality(ChildSites(j, x)) \in Nat
          /\ RefCount(j, hd, bd, td)[x]
               = Occurrences(hd, x) + Occurrences(bd, x) + Occurrences(j.attr, x)
                 + Occurrences(td, Dec(x)) + Cardinality(ChildSites(j, x))
      BY <1>22, RefParts
    <2>3. Occurrences(j.attr, x) + One(n, x) = Occurrences(k.attr, x) + One(Null, x)
      BY <1>9, <1>18 DEF IsUnlinked, n
    <2>4. One(Null, x) = 0  BY <1>3 DEF One
    <2>5. HasOneMore(j, k, nv)  BY <1>1, <1>2, <1>18, <1>19 DEF HasOneMore, TreeOK
    <2>6. Cardinality(ChildSites(k, x)) = Cardinality(ChildSites(j, x)) + Occurrences(q, x)
      BY <1>1, <1>18, <2>5, SitesSplit DEF q
    <2>7. One(n, x) \in Nat /\ Occurrences(q, x) \in Nat /\ F[x] = R[x] - One(n, x) - Occurrences(q, x)
      BY <1>13, <1>15
    <2>8. Occurrences(k.attr, x) = Occurrences(j.attr, x) + One(n, x)  BY <2>1, <2>2, <2>3, <2>4, <2>7
    <2>9. \A e, f, g, h, i, u, v \in Nat :
             (e + f + (g + u) + h + (i + v)) - u - v = e + f + g + h + i
      OBVIOUS
    <2>10. R[x] = Occurrences(hd, x) + Occurrences(bd, x) + (Occurrences(j.attr, x) + One(n, x))
                    + Occurrences(td, Dec(x)) + (Cardinality(ChildSites(j, x)) + Occurrences(q, x))
      BY <2>1, <2>6, <2>8
    <2>11. R[x] - One(n, x) - Occurrences(q, x)
             = Occurrences(hd, x) + Occurrences(bd, x) + Occurrences(j.attr, x)
               + Occurrences(td, Dec(x)) + Cardinality(ChildSites(j, x))
      BY <2>1, <2>2, <2>7, <2>9, <2>10
    <2> QED  BY <2>2, <2>7, <2>11
  <1>24. CountsOK(j, RefCount(j, hd, bd, td), P)
    <2>1. \A x \in Live(j) : x \in Live(d) /\ x # nv /\ x \in Id  BY <1>16, <1>18
    <2>2. \A x \in Live(j) : j.nodes[x].rc \in {MaxRC, RefCount(j, hd, bd, td)[x]}
      BY <2>1, <1>14, <1>19, <1>23 DEF CountsOK
    <2>3. j.batch = d.batch  BY <1>17 DEF IsFreed
    <2>4. \A x \in Live(j) : j.nodes[x].rc = 0 => x \in j.zombies \cup j.batch \cup P
      BY <2>1, <2>3, <1>14, <1>19, <1>20 DEF CountsOK, PP
    <2>5. j.zombies \subseteq Live(j)  BY <1>14, <1>16, <1>18, <1>20, <1>21 DEF CountsOK
    <2>6. j.batch \subseteq Live(j)  BY <2>3, <1>14, <1>16, <1>18 DEF CountsOK
    <2>7. \A x \in j.batch : j.nodes[x].rc = 0 /\ x \notin j.zombies
      BY <2>3, <2>6, <1>14, <1>19, <1>20 DEF CountsOK
    <2> QED  BY <2>2, <2>4, <2>5, <2>6, <2>7, <1>18 DEF CountsOK
  <1>25. ReferredLive(j, RefCount(j, hd, bd, td))
    <2> SUFFICES ASSUME NEW x \in Id, RefCount(j, hd, bd, td)[x] # 0  PROVE x \in Live(j)
      BY DEF ReferredLive
    <2>1. F[x] # 0  BY <1>23
    <2>2. R[x] # 0  BY <2>1, <1>13, <1>15
    <2> QED  BY <2>2, <1>1, <1>5, <1>18 DEF ReferredLive
  <1>26. TreeOK(j)  BY <1>1, <1>18, <1>19 DEF TreeOK
  <1>27. AttrLive(j)
    <2>1. \A x \in DOMAIN k.attr : x # nv => j.attr[x] = k.attr[x]  BY <1>9, <1>18 DEF IsUnlinked
    <2>2. j.attr[nv] = Null  BY <1>9, <1>18 DEF IsUnlinked
    <2> QED  BY <2>1, <2>2, <1>1, <1>18 DEF AttrLive
  <1>28. UniqueIn(j)
    <2>1. j.pool = {x \in Live(j) : j.nodes[x].kind # "VARIABLE"}
      BY <1>1, <1>18, <1>19 DEF UniqueIn
    <2>2. \A x \in j.pool : x \in Live(j) /\ x \in k.pool  BY <2>1, <1>18
    <2> QED  BY <2>1, <2>2, <1>1, <1>19 DEF UniqueIn
  <1>29. Core(j, hd, bd, td)
    BY <1>18, <1>22, <1>24, <1>25, <1>26, <1>27, <1>28 DEF Core, P
  <1>30. MaxedOK(j, o)
    <2>1. nv \notin Maxed(k)  BY <1>2, CountsAssumption DEF Maxed
    <2>2. Maxed(j) = Maxed(k)  BY <2>1, <1>18, <1>19 DEF Maxed
    <2> QED  BY <2>2, <1>18 DEF MaxedOK
  <1>31. \A x \in DOMAIN k.attr : k.attr[x] = Null => j.attr[x] = Null
    BY <1>9, <1>18 DEF IsUnlinked
  <1>32. TodoOK(j, hd, td)
    <2> SUFFICES ASSUME NEW i \in DOMAIN td, ~IsDec(td[i])
                 PROVE  /\ i = Len(td) /\ PutOK(j, hd, td[i]) /\ ~(i > 1)
                        /\ \A x \in 1..(i - 1) : td[x].node \in Range(j.nodes[td[i].node].children)
      BY DEF TodoOK
    <2>1. i = Len(td) /\ PutOK(k, hd, td[i]) /\ ~(i > 1)  BY <1>2 DEF TodoOK
    <2>2. i \in Nat /\ 1..(i - 1) = {}
      <3>1. DOMAIN td = 1..Len(td) /\ Len(td) \in Nat  BY <1>1, LenProperties DEF Typed
      <3>2. i = 1  BY <2>1, <3>1
      <3> QED  BY <3>2
    <2>3. td[i].node \in Live(j) \ j.batch  BY <2>1, <1>18 DEF PutOK
    <2>4. td[i].at[2] \in HeldBy(hd) => td[i].at[2] \in DOMAIN k.attr
      <3>1. HeldBy(hd) \subseteq Live(k)  BY <1>1, RefLive DEF R
      <3> QED  BY <3>1, <1>3
    <2>5. PutOK(j, hd, td[i])  BY <2>1, <2>3, <2>4, <1>31 DEF PutOK
    <2> QED  BY <2>1, <2>2, <2>5
  <1>33. Shrinks(k, j)  BY <1>18, <1>19, <1>31 DEF Shrinks
  <1> QED  BY <1>8, <1>29, <1>30, <1>32, <1>33

-----------------------------------------------------------------------------
(* Deleting all attributes.                                                *)

Stripped(k) == [k EXCEPT !.collecting = TRUE, !.attr = [n \in DOMAIN @ |-> Null]]
Collected(d) == [d EXCEPT !.collecting = FALSE]

NoAttributes(k) == \A n \in DOMAIN k.attr : k.attr[n] = Null

IsStripped(k, a) ==
    /\ ManagerOK(a) /\ a.collecting = TRUE /\ NoAttributes(a)
    /\ a.nodes = k.nodes /\ a.pool = k.pool /\ a.zombies = k.zombies
    /\ a.maxedOut = k.maxedOut /\ a.reclaiming = k.reclaiming /\ a.batch = k.batch

LEMMA StrippedOK ==
    ASSUME NEW k, ManagerOK(k)
    PROVE  IsStripped(k, Stripped(k))
  <1> DEFINE q == [n \in DOMAIN k.attr |-> Null]
             j == [k EXCEPT !.collecting = TRUE, !.attr = q]
  <1>1. /\ k \in Manager /\ k.attr \in Seq(Id \cup {Null})
        /\ Len(k.attr) = Len(k.nodes) /\ Len(k.nodes) <= MaxNodes
    BY DEF ManagerOK, Manager
  <1>2. DOMAIN k.attr = 1..Len(k.attr) /\ Len(k.attr) \in Nat  BY <1>1, LenProperties
  <1>3. q \in Seq(Id \cup {Null}) /\ Len(q) = Len(k.attr)
    <2>1. q = [n \in 1..Len(k.attr) |-> Null]  BY <1>2
    <2>2. q \in [1..Len(k.attr) -> Id \cup {Null}]  BY <2>1
    <2>3. q \in Seq(Id \cup {Null})  BY <2>2, <1>2
    <2> QED  BY <2>1, <2>3, <1>2, LenProperties
  <1>4. \A n \in DOMAIN q : q[n] = Null  OBVIOUS
  <1>5. Stripped(k) = j  BY <1>1 DEF Stripped, Manager
  <1> HIDE DEF q
  <1>6. /\ j \in Manager /\ j.nodes = k.nodes /\ j.pool = k.pool /\ j.zombies = k.zombies
        /\ j.maxedOut = k.maxedOut /\ j.attr = q /\ j.collecting = TRUE
        /\ j.reclaiming = k.reclaiming /\ j.batch = k.batch
    BY <1>1, <1>3 DEF Manager
  <1> HIDE DEF j
  <1> QED  BY <1>1, <1>3, <1>4, <1>5, <1>6 DEF IsStripped, ManagerOK, NoAttributes

IsCollected(d, j) ==
    /\ ManagerOK(j) /\ j.collecting = FALSE /\ j.attr = d.attr
    /\ j.nodes = d.nodes /\ j.pool = d.pool /\ j.zombies = d.zombies
    /\ j.maxedOut = d.maxedOut /\ j.reclaiming = d.reclaiming /\ j.batch = d.batch

LEMMA CollectedOK ==
    ASSUME NEW d, ManagerOK(d)
    PROVE  IsCollected(d, Collected(d))
  <1> DEFINE j == Collected(d)
  <1>1. d \in Manager  BY DEF ManagerOK
  <1>2. /\ j \in Manager /\ j.nodes = d.nodes /\ j.pool = d.pool /\ j.zombies = d.zombies
        /\ j.maxedOut = d.maxedOut /\ j.attr = d.attr /\ j.collecting = FALSE
        /\ j.reclaiming = d.reclaiming /\ j.batch = d.batch
    BY <1>1 DEF Manager, Collected
  <1> HIDE DEF j
  <1> QED  BY <1>2 DEF IsCollected, ManagerOK, j

LEMMA NoAttributesCount ==
    ASSUME NEW k, ManagerOK(k), NoAttributes(k), NEW x \in Id
    PROVE  Occurrences(k.attr, x) = 0
  <1>1. Null \notin Id  BY LiveNode
  <1>2. k.attr \in Seq(Id \cup {Null})  BY DEF ManagerOK, Manager
  <1>3. IsFiniteSet(DOMAIN k.attr)  BY <1>2, SeqFinite
  <1> QED  BY <1>1, <1>3, OccType DEF NoAttributes

(* What deleteAllAttributes keeps.                                         *)
LEMMA DeleteOK ==
    ASSUME NEW k, NEW hd, NEW bd, Core(k, hd, bd, <<>>), NEW o, MaxedOK(k, o), ~k.reclaiming
    PROVE  /\ Core(deleteAllAttributes(k), hd, bd, <<>>)
           /\ MaxedOK(deleteAllAttributes(k), o)
           /\ Frame(k, deleteAllAttributes(k))
           /\ NoAttributes(deleteAllAttributes(k))
           /\ deleteAllAttributes(k).maxedOut = k.maxedOut
           /\ deleteAllAttributes(k).reclaiming = k.reclaiming
  <1> DEFINE R == RefCount(k, hd, bd, <<>>)
             a == Stripped(k)
             q == k.attr
             d == DecAll(a, q)
             j == Collected(d)
  <1>1. /\ Typed(k, hd, bd, <<>>) /\ ManagerOK(k) /\ TreeOK(k) /\ CountsOK(k, R, {})
        /\ ReferredLive(k, R)
    BY NothingTodo DEF Core, Typed
  <1>2. R \in [Id -> Nat]  BY <1>1, RefType
  <1>3. deleteAllAttributes(k) = j
    BY DEF deleteAllAttributes, Stripped, Collected
  <1>4. IsStripped(k, a)  BY <1>1, StrippedOK
  <1> HIDE DEF a
  <1>5. /\ ManagerOK(a) /\ Live(a) = Live(k) /\ a.collecting = TRUE /\ NoAttributes(a)
        /\ Frame(k, a) /\ SameMaxed(k, a)
    BY <1>4 DEF IsStripped, Live, Frame, SameMaxed
  <1>6. CountsOK(a, R, {})  BY <1>1, <1>4, <1>5 DEF CountsOK, IsStripped
  <1>7. q \in Seq(Id \cup {Null}) /\ \A i \in DOMAIN q : q[i] \in Live(a) \cup {Null}
    BY <1>1, <1>5, RefLive DEF ManagerOK, Manager
  <1>8. \A x \in Id : /\ Occurrences(q, x) \in Nat
                      /\ Occurrences(q, x) <= R[x]
                      /\ RefCount(k, hd, bd, <<>>)[x]
                           = Occurrences(hd, x) + Occurrences(bd, x) + Occurrences(k.attr, x)
                             + Occurrences(<<>>, Dec(x)) + Cardinality(ChildSites(k, x))
    <2> SUFFICES ASSUME NEW x \in Id
                 PROVE /\ Occurrences(q, x) \in Nat
                       /\ Occurrences(q, x) <= R[x]
                       /\ RefCount(k, hd, bd, <<>>)[x]
                           = Occurrences(hd, x) + Occurrences(bd, x) + Occurrences(k.attr, x)
                             + Occurrences(<<>>, Dec(x)) + Cardinality(ChildSites(k, x))
      OBVIOUS
    <2>1. /\ Occurrences(hd, x) \in Nat /\ Occurrences(bd, x) \in Nat
          /\ Occurrences(k.attr, x) \in Nat /\ Occurrences(<<>>, Dec(x)) \in Nat
          /\ Cardinality(ChildSites(k, x)) \in Nat
          /\ RefCount(k, hd, bd, <<>>)[x]
               = Occurrences(hd, x) + Occurrences(bd, x) + Occurrences(k.attr, x)
                 + Occurrences(<<>>, Dec(x)) + Cardinality(ChildSites(k, x))
      BY <1>1, RefParts
    <2> QED  BY <2>1
  <1> HIDE DEF R, q
  <1>9. \A x \in Id : Occurrences(q, x) <= R[x]  BY <1>8
  <1>10. a.reclaiming \/ a.collecting  BY <1>5
  <1>11. /\ ManagerOK(d) /\ Shape(a, d) /\ SameMaxed(a, d) /\ SameBatch(a, d)
         /\ CountsOK(d, Minus(R, q), {})
    BY <1>2, <1>5, <1>6, <1>7, <1>9, <1>10, DecAllOK
  <1> HIDE DEF d
  <1>12. IsCollected(d, j)  BY <1>11, CollectedOK
  <1> HIDE DEF j
  <1>13. ManagerOK(j) /\ Live(j) = Live(d) /\ Frame(d, j) /\ SameMaxed(d, j) /\ j.attr = d.attr
    BY <1>12 DEF IsCollected, Live, Frame, SameMaxed
  <1>14. Frame(k, j)  BY <1>5, <1>11, <1>13, ShapeFrame
  <1>15. SameMaxed(k, j) /\ Live(j) = Live(k)
    <2>1. Live(d) = Live(a)  BY <1>11 DEF Shape
    <2> QED  BY <2>1, <1>5, <1>11, <1>13 DEF SameMaxed
  <1>16. NoAttributes(j)  BY <1>5, <1>11, <1>13 DEF NoAttributes, Shape
  <1>17. CountsOK(j, Minus(R, q), {})  BY <1>11, <1>12, <1>13 DEF CountsOK, IsCollected
  <1>18. Typed(j, hd, bd, <<>>)  BY <1>1, <1>13 DEF Typed
  <1>19. AttrLive(j)  BY <1>16 DEF AttrLive, NoAttributes
  <1>20. ASSUME NEW x \in Id  PROVE Minus(R, q)[x] = RefCount(j, hd, bd, <<>>)[x]
    <2>1. /\ Occurrences(hd, x) \in Nat /\ Occurrences(bd, x) \in Nat
          /\ Occurrences(<<>>, Dec(x)) \in Nat /\ Cardinality(ChildSites(j, x)) \in Nat
          /\ RefCount(j, hd, bd, <<>>)[x]
               = Occurrences(hd, x) + Occurrences(bd, x) + Occurrences(j.attr, x)
                 + Occurrences(<<>>, Dec(x)) + Cardinality(ChildSites(j, x))
      BY <1>18, RefParts
    <2>2. Occurrences(j.attr, x) = 0  BY <1>13, <1>16, NoAttributesCount
    <2>3. ChildSites(j, x) = ChildSites(k, x)  BY <1>14, FrameKeeps
    <2>4. Minus(R, q)[x] = R[x] - Occurrences(q, x)  BY DEF Minus
    <2>5. R[x] = Occurrences(hd, x) + Occurrences(bd, x) + Occurrences(q, x)
                 + Occurrences(<<>>, Dec(x)) + Cardinality(ChildSites(j, x))
      BY <1>8, <2>3 DEF R, q
    <2> QED  BY <2>1, <2>2, <2>4, <2>5, <1>8
  <1>21. \A x \in Id : Minus(R, q)[x] # 0 => x \in Live(k)
    <2> SUFFICES ASSUME NEW x \in Id, Minus(R, q)[x] # 0  PROVE x \in Live(k)  OBVIOUS
    <2>1. Minus(R, q)[x] = R[x] - Occurrences(q, x)  BY DEF Minus
    <2>2. R[x] # 0  BY <2>1, <1>2, <1>8
    <2> QED  BY <2>2, <1>1 DEF ReferredLive
  <1>22. CountsOK(j, Minus(R, q), PutsOf(<<>>)) /\ j.collecting = FALSE
    BY <1>12, <1>17, NothingTodo DEF IsCollected
  <1>23. Core(j, hd, bd, <<>>)  BY <1>14, <1>18, <1>19, <1>20, <1>21, <1>22, CoreStep
  <1>24. MaxedOK(j, o)  BY <1>15, MaxedKeeps
  <1>25. j.maxedOut = k.maxedOut /\ j.reclaiming = k.reclaiming
    BY <1>4, <1>11, <1>12 DEF IsStripped, IsCollected, SameMaxed, SameBatch
  <1> QED  BY <1>3, <1>14, <1>16, <1>23, <1>24, <1>25

-----------------------------------------------------------------------------
(* The end of reclaiming.                                                  *)

Rested(k) == [k EXCEPT !.reclaiming = FALSE]

IsRested(k, j) ==
    /\ ManagerOK(j) /\ j.reclaiming = FALSE /\ j.attr = k.attr /\ j.collecting = k.collecting
    /\ j.nodes = k.nodes /\ j.pool = k.pool /\ j.zombies = k.zombies
    /\ j.maxedOut = k.maxedOut /\ j.batch = k.batch

LEMMA RestedOK ==
    ASSUME NEW k, ManagerOK(k)
    PROVE  IsRested(k, Rested(k))
  <1> DEFINE j == Rested(k)
  <1>1. k \in Manager  BY DEF ManagerOK
  <1>2. /\ j \in Manager /\ j.nodes = k.nodes /\ j.pool = k.pool /\ j.zombies = k.zombies
        /\ j.maxedOut = k.maxedOut /\ j.attr = k.attr /\ j.collecting = k.collecting
        /\ j.reclaiming = FALSE /\ j.batch = k.batch
    BY <1>1 DEF Manager, Rested
  <1> HIDE DEF j
  <1> QED  BY <1>2 DEF IsRested, ManagerOK, j

LEMMA ReclaimEndOK ==
    ASSUME NEW k, NEW hd, NEW bd, NEW td, Core(k, hd, bd, td), TodoOK(k, hd, td),
           NEW o, MaxedOK(k, o), k.batch = {}
    PROVE  /\ Core(Rested(k), hd, bd, td)
           /\ TodoOK(Rested(k), hd, td)
           /\ MaxedOK(Rested(k), o)
           /\ Shrinks(k, Rested(k))
  <1> DEFINE R == RefCount(k, hd, bd, td)
             j == Rested(k)
  <1>1. Typed(k, hd, bd, td) /\ ManagerOK(k) /\ CountsOK(k, R, PutsOf(td)) /\ ReferredLive(k, R)
    BY DEF Core, Typed
  <1>2. IsRested(k, j)  BY <1>1, RestedOK
  <1> HIDE DEF j
  <1>3. Live(j) = Live(k) /\ Frame(k, j) /\ SameMaxed(k, j) /\ Typed(j, hd, bd, td)
    BY <1>1, <1>2 DEF IsRested, Live, Frame, SameMaxed, Typed
  <1>4. CountsOK(j, R, PutsOf(td))  BY <1>1, <1>2, <1>3 DEF CountsOK, IsRested
  <1>5. ASSUME NEW x \in Id  PROVE R[x] = RefCount(j, hd, bd, td)[x]
    <2>1. ChildSites(j, x) = ChildSites(k, x)  BY <1>3, FrameKeeps
    <2> QED  BY <2>1, <1>2 DEF RefCount, IsRested
  <1>6. AttrLive(j) /\ j.collecting = FALSE  BY <1>2, <1>3 DEF AttrLive, IsRested, Core
  <1>7. Core(j, hd, bd, td)
    <2> HIDE DEF R
    <2>1. \A x \in Id : R[x] # 0 => x \in Live(k)  BY <1>1 DEF ReferredLive
    <2> QED  BY <2>1, <1>3, <1>4, <1>5, <1>6, CoreStep
  <1>8. MaxedOK(j, o)  BY <1>3, MaxedKeeps
  <1>9. TodoOK(j, hd, td)
    <2>1. \A t : PutOK(k, hd, t) => PutOK(j, hd, t)  BY <1>2, <1>3 DEF PutOK, IsRested
    <2> QED  BY <2>1, <1>2 DEF TodoOK, IsRested
  <1>10. Shrinks(k, j)  BY <1>2, <1>3 DEF Shrinks, IsRested
  <1> QED  BY <1>7, <1>8, <1>9, <1>10 DEF j

-----------------------------------------------------------------------------
(* The destructor.                                                         *)

(* The program has given up all nodes.                                     *)
Gone(k, hd, bd, td) ==
    /\ \A h \in Handle : hd[h] = Null
    /\ bd = <<>> /\ td = <<>>
    /\ NoAttributes(k)

(* The nodes D have their children in D.                                   *)
ClosedUnder(D, k) == \A n \in D \cap Live(k) : Range(k.nodes[n].children) \subseteq D

(* Parents come after their descendants in o.                              *)
OrderOK(k, o) ==
    \A p \in DOMAIN o : \E D \in SUBSET Id :
        /\ ClosedUnder(D, k)
        /\ \A i \in 1..(p - 1) : o[i] \in D
        /\ o[p] \notin D

LEMMA ShrinksKeeps ==
    ASSUME NEW k, NEW j, Shrinks(k, j)
    PROVE  /\ \A o : OrderOK(k, o) => OrderOK(j, o)
           /\ \A hd, bd, td : Gone(k, hd, bd, td) => Gone(j, hd, bd, td)
  <1>1. \A D : ClosedUnder(D, k) => ClosedUnder(D, j)  BY DEF Shrinks, ClosedUnder
  <1>2. \A o : OrderOK(k, o) => OrderOK(j, o)
    <2> SUFFICES ASSUME NEW o, OrderOK(k, o), NEW p \in DOMAIN o
                 PROVE  \E D \in SUBSET Id : /\ ClosedUnder(D, j)
                                             /\ \A i \in 1..(p - 1) : o[i] \in D
                                             /\ o[p] \notin D
      BY DEF OrderOK
    <2>1. PICK D \in SUBSET Id : /\ ClosedUnder(D, k)
                                 /\ \A i \in 1..(p - 1) : o[i] \in D
                                 /\ o[p] \notin D
      BY DEF OrderOK
    <2> QED  BY <2>1, <1>1
  <1>3. NoAttributes(k) => NoAttributes(j)  BY DEF Shrinks, NoAttributes
  <1> QED  BY <1>2, <1>3 DEF Gone

(* A node that is counted has a parent, when all else is gone.             *)
LEMMA HasParent ==
    ASSUME NEW k, NEW hd, NEW bd, NEW td, Core(k, hd, bd, td), Gone(k, hd, bd, td),
           NEW n \in Id, RefCount(k, hd, bd, td)[n] # 0
    PROVE  \E p \in Live(k) : n \in Range(k.nodes[p].children) /\ n < p
  <1>1. Typed(k, hd, bd, td) /\ ManagerOK(k) /\ TreeOK(k)  BY DEF Core, Typed
  <1>2. RefCount(k, hd, bd, td)[n]
          = Occurrences(hd, n) + Occurrences(bd, n) + Occurrences(k.attr, n)
            + Occurrences(td, Dec(n)) + Cardinality(ChildSites(k, n))
    BY <1>1, RefParts
  <1>3. Occurrences(hd, n) = 0
    <2>1. DOMAIN hd = Handle /\ Null \notin Id  BY <1>1, LiveNode DEF Typed
    <2>2. IsFiniteSet(DOMAIN hd)  BY <2>1, HandlesFinite
    <2> QED  BY <2>1, <2>2, OccType DEF Gone
  <1>4. Occurrences(bd, n) = 0 /\ Occurrences(td, Dec(n)) = 0  BY NothingTodo DEF Gone
  <1>5. Occurrences(k.attr, n) = 0  BY <1>1, NoAttributesCount DEF Gone
  <1>6. Cardinality(ChildSites(k, n)) \in Nat /\ Cardinality(ChildSites(k, n)) # 0
    BY <1>1, <1>2, <1>3, <1>4, <1>5, ChildSitesFinite
  <1>7. PICK c : c \in ChildSites(k, n)  BY <1>1, <1>6, ChildSitesFinite
  <1>8. /\ c[1] \in Live(k) /\ c[2] \in DOMAIN k.nodes[c[1]].children
        /\ k.nodes[c[1]].children[c[2]] = n
    BY <1>7 DEF ChildSites
  <1>9. n < c[1]  BY <1>1, <1>8 DEF TreeOK
  <1> QED  BY <1>8, <1>9 DEF Range

(* So has one without a maximal count, when there are no zombies.          *)
LEMMA HasParentUnlessMaxed ==
    ASSUME NEW k, NEW hd, NEW bd, NEW td, Core(k, hd, bd, td), Gone(k, hd, bd, td),
           ~k.reclaiming, k.zombies = {}, NEW n \in Live(k), n \notin Maxed(k)
    PROVE  \E p \in Live(k) : n \in Range(k.nodes[p].children) /\ n < p
  <1>1. ManagerOK(k) /\ CountsOK(k, RefCount(k, hd, bd, td), PutsOf(td))  BY DEF Core, Typed
  <1>2. PutsOf(td) = {}  BY NothingTodo DEF Gone
  <1>3. k.nodes[n].rc # 0  BY <1>1, <1>2 DEF CountsOK
  <1>4. RefCount(k, hd, bd, td)[n] # 0  BY <1>1, <1>3 DEF CountsOK, Maxed
  <1>5. n \in Id  BY <1>1, LiveNode
  <1> QED  BY <1>4, <1>5, HasParent

(* When the loop of ~NodeManager ends, no node is left.                    *)
LEMMA DestroyEndOK ==
    ASSUME NEW k, NEW hd, NEW bd, NEW td, Core(k, hd, bd, td), Gone(k, hd, bd, td),
           ~k.reclaiming, k.zombies = {}, Maxed(k) = {}
    PROVE  Live(k) = {}
  <1> SUFFICES ASSUME Live(k) # {}  PROVE FALSE  OBVIOUS
  <1>1. Live(k) \subseteq Id  BY LiveNode DEF Core, Typed
  <1>2. PICK y \in Live(k) : \A x \in Live(k) : x <= y  BY <1>1, YoungestNode
  <1>3. PICK p \in Live(k) : y < p  BY HasParentUnlessMaxed
  <1>4. p \in Int /\ y \in Int  BY <1>1 DEF Id
  <1> QED  BY <1>2, <1>3, <1>4

LEMMA UpToLast ==
    ASSUME NEW n \in Nat, n # 0
    PROVE  /\ \A i \in 1..n : i # n => i \in 1..(n - 1)
           /\ 1..(n - 1) \subseteq 1..n /\ n \notin 1..(n - 1) /\ n \in 1..n
  <1> QED  OBVIOUS

(* The last node of the order has no parent.                               *)
LEMMA LastIsFree ==
    ASSUME NEW k, NEW hd, NEW bd, NEW td, Core(k, hd, bd, td), Gone(k, hd, bd, td),
           ~k.reclaiming, k.zombies = {}, NEW o \in Seq(Id), o # <<>>,
           k.maxedOut = <<>>, MaxedOK(k, o), OrderOK(k, o)
    PROVE  /\ Last(o) \in Live(k) /\ Last(o) \in Id /\ k.nodes[Last(o)].rc = MaxRC
           /\ RefCount(k, hd, bd, td)[Last(o)] = 0
  <1> DEFINE l == Last(o)
  <1>1. Live(k) \subseteq Id  BY LiveNode DEF Core, Typed
  <1>2. Len(o) \in Nat /\ DOMAIN o = 1..Len(o) /\ Len(o) # 0 /\ Len(o) \in DOMAIN o
    BY EmptySeq, LenProperties
  <1>3. l = o[Len(o)]  BY DEF Last
  <1>4. Range(o) = Maxed(k)
    <2>1. Range(<<>>) = {}  BY DEF Range
    <2> QED  BY <2>1 DEF MaxedOK
  <1>5. l \in Maxed(k)  BY <1>2, <1>3, <1>4 DEF Range
  <1>6. l \in Live(k) /\ l \in Id /\ k.nodes[l].rc = MaxRC  BY <1>1, <1>5 DEF Maxed
  <1>7. PICK D \in SUBSET Id : /\ ClosedUnder(D, k)
                               /\ \A i \in 1..(Len(o) - 1) : o[i] \in D
                               /\ o[Len(o)] \notin D
    BY <1>2 DEF OrderOK
  <1>8. \A n \in Maxed(k) : n \in D \/ n = l
    <2> SUFFICES ASSUME NEW n \in Maxed(k), n # l  PROVE n \in D  OBVIOUS
    <2>1. PICK i \in 1..Len(o) : n = o[i]  BY <1>2, <1>4 DEF Range
    <2>2. i # Len(o)  BY <2>1, <1>3
    <2>3. i \in 1..(Len(o) - 1)  BY <2>2, <1>2, UpToLast
    <2> QED  BY <2>1, <2>3, <1>7
  <1>9. \A n, p \in Live(k) : n \in Range(k.nodes[p].children) /\ n \notin D => p \notin D
    BY <1>7 DEF ClosedUnder
  <1> HIDE DEF l
  <1>10. ASSUME RefCount(k, hd, bd, td)[l] # 0  PROVE FALSE
    <2>1. PICK x \in Live(k) : l \in Range(k.nodes[x].children) /\ l < x
      BY <1>6, <1>10, HasParent
    <2> DEFINE S == Live(k) \ D
    <2>2. x \in S  BY <2>1, <1>3, <1>6, <1>7, <1>9
    <2>3. S \subseteq Id /\ S # {}  BY <2>2, <1>1
    <2> HIDE DEF S
    <2>4. PICK y \in S : \A z \in S : z <= y  BY <2>3, YoungestNode
    <2>5. x \in Int /\ y \in Int /\ l \in Int  BY <2>2, <2>3, <2>4, <1>6 DEF Id
    <2>6. y # l  BY <2>1, <2>2, <2>4, <2>5
    <2>7. y \in Live(k) /\ y \notin D  BY DEF S
    <2>8. y \notin Maxed(k)  BY <2>6, <2>7, <1>8
    <2>9. PICK p \in Live(k) : y \in Range(k.nodes[p].children) /\ y < p
      BY <2>7, <2>8, HasParentUnlessMaxed
    <2>10. p \in S  BY <2>7, <2>9, <1>9 DEF S
    <2>11. p \in Int  BY <1>1 DEF Id
    <2> QED  BY <2>4, <2>5, <2>9, <2>10, <2>11
  <1> QED  BY <1>6, <1>10 DEF l

LEMMA FrontFacts ==
    ASSUME NEW o \in Seq(Id), o # <<>>
    PROVE  /\ Front(o) \in Seq(Id)
           /\ DOMAIN Front(o) = 1..(Len(o) - 1)
           /\ \A i \in 1..(Len(o) - 1) : Front(o)[i] = o[i]
           /\ IsInjective(o) => IsInjective(Front(o)) /\ Range(Front(o)) = Range(o) \ {Last(o)}
  <1>1. Len(o) \in Nat /\ DOMAIN o = 1..Len(o) /\ Len(o) # 0  BY EmptySeq, LenProperties
  <1>2. \A i \in 1..Len(o) : o[i] \in Id  BY <1>1, ElementOfSeq
  <1>3. /\ Front(o) = [i \in 1..(Len(o) - 1) |-> o[i]]
    <2>1. Front(o) = SubSeq(o, 1, Len(o) - 1)  BY DEF Front
    <2> QED  BY <2>1, <1>1, <1>2
  <1>4. Front(o) \in Seq(Id)
    <2>1. Front(o) \in [1..(Len(o) - 1) -> Id] /\ Len(o) - 1 \in Nat  BY <1>1, <1>2, <1>3
    <2> QED  BY <2>1
  <1>5. DOMAIN Front(o) = 1..(Len(o) - 1) /\ \A i \in 1..(Len(o) - 1) : Front(o)[i] = o[i]
    BY <1>3
  <1>6. Last(o) = o[Len(o)] /\ Len(o) \in DOMAIN o  BY <1>1 DEF Last
  <1>7. ASSUME IsInjective(o)
        PROVE  IsInjective(Front(o)) /\ Range(Front(o)) = Range(o) \ {Last(o)}
    <2>1. \A a, b \in 1..Len(o) : o[a] = o[b] => a = b  BY <1>1, <1>7 DEF IsInjective
    <2>2. 1..(Len(o) - 1) \subseteq 1..Len(o) /\ Len(o) \notin 1..(Len(o) - 1)  BY <1>1
    <2>3. \A a \in 1..Len(o) : a # Len(o) => a \in 1..(Len(o) - 1)  BY <1>1, UpToLast
    <2>4. IsInjective(Front(o))  BY <1>5, <2>1, <2>2 DEF IsInjective
    <2>5. Range(Front(o)) \subseteq Range(o) \ {Last(o)}
      BY <1>1, <1>5, <1>6, <2>1, <2>2 DEF Range
    <2>6. Range(o) \ {Last(o)} \subseteq Range(Front(o))
      BY <1>1, <1>5, <1>6, <2>3 DEF Range
    <2> QED  BY <2>4, <2>5, <2>6
  <1> QED  BY <1>4, <1>5, <1>7

(* One round of the loop of ~NodeManager: zombies are reclaimed.           *)
LEMMA DestroyZombiesOK ==
    ASSUME NEW k, NEW hd, NEW bd, Core(k, hd, bd, <<>>), NEW o, MaxedOK(k, o), ~k.reclaiming
    PROVE  /\ Core(reclaimZombies(k), hd, bd, <<>>)
           /\ MaxedOK(reclaimZombies(k), o)
           /\ Shrinks(k, reclaimZombies(k))
  <1> DEFINE R == RefCount(k, hd, bd, <<>>)
             b == {z \in k.zombies : k.nodes[z].rc = 0}
             j == reclaimZombies(k)
  <1>1. /\ Typed(k, hd, bd, <<>>) /\ ManagerOK(k) /\ CountsOK(k, R, {}) /\ ReferredLive(k, R)
    BY NothingTodo DEF Core, Typed
  <1>2. k \in Manager /\ b \in SUBSET Id  BY <1>1 DEF ManagerOK, Manager
  <1> HIDE DEF b
  <1>3. j = [k EXCEPT !.reclaiming = TRUE, !.batch = b, !.zombies = {}]
    BY DEF reclaimZombies, b
  <1> HIDE DEF j
  <1>4. /\ j \in Manager /\ j.nodes = k.nodes /\ j.pool = k.pool /\ j.zombies = {}
        /\ j.maxedOut = k.maxedOut /\ j.attr = k.attr /\ j.collecting = k.collecting
        /\ j.reclaiming = TRUE /\ j.batch = b
    BY <1>2, <1>3 DEF Manager
  <1>5. ManagerOK(j)  BY <1>1, <1>4 DEF ManagerOK
  <1>6. Live(j) = Live(k) /\ Frame(k, j) /\ SameMaxed(k, j) /\ Typed(j, hd, bd, <<>>)
    BY <1>1, <1>4, <1>5 DEF Live, Frame, SameMaxed, Typed
  <1>7. k.batch = {}  BY NoBatch
  <1>8. CountsOK(j, R, PutsOf(<<>>))  BY <1>1, <1>4, <1>6, <1>7 DEF CountsOK, b
  <1>9. ASSUME NEW x \in Id  PROVE R[x] = RefCount(j, hd, bd, <<>>)[x]
    <2>1. ChildSites(j, x) = ChildSites(k, x)  BY <1>6, FrameKeeps
    <2> QED  BY <2>1, <1>4 DEF RefCount
  <1>10. AttrLive(j) /\ j.collecting = FALSE  BY <1>4, <1>6 DEF AttrLive, Core
  <1>11. Core(j, hd, bd, <<>>)
    <2> HIDE DEF R
    <2>1. \A x \in Id : R[x] # 0 => x \in Live(k)  BY <1>1 DEF ReferredLive
    <2> QED  BY <2>1, <1>6, <1>8, <1>9, <1>10, CoreStep
  <1>12. MaxedOK(j, o)  BY <1>6, MaxedKeeps
  <1>13. Shrinks(k, j)  BY <1>4, <1>6 DEF Shrinks
  <1> QED  BY <1>11, <1>12, <1>13 DEF j

(* One round of the loop: a node with a maximal count is made a zombie.    *)
LEMMA DestroyMaxedOutOK ==
    ASSUME NEW k, NEW hd, NEW bd, NEW td, Core(k, hd, bd, td), Gone(k, hd, bd, td),
           ~k.reclaiming, k.zombies = {}, NEW o \in Seq(Id), o # <<>>,
           k.maxedOut = <<>>, MaxedOK(k, o), OrderOK(k, o)
    PROVE  /\ Core(markForDeletion(WithRC(k, Last(o), 0), Last(o)), hd, bd, td)
           /\ MaxedOK(markForDeletion(WithRC(k, Last(o), 0), Last(o)), Front(o))
           /\ Shrinks(k, markForDeletion(WithRC(k, Last(o), 0), Last(o)))
           /\ Front(o) \in Seq(Id)
           /\ OrderOK(k, Front(o))
  <1> DEFINE R == RefCount(k, hd, bd, td)
             l == Last(o)
             w == WithRC(k, l, 0)
             j == markForDeletion(w, l)
  <1>1. Typed(k, hd, bd, td) /\ ManagerOK(k) /\ CountsOK(k, R, PutsOf(td)) /\ ReferredLive(k, R)
    BY DEF Core, Typed
  <1>2. l \in Live(k) /\ l \in Id /\ k.nodes[l].rc = MaxRC /\ R[l] = 0  BY LastIsFree
  <1>3. /\ Front(o) \in Seq(Id) /\ DOMAIN Front(o) = 1..(Len(o) - 1)
        /\ \A i \in 1..(Len(o) - 1) : Front(o)[i] = o[i]
        /\ IsInjective(o) => IsInjective(Front(o)) /\ Range(Front(o)) = Range(o) \ {l}
    BY FrontFacts
  <1> HIDE DEF l
  <1>4. 0 \in 0..MaxRC /\ MaxRC # 0  BY CountsAssumption
  <1>5. /\ ManagerOK(w) /\ Shape(k, w) /\ w.nodes[l].rc = 0
        /\ \A x \in Live(k) : x # l => w.nodes[x] = k.nodes[x]
        /\ w.zombies = k.zombies /\ w.maxedOut = k.maxedOut /\ SameBatch(k, w)
    BY <1>1, <1>2, <1>4, WithRCOK
  <1> HIDE DEF w
  <1>6. Live(w) = Live(k) /\ w.attr = k.attr /\ w.collecting = FALSE  BY <1>5 DEF Shape, Core
  <1>7. /\ ManagerOK(j) /\ Shape(w, j) /\ j.nodes = w.nodes
        /\ j.maxedOut = w.maxedOut /\ Marks(w, l, j)
    BY <1>2, <1>5, <1>6, MarkOK
  <1> HIDE DEF j
  <1>8. Live(j) = Live(k) /\ j.attr = k.attr /\ j.collecting = FALSE
    BY <1>6, <1>7 DEF Shape
  <1>9. Frame(k, j)
    <2>1. Frame(k, w) /\ Frame(w, j)  BY <1>5, <1>7, ShapeFrame
    <2> QED  BY <2>1, ShapeFrame
  <1>10. k.batch = {}  BY NoBatch
  <1>11. \/ j.zombies = {l} /\ j.batch = {}
         \/ j.zombies = {} /\ j.batch = {l} /\ j.reclaiming = TRUE
    <2>1. CASE j.zombies = w.zombies \cup {l} /\ SameBatch(w, j)
      BY <2>1, <1>5, <1>10 DEF SameBatch
    <2>2. CASE /\ ~w.reclaiming /\ ~w.collecting
               /\ j.zombies = {} /\ j.reclaiming = TRUE
               /\ j.batch = {z \in w.zombies \cup {l} : w.nodes[z].rc = 0}
      BY <2>2, <1>5
    <2> QED  BY <2>1, <2>2, <1>7 DEF Marks
  <1>12. \A x \in Live(k) : /\ x # l => j.nodes[x] = k.nodes[x]
                            /\ x = l => j.nodes[x].rc = 0
    BY <1>5, <1>7
  <1>13. PutsOf(td) = {}  BY NothingTodo DEF Gone
  <1>14. CountsOK(j, R, PutsOf(td))
    <2>1. \A x \in Live(j) : j.nodes[x].rc \in {MaxRC, R[x]}
      BY <1>1, <1>2, <1>8, <1>12 DEF CountsOK
    <2>2. \A x \in Live(j) : j.nodes[x].rc = 0 => x = l
      BY <1>1, <1>8, <1>10, <1>12, <1>13 DEF CountsOK
    <2> QED  BY <2>1, <2>2, <1>2, <1>8, <1>11, <1>12 DEF CountsOK
  <1>15. Typed(j, hd, bd, td)  BY <1>1, <1>7 DEF Typed
  <1>16. ASSUME NEW x \in Id  PROVE R[x] = RefCount(j, hd, bd, td)[x]
    <2>1. ChildSites(j, x) = ChildSites(k, x)  BY <1>9, FrameKeeps
    <2> QED  BY <2>1, <1>8 DEF RefCount
  <1>17. AttrLive(j)  BY <1>8 DEF AttrLive, Core
  <1>18. Core(j, hd, bd, td)
    <2> HIDE DEF R
    <2>1. \A x \in Id : R[x] # 0 => x \in Live(k)  BY <1>1 DEF ReferredLive
    <2> QED  BY <2>1, <1>8, <1>9, <1>14, <1>15, <1>16, <1>17, CoreStep
  <1>19. MaxedOK(j, Front(o))
    <2>1. Maxed(j) = Maxed(k) \ {l}  BY <1>4, <1>8, <1>12 DEF Maxed
    <2>2. j.maxedOut = <<>>  BY <1>5, <1>7
    <2>3. Range(<<>>) = {} /\ IsInjective(<<>>)  BY DEF Range, IsInjective
    <2> QED  BY <2>1, <2>2, <2>3, <1>3 DEF MaxedOK
  <1>20. Shrinks(k, j)
    <2>1. \A n \in Live(j) : j.nodes[n].children = k.nodes[n].children  BY <1>9 DEF Frame
    <2> QED  BY <2>1, <1>5, <1>7, <1>8 DEF Shrinks
  <1>21. OrderOK(k, Front(o))
    <2> SUFFICES ASSUME NEW p \in DOMAIN Front(o)
                 PROVE  \E D \in SUBSET Id : /\ ClosedUnder(D, k)
                                             /\ \A i \in 1..(p - 1) : Front(o)[i] \in D
                                             /\ Front(o)[p] \notin D
      BY DEF OrderOK
    <2>1. Len(o) \in Nat /\ DOMAIN o = 1..Len(o)  BY LenProperties
    <2>2. p \in 1..(Len(o) - 1)  BY <1>3
    <2>3. p \in DOMAIN o /\ \A i \in 1..(p - 1) : i \in 1..(Len(o) - 1)  BY <2>1, <2>2
    <2>4. PICK D \in SUBSET Id : /\ ClosedUnder(D, k)
                                 /\ \A i \in 1..(p - 1) : o[i] \in D
                                 /\ o[p] \notin D
      BY <2>3 DEF OrderOK
    <2> QED  BY <2>2, <2>3, <2>4, <1>3
  <1> QED  BY <1>3, <1>18, <1>19, <1>20, <1>21 DEF j, w, l

-----------------------------------------------------------------------------
(* TopologicalSort, when no kind is parameterized.                         *)

(* Each node of q comes after its children.                                *)
ChildrenFirst(k, q) ==
    \A i \in 1..Len(q) : \A c \in Range(k.nodes[q[i]].children) :
        \E x \in 1..(i - 1) : q[x] = c

LEMMA ConcatChildrenFirst ==
    ASSUME NEW k, NEW D, NEW a \in Seq(D), NEW b \in Seq(D),
           ChildrenFirst(k, a), ChildrenFirst(k, b)
    PROVE  /\ a \o b \in Seq(D)
           /\ ChildrenFirst(k, a \o b)
           /\ Range(a) \subseteq Range(a \o b) /\ Range(b) \subseteq Range(a \o b)
  <1> DEFINE q == a \o b
  <1>1. /\ q \in Seq(D) /\ Len(q) = Len(a) + Len(b)
        /\ \A i \in 1..(Len(a) + Len(b)) : q[i] = IF i <= Len(a) THEN a[i] ELSE b[i - Len(a)]
    BY ConcatProperties
  <1>2. /\ Len(a) \in Nat /\ DOMAIN a = 1..Len(a) /\ Len(b) \in Nat /\ DOMAIN b = 1..Len(b)
        /\ DOMAIN q = 1..Len(q)
    BY <1>1, LenProperties
  <1> HIDE DEF q
  <1>3. \A i \in 1..Len(a) : i \in 1..Len(q) /\ q[i] = a[i]  BY <1>1, <1>2
  <1>4. \A i \in 1..Len(b) : i + Len(a) \in 1..Len(q) /\ q[i + Len(a)] = b[i]  BY <1>1, <1>2
  <1>5. Range(a) \subseteq Range(q)  BY <1>2, <1>3 DEF Range
  <1>6. Range(b) \subseteq Range(q)  BY <1>2, <1>4 DEF Range
  <1>7. ASSUME NEW i \in 1..Len(q), NEW c \in Range(k.nodes[q[i]].children)
        PROVE  \E x \in 1..(i - 1) : q[x] = c
    <2>1. CASE i <= Len(a)
      <3>1. i \in 1..Len(a) /\ q[i] = a[i]  BY <2>1, <1>1, <1>2
      <3>2. PICK x \in 1..(i - 1) : a[x] = c  BY <3>1, <1>7 DEF ChildrenFirst
      <3>3. q[x] = a[x]  BY <3>1, <1>2, <1>3
      <3> QED  BY <3>2, <3>3
    <2>2. CASE ~(i <= Len(a))
      <3>1. i - Len(a) \in 1..Len(b) /\ q[i] = b[i - Len(a)]  BY <2>2, <1>1, <1>2
      <3>2. PICK x \in 1..(i - Len(a) - 1) : b[x] = c  BY <3>1, <1>7 DEF ChildrenFirst
      <3>3. x \in 1..Len(b) /\ x + Len(a) \in 1..(i - 1)  BY <3>1, <1>2
      <3> QED  BY <3>2, <3>3, <1>4
    <2> QED  BY <2>1, <2>2
  <1>8. ChildrenFirst(k, q)  BY <1>7 DEF ChildrenFirst
  <1> QED  BY <1>1, <1>5, <1>6, <1>8 DEF q

(* The function that FlattenSeq is defined by.                             *)
FlatRun(f, s, n) == f = [i \in 1..n |-> IF i = 1 THEN s[i] ELSE f[i - 1] \o s[i]]

LEMMA FlatRunExists ==
    ASSUME NEW s, NEW n \in Nat
    PROVE  \E f : FlatRun(f, s, n)
  <1> DEFINE S == {i \in Nat : \E f : FlatRun(f, s, i)}
  <1>1. 0 \in S
    <2> DEFINE f == [i \in 1..0 |-> 0]
    <2>1. f = [i \in 1..0 |-> IF i = 1 THEN s[i] ELSE f[i - 1] \o s[i]]  OBVIOUS
    <2>2. FlatRun(f, s, 0)  BY <2>1 DEF FlatRun
    <2> QED  BY <2>2
  <1>2. ASSUME NEW i \in 1..n, i - 1 \in S  PROVE i \in S
    <2>1. i \in Nat /\ i - 1 \in Nat  OBVIOUS
    <2>2. PICK f : FlatRun(f, s, i - 1)  BY <1>2
    <2> DEFINE last == IF i = 1 THEN s[i] ELSE f[i - 1] \o s[i]
               g == [x \in 1..i |-> IF x = i THEN last ELSE f[x]]
               h == [x \in 1..i |-> IF x = 1 THEN s[x] ELSE g[x - 1] \o s[x]]
    <2> HIDE DEF last
    <2>3. ASSUME NEW x \in 1..i  PROVE g[x] = h[x]
      <3>1. CASE x # i
        <4>1. x \in 1..(i - 1)  BY <3>1, <2>1
        <4>2. f[x] = IF x = 1 THEN s[x] ELSE f[x - 1] \o s[x]  BY <4>1, <2>2 DEF FlatRun
        <4>3. g[x] = f[x] /\ (x # 1 => x - 1 \in 1..i /\ x - 1 # i /\ g[x - 1] = f[x - 1])
          BY <4>1, <3>1, <2>1
        <4>4. h[x] = IF x = 1 THEN s[x] ELSE g[x - 1] \o s[x]  OBVIOUS
        <4> HIDE DEF g, h
        <4> QED  BY <4>2, <4>3, <4>4
      <3>2. CASE x = i
        <4>1. g[x] = last /\ (i # 1 => i - 1 \in 1..i /\ i - 1 # i /\ g[i - 1] = f[i - 1])
          BY <3>2, <2>1
        <4>2. h[x] = IF x = 1 THEN s[x] ELSE g[x - 1] \o s[x]  OBVIOUS
        <4> HIDE DEF g, h
        <4> QED  BY <4>1, <4>2, <3>2 DEF last
      <3> QED  BY <3>1, <3>2
    <2>4. g = h  BY <2>3
    <2>5. FlatRun(g, s, i)  BY <2>4 DEF FlatRun
    <2> HIDE DEF g
    <2> QED  BY <2>1, <2>5
  <1> HIDE DEF S
  <1>3. 0..n \subseteq S  BY <1>1, <1>2, Climb
  <1>4. n \in S  BY <1>3
  <1> QED  BY <1>4 DEF S

LEMMA FlattenRun ==
    ASSUME NEW s, Len(s) \in Nat, Len(s) # 0
    PROVE  \E f : FlatRun(f, s, Len(s)) /\ FlattenSeq(s) = f[Len(s)]
  <1> DEFINE F(g) == [i \in 1..Len(s) |-> IF i = 1 THEN s[i] ELSE g[i - 1] \o s[i]]
             h == CHOOSE g : g = F(g)
  <1>1. PICK f : FlatRun(f, s, Len(s))  BY FlatRunExists
  <1>2. f = F(f)  BY <1>1 DEF FlatRun
  <1>3. h = F(h)  BY <1>2
  <1>4. FlattenSeq(s) = h[Len(s)]  BY DEF FlattenSeq
  <1> HIDE DEF h
  <1>5. FlatRun(h, s, Len(s))  BY <1>3 DEF FlatRun
  <1> QED  BY <1>4, <1>5

LEMMA FlattenChildrenFirst ==
    ASSUME NEW k, NEW D, NEW s \in Seq(Seq(D)), \A i \in 1..Len(s) : ChildrenFirst(k, s[i])
    PROVE  /\ FlattenSeq(s) \in Seq(D)
           /\ ChildrenFirst(k, FlattenSeq(s))
           /\ \A i \in 1..Len(s) : Range(s[i]) \subseteq Range(FlattenSeq(s))
  <1>1. Len(s) \in Nat /\ \A i \in 1..Len(s) : s[i] \in Seq(D)  BY LenProperties, ElementOfSeq
  <1>2. CASE Len(s) = 0
    <2>1. s = <<>> /\ FlattenSeq(s) = s  BY <1>2, EmptySeq DEF FlattenSeq
    <2>2. <<>> \in Seq(D) /\ 1..Len(s) = {} /\ 1..Len(<<>>) = {}  BY <1>2, EmptySeq
    <2>3. ChildrenFirst(k, <<>>)  BY <2>2 DEF ChildrenFirst
    <2> QED  BY <2>1, <2>2, <2>3
  <1>3. CASE Len(s) # 0
    <2>1. PICK f : FlatRun(f, s, Len(s)) /\ FlattenSeq(s) = f[Len(s)]  BY <1>1, <1>3, FlattenRun
    <2> DEFINE Fine(i) == /\ f[i] \in Seq(D) /\ ChildrenFirst(k, f[i])
                          /\ \A x \in 1..i : Range(s[x]) \subseteq Range(f[i])
               S == {i \in Nat : i # 0 => Fine(i)}
    <2>2. 0 \in S  OBVIOUS
    <2>3. ASSUME NEW i \in 1..Len(s), i - 1 \in S  PROVE i \in S
      <3>1. i \in Nat  BY <1>1
      <3>2. f[i] = IF i = 1 THEN s[i] ELSE f[i - 1] \o s[i]  BY <2>1 DEF FlatRun
      <3>3. CASE i = 1
        <4>1. f[i] = s[i] /\ \A x \in 1..i : x = i  BY <3>2, <3>3
        <4>2. Fine(i)  BY <4>1, <1>1
        <4> QED  BY <4>2, <3>1
      <3>4. CASE i # 1
        <4>1. i - 1 # 0  BY <3>4
        <4>2. Fine(i - 1)  BY <4>1, <2>3
        <4>3. f[i] = f[i - 1] \o s[i]  BY <3>2, <3>4
        <4>4. s[i] \in Seq(D) /\ ChildrenFirst(k, s[i])  BY <1>1
        <4>5. /\ f[i - 1] \o s[i] \in Seq(D) /\ ChildrenFirst(k, f[i - 1] \o s[i])
              /\ Range(f[i - 1]) \subseteq Range(f[i - 1] \o s[i])
              /\ Range(s[i]) \subseteq Range(f[i - 1] \o s[i])
          BY <4>2, <4>4, ConcatChildrenFirst
        <4>6. \A x \in 1..i : x = i \/ x \in 1..(i - 1)  BY <3>1
        <4>7. Fine(i)  BY <4>2, <4>3, <4>5, <4>6
        <4> QED  BY <4>7, <3>1
      <3> QED  BY <3>3, <3>4
    <2> HIDE DEF S
    <2>4. 0..Len(s) \subseteq S  BY <2>2, <2>3, <1>1, Climb
    <2>5. Len(s) \in S  BY <2>4, <1>1
    <2> QED  BY <2>1, <2>5, <1>3 DEF S
  <1> QED  BY <1>2, <1>3

LEMMA AppendChildrenFirst ==
    ASSUME NEW k, NEW D, NEW q \in Seq(D), ChildrenFirst(k, q), NEW n \in D,
           Range(k.nodes[n].children) \subseteq Range(q)
    PROVE  /\ Append(q, n) \in Seq(D)
           /\ ChildrenFirst(k, Append(q, n))
           /\ n \in Range(Append(q, n))
  <1> DEFINE a == Append(q, n)
  <1>1. /\ a \in Seq(D) /\ Len(a) = Len(q) + 1 /\ DOMAIN a = 1..(Len(q) + 1)
        /\ DOMAIN q = 1..Len(q) /\ Len(q) \in Nat
        /\ a[Len(q) + 1] = n /\ \A i \in 1..Len(q) : a[i] = q[i]
    BY AppendProperties, LenProperties
  <1> HIDE DEF a
  <1>2. n \in Range(a)  BY <1>1 DEF Range
  <1>3. ASSUME NEW i \in 1..Len(a), NEW c \in Range(k.nodes[a[i]].children)
        PROVE  \E x \in 1..(i - 1) : a[x] = c
    <2>1. CASE i \in 1..Len(q)
      <3>1. PICK x \in 1..(i - 1) : q[x] = c  BY <2>1, <1>1, <1>3 DEF ChildrenFirst
      <3>2. x \in 1..Len(q)  BY <2>1, <1>1
      <3> QED  BY <3>1, <3>2, <1>1
    <2>2. CASE i = Len(q) + 1
      <3>1. c \in Range(q)  BY <2>2, <1>1, <1>3
      <3>2. PICK x \in 1..Len(q) : q[x] = c  BY <3>1, <1>1 DEF Range
      <3>3. 1..(i - 1) = 1..Len(q)  BY <2>2, <1>1
      <3> QED  BY <3>2, <3>3, <1>1
    <2>3. i \in 1..Len(q) \/ i = Len(q) + 1  BY <1>1
    <2> QED  BY <2>1, <2>2, <2>3
  <1> QED  BY <1>1, <1>2, <1>3 DEF ChildrenFirst, a

(* The children of a node, last one first.                                 *)
LastFirst(k, n) == Reverse(Arguments(k.nodes[n]))

(* What a depth-first search of n leaves, given what it leaves in f.       *)
Visit(k, f, n) ==
    Append(FlattenSeq([i \in DOMAIN LastFirst(k, n) |-> f[LastFirst(k, n)[i]]]), n)

Descends(k) ==
    \A n \in DOMAIN k.nodes :
        /\ LastFirst(k, n) \in Seq(DOMAIN k.nodes)
        /\ \A i \in DOMAIN LastFirst(k, n) : LastFirst(k, n)[i] \in 1..(n - 1)
        /\ Range(LastFirst(k, n)) = Range(k.nodes[n].children)

LEMMA ReverseRange ==
    ASSUME NEW D, NEW q \in Seq(D)
    PROVE  Reverse(q) \in Seq(D) /\ Range(Reverse(q)) = Range(q)
  <1> DEFINE r == Reverse(q)
  <1>1. Len(q) \in Nat /\ DOMAIN q = 1..Len(q)  BY LenProperties
  <1>2. \A i \in 1..Len(q) : (Len(q) - i) + 1 \in 1..Len(q) /\ (Len(q) - ((Len(q) - i) + 1)) + 1 = i
    BY <1>1
  <1>3. r = [i \in 1..Len(q) |-> q[(Len(q) - i) + 1]]  BY DEF Reverse
  <1>4. \A i \in 1..Len(q) : r[i] = q[(Len(q) - i) + 1] /\ r[i] \in D  BY <1>2, <1>3, ElementOfSeq
  <1>5. DOMAIN r = 1..Len(q)  BY <1>3
  <1>6. r \in Seq(D)
    <2>1. r \in [1..Len(q) -> D]  BY <1>3, <1>4
    <2> QED  BY <2>1, <1>1
  <1> HIDE DEF r
  <1>7. Range(r) \subseteq Range(q)  BY <1>1, <1>2, <1>4, <1>5 DEF Range
  <1>8. ASSUME NEW c \in Range(q)  PROVE c \in Range(r)
    <2>1. PICK i \in 1..Len(q) : q[i] = c  BY <1>1 DEF Range
    <2>2. (Len(q) - i) + 1 \in 1..Len(q) /\ r[(Len(q) - i) + 1] = q[i]
      <3>1. (Len(q) - i) + 1 \in 1..Len(q)  BY <1>2
      <3>2. r[(Len(q) - i) + 1] = q[(Len(q) - ((Len(q) - i) + 1)) + 1]  BY <3>1, <1>4
      <3> QED  BY <3>1, <3>2, <1>2
    <2> QED  BY <2>1, <2>2, <1>5 DEF Range
  <1> QED  BY <1>6, <1>7, <1>8 DEF r

LEMMA DescendsOK ==
    ASSUME NEW k, ManagerOK(k), TreeOK(k), "PARAMETERIZED" \notin Kinds,
           \A n \in Live(k) : Range(k.nodes[n].children) \subseteq Live(k)
    PROVE  Descends(k)
  <1> SUFFICES ASSUME NEW n \in DOMAIN k.nodes
               PROVE  /\ LastFirst(k, n) \in Seq(DOMAIN k.nodes)
                      /\ \A i \in DOMAIN LastFirst(k, n) : LastFirst(k, n)[i] \in 1..(n - 1)
                      /\ Range(LastFirst(k, n)) = Range(k.nodes[n].children)
    BY DEF Descends
  <1> DEFINE q == k.nodes[n].children
  <1>1. k.nodes[n] \in NodeValue /\ n \in Nat  BY LiveNode
  <1>2. k.nodes[n].kind # "PARAMETERIZED"  BY <1>1 DEF NodeValue, Freed
  <1>3. LastFirst(k, n) = Reverse(q)  BY <1>2 DEF LastFirst, Arguments
  <1>4. q \in Seq(Id)
    <2>1. CASE k.nodes[n] = Freed
      <3>1. q = <<>>  BY <2>1 DEF Freed
      <3> QED  BY <3>1, EmptySeq
    <2>2. CASE k.nodes[n] # Freed  BY <2>2, <1>1 DEF NodeValue
    <2> QED  BY <2>1, <2>2
  <1>5. \A c \in Range(q) : c \in DOMAIN k.nodes /\ c \in 1..(n - 1)
    <2>1. CASE n \in Live(k)
      <3>1. \A i \in DOMAIN q : q[i] < n  BY <2>1 DEF TreeOK
      <3>2. Range(q) \subseteq Live(k) /\ Live(k) \subseteq DOMAIN k.nodes
            /\ DOMAIN k.nodes \subseteq 1..Len(k.nodes) /\ Len(k.nodes) \in Nat
        BY <2>1, LiveNode
      <3> HIDE DEF q
      <3>3. \A c \in Range(q) : c < n /\ c \in DOMAIN k.nodes  BY <3>1, <3>2 DEF Range
      <3> QED  BY <3>2, <3>3, <1>1
    <2>2. CASE n \notin Live(k)
      <3>1. q = <<>>  BY <2>2 DEF Live, Freed
      <3> QED  BY <3>1 DEF Range
    <2> QED  BY <2>1, <2>2
  <1> HIDE DEF q
  <1>6. q \in Seq(DOMAIN k.nodes)
    <2>1. Len(q) \in Nat /\ DOMAIN q = 1..Len(q) /\ q = [i \in 1..Len(q) |-> q[i]]
      BY <1>4, LenProperties
    <2>2. \A i \in 1..Len(q) : q[i] \in DOMAIN k.nodes  BY <2>1, <1>5 DEF Range
    <2>3. q \in [1..Len(q) -> DOMAIN k.nodes]  BY <2>1, <2>2
    <2> QED  BY <2>1, <2>3
  <1>7. Reverse(q) \in Seq(DOMAIN k.nodes) /\ Range(Reverse(q)) = Range(q)
    BY <1>6, ReverseRange
  <1>8. \A i \in DOMAIN Reverse(q) : Reverse(q)[i] \in 1..(n - 1)
    <2>1. \A i \in DOMAIN Reverse(q) : Reverse(q)[i] \in Range(Reverse(q))  BY DEF Range
    <2> QED  BY <2>1, <1>5, <1>7
  <1> QED  BY <1>3, <1>7, <1>8 DEF q

(* The function post of TopologicalSort.                                   *)
PostRun(k, f, n) == f = [x \in 1..n |-> Visit(k, f, x)]

LEMMA VisitSame ==
    ASSUME NEW k, Descends(k), NEW n \in DOMAIN k.nodes, NEW f, NEW g,
           \A x \in 1..(n - 1) : f[x] = g[x]
    PROVE  Visit(k, f, n) = Visit(k, g, n)
  <1> DEFINE q == LastFirst(k, n)
  <1>1. \A i \in DOMAIN q : q[i] \in 1..(n - 1)  BY DEF Descends
  <1>2. [i \in DOMAIN q |-> f[q[i]]] = [i \in DOMAIN q |-> g[q[i]]]  BY <1>1
  <1> QED  BY <1>2 DEF Visit

LEMMA PostRunExists ==
    ASSUME NEW k, ManagerOK(k), Descends(k)
    PROVE  \E f : PostRun(k, f, Len(k.nodes))
  <1> DEFINE S == {i \in Nat : \E f : PostRun(k, f, i)}
             N == Len(k.nodes)
  <1>0. N \in Nat /\ DOMAIN k.nodes = 1..N  BY LiveNode
  <1> HIDE DEF N
  <1>1. 0 \in S
    <2> DEFINE f == [i \in 1..0 |-> 0]
    <2>1. f = [x \in 1..0 |-> Visit(k, f, x)]  OBVIOUS
    <2>2. PostRun(k, f, 0)  BY <2>1 DEF PostRun
    <2> QED  BY <2>2
  <1>2. ASSUME NEW i \in 1..N, i - 1 \in S  PROVE i \in S
    <2>1. i \in Nat /\ i - 1 \in Nat  BY <1>0
    <2>2. PICK f : PostRun(k, f, i - 1)  BY <1>2
    <2> DEFINE last == Visit(k, f, i)
               g == [x \in 1..i |-> IF x = i THEN last ELSE f[x]]
               h == [x \in 1..i |-> Visit(k, g, x)]
    <2> HIDE DEF last
    <2>3. ASSUME NEW x \in 1..i  PROVE g[x] = h[x]
      <3>1. \A y \in 1..(x - 1) : y \in 1..i /\ y # i /\ f[y] = g[y]  BY <2>1
      <3>2. x \in DOMAIN k.nodes  BY <1>0, <2>1
      <3>3. h[x] = Visit(k, g, x)  OBVIOUS
      <3>4. g[x] = IF x = i THEN last ELSE f[x]  OBVIOUS
      <3> HIDE DEF g, h
      <3>5. Visit(k, f, x) = Visit(k, g, x)  BY <3>1, <3>2, VisitSame
      <3>6. CASE x = i  BY <3>6, <3>3, <3>4, <3>5 DEF last
      <3>7. CASE x # i
        <4>1. x \in 1..(i - 1)  BY <3>7, <2>1
        <4>2. f[x] = Visit(k, f, x)  BY <4>1, <2>2 DEF PostRun
        <4> QED  BY <4>2, <3>3, <3>4, <3>5, <3>7
      <3> QED  BY <3>6, <3>7
    <2>4. g = h  BY <2>3
    <2>5. PostRun(k, g, i)  BY <2>4 DEF PostRun
    <2> HIDE DEF g
    <2> QED  BY <2>1, <2>5
  <1> HIDE DEF S
  <1>3. 0..N \subseteq S  BY <1>0, <1>1, <1>2, Climb
  <1>4. N \in S  BY <1>0, <1>3
  <1> QED  BY <1>4 DEF S, N

(* A search leaves a node after its children.                              *)
LEMMA PostOK ==
    ASSUME NEW k, ManagerOK(k), Descends(k), NEW f, PostRun(k, f, Len(k.nodes)),
           NEW n \in DOMAIN k.nodes
    PROVE  /\ f[n] \in Seq(DOMAIN k.nodes)
           /\ ChildrenFirst(k, f[n])
           /\ n \in Range(f[n])
  <1> DEFINE N == Len(k.nodes)
             D == DOMAIN k.nodes
             Fine(i) == f[i] \in Seq(D) /\ ChildrenFirst(k, f[i]) /\ i \in Range(f[i])
             S == {i \in Nat : \A x \in 1..i : Fine(x)}
  <1>0. N \in Nat /\ D = 1..N  BY LiveNode
  <1>1. 0 \in S  OBVIOUS
  <1>2. ASSUME NEW i \in 1..N, i - 1 \in S  PROVE i \in S
    <2> DEFINE q == LastFirst(k, i)
               s == [x \in DOMAIN q |-> f[q[x]]]
    <2>1. i \in Nat /\ i \in D /\ \A x \in 1..(i - 1) : Fine(x)  BY <1>0, <1>2
    <2>2. /\ q \in Seq(D) /\ (\A x \in DOMAIN q : q[x] \in 1..(i - 1))
          /\ Range(q) = Range(k.nodes[i].children)
      BY <2>1 DEF Descends
    <2>3. f[i] = Append(FlattenSeq(s), i)
      <3>1. f[i] = Visit(k, f, i)  BY DEF PostRun
      <3> QED  BY <3>1 DEF Visit
    <2> HIDE DEF q, Fine
    <2>4. Len(q) \in Nat /\ DOMAIN q = 1..Len(q)  BY <2>2, LenProperties
    <2>5. \A x \in 1..Len(q) : s[x] = f[q[x]] /\ Fine(q[x])  BY <2>1, <2>2, <2>4
    <2>6. s \in Seq(Seq(D)) /\ Len(s) = Len(q)
      <3>1. s = [x \in 1..Len(q) |-> f[q[x]]]  BY <2>4
      <3>2. s \in [1..Len(q) -> Seq(D)]  BY <2>5, <3>1 DEF Fine
      <3>3. s \in Seq(Seq(D))  BY <3>2, <2>4
      <3> QED  BY <3>1, <3>3, <2>4, LenProperties
    <2> HIDE DEF s
    <2>7. \A x \in 1..Len(s) : ChildrenFirst(k, s[x])  BY <2>5, <2>6 DEF Fine
    <2>8. /\ FlattenSeq(s) \in Seq(D) /\ ChildrenFirst(k, FlattenSeq(s))
          /\ \A x \in 1..Len(s) : Range(s[x]) \subseteq Range(FlattenSeq(s))
      BY <2>6, <2>7, FlattenChildrenFirst
    <2>9. Range(k.nodes[i].children) \subseteq Range(FlattenSeq(s))
      <3> SUFFICES ASSUME NEW c \in Range(q)  PROVE c \in Range(FlattenSeq(s))  BY <2>2
      <3>1. PICK x \in 1..Len(q) : q[x] = c  BY <2>4 DEF Range
      <3>2. c \in Range(s[x])  BY <3>1, <2>5 DEF Fine
      <3> QED  BY <3>2, <2>6, <2>8
    <2>10. Fine(i)  BY <2>1, <2>3, <2>8, <2>9, AppendChildrenFirst DEF Fine
    <2>11. \A x \in 1..i : x = i \/ x \in 1..(i - 1)  BY <2>1
    <2>12. \A x \in 1..i : Fine(x)  BY <2>1, <2>10, <2>11
    <2> QED  BY <2>1, <2>12
  <1> HIDE DEF S, N
  <1>3. 0..N \subseteq S  BY <1>0, <1>1, <1>2, Climb
  <1>4. N \in S /\ n \in 1..N  BY <1>0, <1>3
  <1> QED  BY <1>4 DEF S

(* The function that FirstVisits is defined by.                            *)
NextFirst(v, w, roots) == IF Contains(roots, w) /\ ~Contains(v, w) THEN Append(v, w) ELSE v
FirstRun(f, q, roots, n) ==
    f = [i \in 0..n |-> IF i = 0 THEN <<>> ELSE NextFirst(f[i - 1], q[i], roots)]

LEMMA FirstRunExists ==
    ASSUME NEW q, NEW roots, NEW n \in Nat
    PROVE  \E f : FirstRun(f, q, roots, n)
  <1> DEFINE S == {i \in Nat : \E f : FirstRun(f, q, roots, i)}
  <1>1. 0 \in S
    <2> DEFINE f == [i \in 0..0 |-> <<>>]
    <2>1. f = [i \in 0..0 |-> IF i = 0 THEN <<>> ELSE NextFirst(f[i - 1], q[i], roots)]  OBVIOUS
    <2>2. FirstRun(f, q, roots, 0)  BY <2>1 DEF FirstRun
    <2> QED  BY <2>2
  <1>2. ASSUME NEW i \in 1..n, i - 1 \in S  PROVE i \in S
    <2>1. i \in Nat /\ i - 1 \in Nat  OBVIOUS
    <2>2. PICK f : FirstRun(f, q, roots, i - 1)  BY <1>2
    <2> DEFINE last == NextFirst(f[i - 1], q[i], roots)
               g == [x \in 0..i |-> IF x = i THEN last ELSE f[x]]
               h == [x \in 0..i |-> IF x = 0 THEN <<>> ELSE NextFirst(g[x - 1], q[x], roots)]
    <2> HIDE DEF last
    <2>3. ASSUME NEW x \in 0..i  PROVE g[x] = h[x]
      <3>1. CASE x = 0  BY <3>1, <2>1, <2>2 DEF FirstRun
      <3>2. CASE x # 0 /\ x # i
        <4>1. x \in 0..(i - 1) /\ x - 1 \in 0..i /\ x - 1 # i  BY <3>2, <2>1
        <4>2. f[x] = NextFirst(f[x - 1], q[x], roots)  BY <4>1, <3>2, <2>2 DEF FirstRun
        <4>3. g[x - 1] = f[x - 1] /\ g[x] = f[x]  BY <4>1, <3>2
        <4> QED  BY <4>2, <4>3, <3>2
      <3>3. CASE x = i
        <4>1. x # 0 /\ x - 1 \in 0..i /\ x - 1 # i  BY <3>3, <2>1
        <4>2. g[x - 1] = f[x - 1] /\ g[x] = last  BY <4>1, <3>3
        <4> QED  BY <4>1, <4>2, <3>3 DEF last
      <3> QED  BY <3>1, <3>2, <3>3
    <2>4. g = h  BY <2>3
    <2>5. FirstRun(g, q, roots, i)  BY <2>4 DEF FirstRun
    <2> HIDE DEF g
    <2> QED  BY <2>1, <2>5
  <1> HIDE DEF S
  <1>3. 0..n \subseteq S  BY <1>1, <1>2, Climb
  <1>4. n \in S  BY <1>3
  <1> QED  BY <1>4 DEF S

LEMMA FirstVisitsRun ==
    ASSUME NEW q, NEW roots, Len(q) \in Nat
    PROVE  \E f : FirstRun(f, q, roots, Len(q)) /\ FirstVisits(q, roots) = f[Len(q)]
  <1> DEFINE F(g) == [i \in 0..Len(q) |->
                         IF i = 0 THEN <<>>
                         ELSE IF Contains(roots, q[i]) /\ ~Contains(g[i - 1], q[i])
                         THEN Append(g[i - 1], q[i]) ELSE g[i - 1]]
             h == CHOOSE g : g = F(g)
  <1>1. PICK f : FirstRun(f, q, roots, Len(q))  BY FirstRunExists
  <1>2. f = F(f)  BY <1>1 DEF FirstRun, NextFirst
  <1>3. h = F(h)  BY <1>2
  <1>4. FirstVisits(q, roots) = h[Len(q)]  BY DEF FirstVisits
  <1> HIDE DEF h
  <1>5. FirstRun(h, q, roots, Len(q))  BY <1>3 DEF FirstRun, NextFirst
  <1> QED  BY <1>4, <1>5

LEMMA ContainsRange ==
    ASSUME NEW D, NEW q \in Seq(D), NEW w
    PROVE  Contains(q, w) <=> w \in Range(q)
  <1>1. DOMAIN q = 1..Len(q)  BY LenProperties
  <1> QED  BY <1>1 DEF Contains, Range

(* What was visited before contains all children of its nodes, so each     *)
(* node is told from the ones before it by a set closed under children.    *)
LEMMA FirstVisitsOK ==
    ASSUME NEW k, NEW D, D \subseteq Id, NEW q \in Seq(D), ChildrenFirst(k, q), NEW roots \in Seq(D)
    PROVE  /\ FirstVisits(q, roots) \in Seq(D)
           /\ IsInjective(FirstVisits(q, roots))
           /\ Range(FirstVisits(q, roots)) = Range(q) \cap Range(roots)
           /\ OrderOK(k, FirstVisits(q, roots))
  <1> DEFINE n == Len(q)
             seen(i) == {q[x] : x \in 1..i}
             Fine(v, i) == /\ v \in Seq(D) /\ IsInjective(v)
                           /\ Range(v) = seen(i) \cap Range(roots)
                           /\ OrderOK(k, v)
  <1>1. n \in Nat /\ DOMAIN q = 1..n /\ \A i \in 1..n : q[i] \in D  BY LenProperties, ElementOfSeq
  <1>2. PICK f : FirstRun(f, q, roots, n) /\ FirstVisits(q, roots) = f[n]
    BY <1>1, FirstVisitsRun
  <1>3. Range(q) = seen(n)  BY <1>1 DEF Range
  <1> DEFINE S == {i \in Nat : Fine(f[i], i)}
  <1>4. 0 \in S
    <2>1. f[0] = <<>>  BY <1>1, <1>2 DEF FirstRun
    <2>2. seen(0) = {} /\ DOMAIN <<>> = {} /\ <<>> \in Seq(D)  BY EmptySeq
    <2>3. Range(<<>>) = {} /\ IsInjective(<<>>) /\ OrderOK(k, <<>>)
      BY <2>2 DEF Range, IsInjective, OrderOK
    <2> QED  BY <2>1, <2>2, <2>3
  <1>5. ASSUME NEW i \in 1..n, i - 1 \in S  PROVE i \in S
    <2> DEFINE v == f[i - 1]
               w == q[i]
               C == seen(i - 1)
    <2>1. i \in Nat /\ i # 0 /\ i \in 0..n  BY <1>1
    <2>2. Fine(v, i - 1)  BY <1>5
    <2>3. f[i] = NextFirst(v, w, roots)  BY <2>1, <1>2 DEF FirstRun
    <2>4. w \in D  BY <1>1
    <2>5. seen(i) = C \cup {w}
      <3>1. \A x \in 1..i : x = i \/ x \in 1..(i - 1)  BY <2>1
      <3>2. i \in 1..i /\ 1..(i - 1) \subseteq 1..i  BY <2>1
      <3> QED  BY <3>1, <3>2
    <2>6. C \subseteq Id
      <3>1. \A x \in 1..(i - 1) : x \in 1..n  BY <1>1
      <3> QED  BY <3>1, <1>1
    <2>7. ClosedUnder(C, k)
      <3> SUFFICES ASSUME NEW y \in C, NEW c \in Range(k.nodes[y].children)  PROVE c \in C
        BY DEF ClosedUnder
      <3>1. PICK x \in 1..(i - 1) : q[x] = y  OBVIOUS
      <3>2. x \in 1..Len(q)  BY <1>1
      <3>3. PICK z \in 1..(x - 1) : q[z] = c  BY <3>1, <3>2 DEF ChildrenFirst
      <3>4. z \in 1..(i - 1)  BY <2>1
      <3> QED  BY <3>3, <3>4
    <2>8. Contains(roots, w) <=> w \in Range(roots)  BY ContainsRange
    <2>9. Contains(v, w) <=> w \in Range(v)  BY <2>2, ContainsRange
    <2> HIDE DEF C, seen
    <2>10. CASE ~(w \in Range(roots) /\ w \notin Range(v))
      <3>1. f[i] = v  BY <2>3, <2>8, <2>9, <2>10 DEF NextFirst
      <3>2. Range(v) = seen(i) \cap Range(roots)  BY <2>2, <2>5, <2>10 DEF C
      <3> HIDE DEF v, w
      <3>3. Fine(f[i], i)  BY <3>1, <3>2, <2>2
      <3> QED  BY <2>1, <3>3
    <2>11. CASE w \in Range(roots) /\ w \notin Range(v)
      <3> DEFINE a == Append(v, w)
      <3>1. f[i] = a  BY <2>3, <2>8, <2>9, <2>11 DEF NextFirst
      <3>2. w \notin C  BY <2>2, <2>11 DEF C
      <3> HIDE DEF v, w
      <3>3. /\ a \in Seq(D) /\ Len(a) = Len(v) + 1 /\ DOMAIN a = 1..(Len(v) + 1)
            /\ DOMAIN v = 1..Len(v) /\ Len(v) \in Nat
            /\ a[Len(v) + 1] = w /\ \A x \in 1..Len(v) : a[x] = v[x]
        BY <2>2, <2>4, AppendProperties, LenProperties
      <3>4. Range(a) = Range(v) \cup {w} /\ IsInjective(a)  BY <2>2, <2>4, <2>11, AppendRange
      <3> HIDE DEF a
      <3>5. Range(a) = seen(i) \cap Range(roots)  BY <2>2, <2>5, <2>11, <3>4 DEF C
      <3>6. OrderOK(k, a)
        <4> SUFFICES ASSUME NEW p \in DOMAIN a
                     PROVE  \E E \in SUBSET Id : /\ ClosedUnder(E, k)
                                                 /\ \A x \in 1..(p - 1) : a[x] \in E
                                                 /\ a[p] \notin E
          BY DEF OrderOK
        <4>1. CASE p \in 1..Len(v)
          <5>1. PICK E \in SUBSET Id : /\ ClosedUnder(E, k)
                                       /\ \A x \in 1..(p - 1) : v[x] \in E
                                       /\ v[p] \notin E
            BY <4>1, <2>2, <3>3 DEF OrderOK
          <5>2. \A x \in 1..(p - 1) : x \in 1..Len(v)  BY <4>1, <3>3
          <5> QED  BY <4>1, <5>1, <5>2, <3>3
        <4>2. CASE p = Len(v) + 1
          <5>1. 1..(p - 1) = 1..Len(v) /\ a[p] = w  BY <4>2, <3>3
          <5>2. \A x \in 1..Len(v) : a[x] \in C
            <6>1. \A x \in 1..Len(v) : v[x] \in Range(v)  BY <3>3 DEF Range
            <6> QED  BY <6>1, <2>2, <3>3 DEF C
          <5> QED  BY <5>1, <5>2, <2>6, <2>7, <3>2
        <4>3. p \in 1..Len(v) \/ p = Len(v) + 1  BY <3>3
        <4> QED  BY <4>1, <4>2, <4>3
      <3>7. Fine(f[i], i)  BY <3>1, <3>3, <3>4, <3>5, <3>6
      <3> QED  BY <2>1, <3>7
    <2> QED  BY <2>10, <2>11
  <1> HIDE DEF S, n
  <1>6. 0..n \subseteq S  BY <1>1, <1>4, <1>5, Climb
  <1>7. n \in S  BY <1>1, <1>6
  <1> QED  BY <1>2, <1>3, <1>7 DEF S

LEMMA SortOK ==
    ASSUME NEW k, ManagerOK(k), Descends(k), NEW roots \in Seq(DOMAIN k.nodes)
    PROVE  /\ TopologicalSort(k, roots) \in Seq(Id)
           /\ IsInjective(TopologicalSort(k, roots))
           /\ Range(TopologicalSort(k, roots)) = Range(roots)
           /\ OrderOK(k, TopologicalSort(k, roots))
  <1> DEFINE D == DOMAIN k.nodes
             F(g) == [n \in D |-> Append(FlattenSeq([i \in DOMAIN Reverse(Arguments(k.nodes[n])) |->
                                     g[Reverse(Arguments(k.nodes[n]))[i]]]), n)]
             post == CHOOSE g : g = F(g)
             s == [i \in DOMAIN roots |-> post[roots[i]]]
             q == FlattenSeq(s)
  <1>1. D = 1..Len(k.nodes) /\ D \subseteq Id  BY LiveNode
  <1>2. PICK f : PostRun(k, f, Len(k.nodes))  BY PostRunExists
  <1>3. f = F(f)  BY <1>1, <1>2 DEF PostRun, Visit, LastFirst
  <1>4. post = F(post)  BY <1>3
  <1>5. TopologicalSort(k, roots) = FirstVisits(q, roots)  BY DEF TopologicalSort
  <1>6. PostRun(k, post, Len(k.nodes))
    <2> HIDE DEF post
    <2> QED  BY <1>1, <1>4 DEF PostRun, Visit, LastFirst
  <1> HIDE DEF post
  <1>7. ASSUME NEW n \in D
        PROVE  post[n] \in Seq(D) /\ ChildrenFirst(k, post[n]) /\ n \in Range(post[n])
    BY <1>6, PostOK
  <1>8. Len(roots) \in Nat /\ DOMAIN roots = 1..Len(roots) /\ \A i \in 1..Len(roots) : roots[i] \in D
    BY LenProperties, ElementOfSeq
  <1>9. s \in Seq(Seq(D)) /\ Len(s) = Len(roots)
    <2>1. s = [i \in 1..Len(roots) |-> post[roots[i]]]  BY <1>8
    <2>2. s \in [1..Len(roots) -> Seq(D)]  BY <2>1, <1>7, <1>8
    <2>3. s \in Seq(Seq(D))  BY <2>2, <1>8
    <2> QED  BY <2>1, <2>3, <1>8, LenProperties
  <1>10. \A i \in 1..Len(roots) : s[i] = post[roots[i]]  BY <1>8
  <1> HIDE DEF s
  <1>11. \A i \in 1..Len(s) : ChildrenFirst(k, s[i])  BY <1>7, <1>8, <1>9, <1>10
  <1>12. /\ q \in Seq(D) /\ ChildrenFirst(k, q)
         /\ \A i \in 1..Len(s) : Range(s[i]) \subseteq Range(q)
    BY <1>9, <1>11, FlattenChildrenFirst
  <1> HIDE DEF q
  <1>13. Range(roots) \subseteq Range(q)
    <2> SUFFICES ASSUME NEW i \in 1..Len(roots)  PROVE roots[i] \in Range(q)
      BY <1>8 DEF Range
    <2>1. roots[i] \in Range(s[i])  BY <1>7, <1>8, <1>10
    <2> QED  BY <2>1, <1>9, <1>12
  <1> DEFINE t == FirstVisits(q, roots)
  <1>14. /\ t \in Seq(D) /\ IsInjective(t)
         /\ Range(t) = Range(q) \cap Range(roots) /\ OrderOK(k, t)
    <2>1. roots \in Seq(D) /\ q \in Seq(D) /\ D \subseteq Id /\ ChildrenFirst(k, q)  BY <1>1, <1>12
    <2> HIDE DEF D
    <2>2. /\ FirstVisits(q, roots) \in Seq(D)
          /\ IsInjective(FirstVisits(q, roots))
          /\ Range(FirstVisits(q, roots)) = Range(q) \cap Range(roots)
          /\ OrderOK(k, FirstVisits(q, roots))
      BY ONLY <2>1, FirstVisitsOK
    <2> QED  BY <2>2
  <1> HIDE DEF t
  <1>15. t \in Seq(Id)
    <2>1. Len(t) \in Nat /\ t \in [1..Len(t) -> D]  BY <1>14, LenProperties
    <2>2. t \in [1..Len(t) -> Id]  BY <2>1, <1>1
    <2> QED  BY <2>1, <2>2
  <1> QED  BY <1>5, <1>13, <1>14, <1>15 DEF t

(* ~NodeManager, until its loop.                                           *)
WithoutMaxed(d) == [d EXCEPT !.maxedOut = <<>>]

LEMMA DestroyOK ==
    ASSUME NEW k, NEW hd, Core(k, hd, <<>>, <<>>), MaxedOK(k, <<>>), ~k.reclaiming,
           HeldBy(hd) = {}, "PARAMETERIZED" \notin Kinds
    PROVE  /\ Core(WithoutMaxed(deleteAllAttributes(k)), hd, <<>>, <<>>)
           /\ MaxedOK(WithoutMaxed(deleteAllAttributes(k)), TopologicalSort(k, k.maxedOut))
           /\ WithoutMaxed(deleteAllAttributes(k)).maxedOut = <<>>
           /\ Gone(WithoutMaxed(deleteAllAttributes(k)), hd, <<>>, <<>>)
           /\ TopologicalSort(k, k.maxedOut) \in Seq(Id)
           /\ OrderOK(WithoutMaxed(deleteAllAttributes(k)), TopologicalSort(k, k.maxedOut))
  <1> DEFINE d == deleteAllAttributes(k)
             j == WithoutMaxed(d)
             t == TopologicalSort(k, k.maxedOut)
             R == RefCount(d, hd, <<>>, <<>>)
  <1>1. Typed(k, hd, <<>>, <<>>) /\ ManagerOK(k) /\ TreeOK(k) /\ ReferredLive(k, RefCount(k, hd, <<>>, <<>>))
    BY DEF Core, Typed
  <1>2. \A n \in Live(k) : Range(k.nodes[n].children) \subseteq Live(k)  BY <1>1, RefLive
  <1>3. Descends(k)  BY <1>1, <1>2, DescendsOK
  <1>4. Range(k.maxedOut) = Maxed(k) /\ k.maxedOut \in Seq(Id)
    <2>1. Range(<<>>) = {}  BY DEF Range
    <2> QED  BY <2>1, <1>1 DEF MaxedOK, ManagerOK, Manager
  <1>5. k.maxedOut \in Seq(DOMAIN k.nodes)
    <2> DEFINE q == k.maxedOut
    <2>1. Maxed(k) \subseteq DOMAIN k.nodes  BY DEF Maxed, Live
    <2>2. q \in Seq(Id) /\ Range(q) \subseteq DOMAIN k.nodes  BY <2>1, <1>4
    <2> HIDE DEF q
    <2>3. Len(q) \in Nat /\ DOMAIN q = 1..Len(q) /\ q = [i \in 1..Len(q) |-> q[i]]
      BY <2>2, LenProperties
    <2>4. \A i \in 1..Len(q) : q[i] \in DOMAIN k.nodes  BY <2>2, <2>3 DEF Range
    <2>5. q \in [1..Len(q) -> DOMAIN k.nodes]  BY <2>3, <2>4
    <2>6. q \in Seq(DOMAIN k.nodes)  BY <2>3, <2>5
    <2> QED  BY <2>6 DEF q
  <1>6. t \in Seq(Id) /\ IsInjective(t) /\ Range(t) = Range(k.maxedOut) /\ OrderOK(k, t)
    BY <1>1, <1>3, <1>5, SortOK
  <1> HIDE DEF t
  <1>7. /\ Core(d, hd, <<>>, <<>>) /\ MaxedOK(d, <<>>) /\ Frame(k, d) /\ NoAttributes(d)
        /\ d.maxedOut = k.maxedOut
    BY DeleteOK
  <1> HIDE DEF d
  <1>8. /\ Typed(d, hd, <<>>, <<>>) /\ ManagerOK(d) /\ CountsOK(d, R, PutsOf(<<>>)) /\ ReferredLive(d, R)
    BY <1>7 DEF Core, Typed
  <1>9. d \in Manager  BY <1>8 DEF ManagerOK
  <1>10. /\ j \in Manager /\ j.nodes = d.nodes /\ j.pool = d.pool /\ j.zombies = d.zombies
         /\ j.maxedOut = <<>> /\ j.attr = d.attr /\ j.collecting = d.collecting
         /\ j.reclaiming = d.reclaiming /\ j.batch = d.batch
    <2>1. <<>> \in Seq(Id)  BY EmptySeq
    <2> QED  BY <2>1, <1>9 DEF Manager, WithoutMaxed
  <1> HIDE DEF j
  <1>11. ManagerOK(j)  BY <1>8, <1>10 DEF ManagerOK
  <1>12. Live(j) = Live(d) /\ Maxed(j) = Maxed(d) /\ Frame(d, j) /\ Typed(j, hd, <<>>, <<>>)
    BY <1>8, <1>10, <1>11 DEF Live, Maxed, Frame, Typed
  <1>13. CountsOK(j, R, PutsOf(<<>>))  BY <1>8, <1>10, <1>12 DEF CountsOK
  <1>14. ASSUME NEW x \in Id  PROVE R[x] = RefCount(j, hd, <<>>, <<>>)[x]
    <2>1. ChildSites(j, x) = ChildSites(d, x)  BY <1>12, FrameKeeps
    <2> QED  BY <2>1, <1>10 DEF RefCount
  <1>15. AttrLive(j) /\ j.collecting = FALSE  BY <1>7, <1>10, <1>12 DEF AttrLive, Core
  <1>16. Core(j, hd, <<>>, <<>>)
    <2> HIDE DEF R
    <2>1. \A x \in Id : R[x] # 0 => x \in Live(d)  BY <1>8 DEF ReferredLive
    <2> QED  BY <2>1, <1>7, <1>12, <1>13, <1>14, <1>15, CoreStep
  <1>17. MaxedOK(j, t)
    <2>1. Range(<<>>) = {} /\ IsInjective(<<>>)  BY DEF Range, IsInjective
    <2>2. Range(d.maxedOut) = Maxed(d)  BY <2>1, <1>7 DEF MaxedOK
    <2> QED  BY <2>1, <2>2, <1>6, <1>7, <1>10, <1>12 DEF MaxedOK
  <1>18. Gone(j, hd, <<>>, <<>>)
    <2>1. \A h \in Handle : hd[h] = Null  BY DEF HeldBy
    <2> QED  BY <2>1, <1>7, <1>10 DEF Gone, NoAttributes
  <1>19. OrderOK(j, t)
    <2>1. Frame(k, j)  BY <1>7, <1>12, ShapeFrame
    <2>2. \A D : ClosedUnder(D, k) => ClosedUnder(D, j)  BY <2>1 DEF Frame, ClosedUnder
    <2> SUFFICES ASSUME NEW p \in DOMAIN t
                 PROVE  \E D \in SUBSET Id : /\ ClosedUnder(D, j)
                                             /\ \A i \in 1..(p - 1) : t[i] \in D
                                             /\ t[p] \notin D
      BY DEF OrderOK
    <2>3. PICK D \in SUBSET Id : /\ ClosedUnder(D, k)
                                 /\ \A i \in 1..(p - 1) : t[i] \in D
                                 /\ t[p] \notin D
      BY <1>6 DEF OrderOK
    <2> QED  BY <2>2, <2>3
  <1> QED  BY <1>6, <1>10, <1>16, <1>17, <1>18, <1>19 DEF j, d, t

-----------------------------------------------------------------------------
(* The inductive invariant.  In "run" it holds for all kinds of nodes.     *)

NInv ==
    /\ Core(m, handle, builder, todo)
    /\ TodoOK(m, handle, todo)
    /\ MaxedOK(m, order)
    /\ order \in Seq(Id)
    /\ pc \in {"run", "destroying", "destroyed"}
    /\ pc = "run" => order = <<>>
    /\ pc # "run" => /\ m.maxedOut = <<>>
                     /\ Gone(m, handle, builder, todo)
                     /\ OrderOK(m, order)
    /\ pc = "destroyed" => Live(m) = {} /\ ~m.reclaiming

LEMMA NInvInit ==
    ASSUME Init  PROVE NInv
  <1>1. /\ m.nodes = <<>> /\ m.pool = {} /\ m.zombies = {} /\ m.maxedOut = <<>> /\ m.attr = <<>>
        /\ m.collecting = FALSE /\ m.reclaiming = FALSE /\ m.batch = {}
        /\ handle = [h \in Handle |-> Null] /\ builder = <<>> /\ todo = <<>>
        /\ order = <<>> /\ pc = "run"
    BY DEF Init
  <1>2. \A S : <<>> \in Seq(S) /\ Len(<<>>) = 0 /\ DOMAIN <<>> = {}  BY EmptySeq
  <1>3. m \in Manager  BY <1>2 DEF Init, Manager
  <1>4. ManagerOK(m)  BY <1>1, <1>2, <1>3, CountsAssumption DEF ManagerOK
  <1>5. Live(m) = {}  BY <1>1, <1>2 DEF Live
  <1>6. Typed(m, handle, builder, todo)
    BY <1>1, <1>2, <1>4, CountsAssumption DEF Typed
  <1>7. TreeOK(m) /\ AttrLive(m) /\ UniqueIn(m)
    BY <1>1, <1>2, <1>5 DEF TreeOK, AttrLive, UniqueIn
  <1>8. CountsOK(m, RefCount(m, handle, builder, todo), PutsOf(todo))
    BY <1>1, <1>5 DEF CountsOK
  <1>9. ReferredLive(m, RefCount(m, handle, builder, todo))
    <2> SUFFICES ASSUME NEW n \in Id  PROVE RefCount(m, handle, builder, todo)[n] = 0
      BY DEF ReferredLive
    <2>1. RefCount(m, handle, builder, todo)[n]
            = Occurrences(handle, n) + Occurrences(builder, n) + Occurrences(m.attr, n)
              + Occurrences(todo, Dec(n)) + Cardinality(ChildSites(m, n))
      BY <1>6, RefParts
    <2>2. /\ Occurrences(builder, n) = 0 /\ Occurrences(m.attr, n) = 0
          /\ Occurrences(todo, Dec(n)) = 0
      BY <1>1, NothingTodo
    <2>3. Occurrences(handle, n) = 0
      <3>1. DOMAIN handle = Handle /\ Null \notin Id  BY <1>1, <1>4, LiveNode
      <3>2. IsFiniteSet(DOMAIN handle)  BY <3>1, HandlesFinite
      <3> QED  BY <3>1, <3>2, <1>1, OccType
    <2>4. ChildSites(m, n) = {}  BY <1>5 DEF ChildSites
    <2>5. Cardinality(ChildSites(m, n)) = 0  BY <2>4, FS_EmptySet
    <2> QED  BY <2>1, <2>2, <2>3, <2>5
  <1>10. Core(m, handle, builder, todo)  BY <1>1, <1>6, <1>7, <1>8, <1>9 DEF Core
  <1>11. MaxedOK(m, order)
    <2>1. Range(<<>>) = {} /\ IsInjective(<<>>)  BY DEF Range, IsInjective
    <2>2. Maxed(m) = {}  BY <1>5 DEF Maxed
    <2> QED  BY <2>1, <2>2, <1>1 DEF MaxedOK
  <1>12. TodoOK(m, handle, todo)  BY <1>1, NothingTodo
  <1> QED  BY <1>1, <1>2, <1>10, <1>11, <1>12 DEF NInv

(* The steps of the program, before ~NodeManager.                          *)
LEMMA RunStep ==
    ASSUME NInv, pc = "run", pc' = "run", UNCHANGED order,
           Running(m', handle', builder', todo')
    PROVE  NInv'
  <1>1. order = <<>> /\ order' = <<>> /\ <<>> \in Seq(Id)  BY EmptySeq DEF NInv
  <1> QED  BY <1>1 DEF NInv, Running

(* What holds when an operation of the program begins.                     *)
LEMMA AtReady ==
    ASSUME NInv, Ready
    PROVE  /\ Core(m, handle, builder, <<>>) /\ MaxedOK(m, <<>>)
           /\ pc = "run" /\ order = <<>> /\ todo = <<>> /\ ~m.reclaiming
           /\ Typed(m, handle, builder, <<>>) /\ ManagerOK(m) /\ Held = HeldBy(handle)
           /\ HeldBy(handle) \subseteq Live(m) /\ Live(m) \subseteq Id
           /\ Live(m) \subseteq DOMAIN m.attr
           /\ \A n \in DOMAIN m.attr : m.attr[n] \in Live(m) \cup {Null}
  <1>1. /\ Core(m, handle, builder, <<>>) /\ MaxedOK(m, <<>>)
        /\ pc = "run" /\ order = <<>> /\ todo = <<>> /\ ~m.reclaiming
    BY DEF NInv, Ready
  <1>2. /\ Typed(m, handle, builder, <<>>) /\ ManagerOK(m) /\ TreeOK(m)
        /\ ReferredLive(m, RefCount(m, handle, builder, <<>>))
    BY <1>1 DEF Core, Typed
  <1>3. Held = HeldBy(handle)  BY DEF Held, HeldBy
  <1>4. /\ HeldBy(handle) \subseteq Live(m)
        /\ \A n \in DOMAIN m.attr : m.attr[n] \in Live(m) \cup {Null}
    BY <1>2, RefLive
  <1>5. Live(m) \subseteq Id /\ Live(m) \subseteq DOMAIN m.attr  BY <1>2, LiveNode
  <1> QED  BY <1>1, <1>2, <1>3, <1>4, <1>5

LEMMA AssignStep ==
    ASSUME NInv, NEW h \in Handle, NEW n, Assign(h, n),
           n = Null \/ n \in Held \/ \E p \in Held : n \in Children(p)
    PROVE  NInv'
  <1>1. Ready /\ n # handle[h]  BY DEF Assign
  <1>2. /\ Core(m, handle, builder, <<>>) /\ MaxedOK(m, <<>>) /\ pc = "run"
        /\ Held = HeldBy(handle) /\ HeldBy(handle) \subseteq Live(m) /\ Live(m) \subseteq Id
        /\ ManagerOK(m)
    BY <1>1, AtReady
  <1>3. /\ m' = dec(m, handle[h]) /\ handle' = [handle EXCEPT ![h] = Null]
        /\ todo' = IF n = Null THEN <<>> ELSE <<PutTask(<<"handle", h>>, n)>>
        /\ builder' = builder /\ order' = order /\ pc' = pc
    BY DEF Assign
  <1>4. n = Null \/ n \in HeldBy(handle) \/ \E p \in HeldBy(handle) : n \in Range(m.nodes[p].children)
    BY <1>2 DEF Children
  <1>5. n \in Id \cup {Null}
    <2>1. ASSUME NEW p \in HeldBy(handle), n \in Range(m.nodes[p].children)  PROVE n \in Id
      <3>1. m.nodes[p].children \in Seq(Id)  BY <1>2, LiveNode DEF NodeRecord
      <3>2. DOMAIN m.nodes[p].children = 1..Len(m.nodes[p].children)  BY <3>1, LenProperties
      <3> QED  BY <2>1, <3>1, <3>2, ElementOfSeq DEF Range
    <2> QED  BY <2>1, <1>2, <1>4
  <1>6. /\ Core(dec(m, handle[h]), [handle EXCEPT ![h] = Null], builder, todo')
        /\ TodoOK(dec(m, handle[h]), [handle EXCEPT ![h] = Null], todo')
        /\ MaxedOK(dec(m, handle[h]), <<>>)
    BY <1>1, <1>2, <1>3, <1>4, <1>5, AssignOK
  <1>7. Running(m', handle', builder', todo')  BY <1>3, <1>6 DEF Running
  <1> QED  BY <1>2, <1>3, <1>7, RunStep

LEMMA GetAttributeStep ==
    ASSUME NInv, NEW h \in Handle, NEW n \in Held, GetAttribute(h, n)
    PROVE  NInv'
  <1>1. Ready /\ handle[h] = Null /\ m.attr[n] # Null  BY DEF GetAttribute
  <1>2. /\ Core(m, handle, builder, <<>>) /\ MaxedOK(m, <<>>) /\ pc = "run" /\ ~m.reclaiming
        /\ Held \subseteq DOMAIN m.attr /\ todo = <<>>
        /\ \A x \in DOMAIN m.attr : m.attr[x] \in Live(m) \cup {Null}
    BY <1>1, AtReady
  <1>3. m.attr[n] \in Live(m)  BY <1>1, <1>2
  <1>4. PutsOf(<<>>) \subseteq {m.attr[n]} /\ \A x : Occurrences(<<>>, Dec(x)) = 0
    BY NothingTodo
  <1> DEFINE v == m.attr[n]
  <1>5. Running(inc(m, v), [handle EXCEPT ![h] = v], builder, <<>>)
    <2> HIDE DEF v
    <2>1. v \in Live(m) /\ PutsOf(<<>>) \subseteq {v}  BY <1>3, <1>4 DEF v
    <2> QED  BY <2>1, <1>1, <1>2, <1>4, SetHandleOK
  <1>6. /\ handle' = [handle EXCEPT ![h] = v] /\ m' = inc(m, v)
        /\ builder' = builder /\ todo' = <<>> /\ order' = order /\ pc' = pc
    BY <1>2 DEF GetAttribute
  <1> HIDE DEF v
  <1> QED  BY <1>2, <1>5, <1>6, RunStep

LEMMA SetAttributeStep ==
    ASSUME NInv, NEW n \in Held, NEW v \in Held, SetAttribute(n, v)
    PROVE  NInv'
  <1>1. Ready /\ m.attr[n] # v  BY DEF SetAttribute
  <1>2. /\ Core(m, handle, builder, <<>>) /\ MaxedOK(m, <<>>) /\ pc = "run"
        /\ n \in HeldBy(handle) /\ v \in HeldBy(handle)
    BY <1>1, AtReady
  <1>3. Running(dec(WithAttr(m, n, Null), m.attr[n]), handle, builder, <<PutTask(<<"attr", n>>, v)>>)
    BY <1>1, <1>2, SetAttributeOK
  <1>4. /\ m' = dec(WithAttr(m, n, Null), m.attr[n]) /\ todo' = <<PutTask(<<"attr", n>>, v)>>
        /\ handle' = handle /\ builder' = builder /\ order' = order /\ pc' = pc
    BY DEF SetAttribute, WithAttr
  <1> QED  BY <1>2, <1>3, <1>4, RunStep

LEMMA DeleteAttributesStep ==
    ASSUME NInv, DeleteAttributes
    PROVE  NInv'
  <1>1. Ready  BY DEF DeleteAttributes
  <1>2. /\ Core(m, handle, builder, <<>>) /\ MaxedOK(m, <<>>) /\ pc = "run" /\ ~m.reclaiming
        /\ todo = <<>>
    BY <1>1, AtReady
  <1>3. /\ Core(deleteAllAttributes(m), handle, builder, <<>>)
        /\ MaxedOK(deleteAllAttributes(m), <<>>)
    BY <1>2, DeleteOK
  <1>4. /\ m' = deleteAllAttributes(m) /\ todo' = <<>>
        /\ handle' = handle /\ builder' = builder /\ order' = order /\ pc' = pc
    BY <1>2 DEF DeleteAttributes
  <1>5. Running(m', handle', builder', todo')  BY <1>3, <1>4, NothingTodo DEF Running
  <1> QED  BY <1>2, <1>4, <1>5, RunStep

LEMMA AppendStep ==
    ASSUME NInv, NEW n \in Held, append(n)
    PROVE  NInv'
  <1>1. Ready /\ Len(builder) < MaxChildren  BY DEF append
  <1>2. /\ Core(m, handle, builder, <<>>) /\ MaxedOK(m, <<>>) /\ pc = "run" /\ ~m.reclaiming
        /\ todo = <<>> /\ n \in HeldBy(handle)
    BY <1>1, AtReady
  <1>3. Running(inc(m, n), handle, Append(builder, n), <<>>)  BY <1>1, <1>2, AppendOK
  <1>4. /\ m' = inc(m, n) /\ builder' = Append(builder, n) /\ todo' = <<>>
        /\ handle' = handle /\ order' = order /\ pc' = pc
    BY <1>2 DEF append
  <1> QED  BY <1>2, <1>3, <1>4, RunStep

LEMMA DestroyBuilderStep ==
    ASSUME NInv, DestroyBuilder
    PROVE  NInv'
  <1>1. Ready  BY DEF DestroyBuilder
  <1>2. Core(m, handle, builder, <<>>) /\ MaxedOK(m, <<>>) /\ pc = "run"  BY <1>1, AtReady
  <1>3. Running(m, handle, <<>>, DecsOf(builder))  BY <1>2, DestroyBuilderOK
  <1>4. /\ m' = m /\ builder' = <<>> /\ todo' = DecsOf(builder)
        /\ handle' = handle /\ order' = order /\ pc' = pc
    BY DEF DestroyBuilder, DecsOf
  <1> QED  BY <1>2, <1>3, <1>4, RunStep

LEMMA ConstructStep ==
    ASSUME NInv, NEW h \in Handle, NEW kind \in Kinds, constructNV(h, kind)
    PROVE  NInv'
  <1> DEFINE put(n) == PutTask(<<"handle", h>>, n)
  <1>1. Ready /\ handle[h] = Null  BY DEF constructNV
  <1>2. /\ Core(m, handle, builder, <<>>) /\ MaxedOK(m, <<>>) /\ pc = "run" /\ ~m.reclaiming
    BY <1>1, AtReady
  <1>3. builder' = <<>> /\ handle' = handle /\ order' = order /\ pc' = pc  BY DEF constructNV
  <1>4. CASE /\ poolLookup(m, kind, builder) = {} /\ Len(m.nodes) < MaxNodes
             /\ m' = NewNode(m, kind, builder) /\ todo' = <<put(Len(m.nodes) + 1)>>
    <2>1. Running(NewNode(m, kind, builder), handle, <<>>, <<put(Len(m.nodes) + 1)>>)
      BY <1>1, <1>2, <1>4, NewNodeOK
    <2>2. Running(m', handle', builder', todo')  BY <2>1, <1>3, <1>4
    <2> QED  BY <2>2, <1>2, <1>3, RunStep
  <1>5. ASSUME NEW n \in poolLookup(m, kind, builder),
               todo' = DecsOf(builder) \o <<put(n)>>, m' = m
        PROVE  NInv'
    <2>1. Running(m, handle, <<>>, DecsOf(builder) \o <<put(n)>>)
      BY <1>1, <1>2, FoundOK
    <2>2. Running(m', handle', builder', todo')  BY <2>1, <1>3, <1>5
    <2> QED  BY <2>2, <1>2, <1>3, RunStep
  <1> QED  BY <1>4, <1>5 DEF constructNV, DecsOf

(* While an operation is in progress, the program runs.                    *)
LEMMA AtWork ==
    ASSUME NInv, todo # <<>>
    PROVE  pc = "run" /\ Running(m, handle, builder, todo)
  <1>1. pc = "run"  BY DEF NInv, Gone
  <1> QED  BY <1>1 DEF NInv, Running

LEMMA DoDecStep ==
    ASSUME NInv, DoDec
    PROVE  NInv'
  <1>1. /\ todo # <<>> /\ Head(todo).op = "dec" /\ m' = dec(m, Head(todo).node)
        /\ todo' = Tail(todo) /\ handle' = handle /\ builder' = builder /\ order' = order /\ pc' = pc
    BY DEF DoDec
  <1>2. pc = "run" /\ Running(m, handle, builder, todo)  BY <1>1, AtWork
  <1>3. Running(dec(m, Head(todo).node), handle, builder, Tail(todo))  BY <1>1, <1>2, DoDecOK
  <1> QED  BY <1>1, <1>2, <1>3, RunStep

LEMMA DoPutStep ==
    ASSUME NInv, DoPut
    PROVE  NInv'
  <1> DEFINE t == Head(todo)
  <1>1. /\ todo # <<>> /\ ~m.reclaiming /\ t.op = "put"
        /\ todo' = Tail(todo) /\ builder' = builder /\ order' = order /\ pc' = pc
    BY DEF DoPut
  <1>2. pc = "run" /\ Running(m, handle, builder, todo)  BY <1>1, AtWork
  <1>3. /\ t.at[1] = "handle"
             => Running(inc(m, t.node), [handle EXCEPT ![t.at[2]] = t.node], builder, Tail(todo))
        /\ t.at[1] # "handle"
             => Running(WithAttr(inc(m, t.node), t.at[2], t.node), handle, builder, Tail(todo))
    BY <1>1, <1>2, DoPutOK
  <1>4. \/ /\ t.at[1] = "handle" /\ handle' = [handle EXCEPT ![t.at[2]] = t.node]
           /\ m' = inc(m, t.node)
        \/ /\ t.at[1] # "handle" /\ m' = WithAttr(inc(m, t.node), t.at[2], t.node)
           /\ handle' = handle
    BY DEF DoPut, WithAttr
  <1>5. Running(m', handle', builder', todo')
    <2>1. CASE t.at[1] = "handle"  BY <2>1, <1>1, <1>3, <1>4
    <2>2. CASE t.at[1] # "handle"  BY <2>2, <1>1, <1>3, <1>4
    <2> QED  BY <2>1, <2>2
  <1> QED  BY <1>1, <1>2, <1>5, RunStep

(* A step that reclaims, in the program or in the destructor.              *)
LEMMA ShrinkStep ==
    ASSUME NInv, pc # "destroyed", UNCHANGED <<handle, builder, todo, order, pc>>,
           Core(m', handle, builder, todo), TodoOK(m', handle, todo), MaxedOK(m', order),
           Shrinks(m, m')
    PROVE  NInv'
  <1>1. pc # "run" => /\ m'.maxedOut = <<>> /\ Gone(m', handle, builder, todo)
                      /\ OrderOK(m', order)
    BY ShrinksKeeps DEF NInv, Shrinks
  <1> QED  BY <1>1 DEF NInv

LEMMA ReclaimStep ==
    ASSUME NInv, NEW nv \in m.batch, ReclaimNext(nv)
    PROVE  NInv'
  <1>1. Core(m, handle, builder, todo) /\ TodoOK(m, handle, todo) /\ MaxedOK(m, order)
    BY DEF NInv
  <1>2. /\ Core(Reclaim(m, nv), handle, builder, todo)
        /\ TodoOK(Reclaim(m, nv), handle, todo)
        /\ MaxedOK(Reclaim(m, nv), order)
        /\ Shrinks(m, Reclaim(m, nv))
    BY <1>1, ReclaimOK
  <1>3. m' = Reclaim(m, nv) /\ UNCHANGED <<handle, builder, todo, order, pc>>  BY DEF ReclaimNext
  <1>4. pc # "destroyed"
    <2>1. m.batch \subseteq Live(m)  BY <1>1 DEF Core, CountsOK
    <2> QED  BY <2>1 DEF NInv
  <1> QED  BY <1>2, <1>3, <1>4, ShrinkStep

LEMMA ReclaimEndStep ==
    ASSUME NInv, ReclaimEnd
    PROVE  NInv'
  <1>1. Core(m, handle, builder, todo) /\ TodoOK(m, handle, todo) /\ MaxedOK(m, order)
    BY DEF NInv
  <1>2. /\ m.reclaiming /\ m.batch = {} /\ m' = Rested(m)
        /\ UNCHANGED <<handle, builder, todo, order, pc>>
    BY DEF ReclaimEnd, Rested
  <1>3. /\ Core(Rested(m), handle, builder, todo)
        /\ TodoOK(Rested(m), handle, todo)
        /\ MaxedOK(Rested(m), order)
        /\ Shrinks(m, Rested(m))
    BY <1>1, <1>2, ReclaimEndOK
  <1>4. pc # "destroyed"  BY <1>2 DEF NInv
  <1> QED  BY <1>2, <1>3, <1>4, ShrinkStep

LEMMA DestroyStep ==
    ASSUME NInv, Destroy, "PARAMETERIZED" \notin Kinds
    PROVE  NInv'
  <1>1. Ready /\ Held = {} /\ builder = <<>>  BY DEF Destroy
  <1>2. /\ Core(m, handle, <<>>, <<>>) /\ MaxedOK(m, <<>>) /\ ~m.reclaiming /\ todo = <<>>
        /\ HeldBy(handle) = {}
    BY <1>1, AtReady
  <1> DEFINE j == WithoutMaxed(deleteAllAttributes(m))
             t == TopologicalSort(m, m.maxedOut)
  <1>3. /\ Core(j, handle, <<>>, <<>>) /\ MaxedOK(j, t) /\ j.maxedOut = <<>>
        /\ Gone(j, handle, <<>>, <<>>) /\ t \in Seq(Id) /\ OrderOK(j, t)
    BY <1>2, DestroyOK
  <1>4. /\ m' = j /\ order' = t /\ pc' = "destroying"
        /\ handle' = handle /\ builder' = <<>> /\ todo' = <<>>
    BY <1>1, <1>2 DEF Destroy, WithoutMaxed
  <1> HIDE DEF j, t
  <1>5. TodoOK(m', handle', todo')  BY <1>4, NothingTodo
  <1> QED  BY <1>3, <1>4, <1>5 DEF NInv

(* What holds in the loop of ~NodeManager.                                 *)
LEMMA AtDestroying ==
    ASSUME NInv, pc = "destroying"
    PROVE  /\ Core(m, handle, builder, todo) /\ MaxedOK(m, order) /\ order \in Seq(Id)
           /\ m.maxedOut = <<>> /\ Gone(m, handle, builder, todo) /\ OrderOK(m, order)
           /\ todo = <<>>
  <1> QED  BY DEF NInv, Gone

LEMMA DestroyZombiesStep ==
    ASSUME NInv, DestroyZombies
    PROVE  NInv'
  <1>1. pc = "destroying" /\ ~m.reclaiming  BY DEF DestroyZombies
  <1>2. Core(m, handle, builder, <<>>) /\ MaxedOK(m, order) /\ todo = <<>>
    BY <1>1, AtDestroying
  <1>3. /\ Core(reclaimZombies(m), handle, builder, <<>>)
        /\ MaxedOK(reclaimZombies(m), order)
        /\ Shrinks(m, reclaimZombies(m))
    BY <1>1, <1>2, DestroyZombiesOK
  <1>4. m' = reclaimZombies(m) /\ UNCHANGED <<handle, builder, todo, order, pc>>
    BY DEF DestroyZombies
  <1>5. TodoOK(m', handle, todo)  BY <1>2, NothingTodo
  <1> QED  BY <1>1, <1>2, <1>3, <1>4, <1>5, ShrinkStep

LEMMA DestroyMaxedOutStep ==
    ASSUME NInv, DestroyMaxedOut
    PROVE  NInv'
  <1>1. pc = "destroying" /\ ~m.reclaiming /\ m.zombies = {} /\ order # <<>>
    BY DEF DestroyMaxedOut
  <1>2. /\ Core(m, handle, builder, todo) /\ MaxedOK(m, order) /\ order \in Seq(Id)
        /\ m.maxedOut = <<>> /\ Gone(m, handle, builder, todo) /\ OrderOK(m, order)
        /\ todo = <<>>
    BY <1>1, AtDestroying
  <1> DEFINE j == markForDeletion(WithRC(m, Last(order), 0), Last(order))
  <1>3. /\ Core(j, handle, builder, todo) /\ MaxedOK(j, Front(order)) /\ Shrinks(m, j)
        /\ Front(order) \in Seq(Id) /\ OrderOK(m, Front(order))
    BY <1>1, <1>2, DestroyMaxedOutOK
  <1>4. /\ m' = j /\ order' = Front(order) /\ pc' = "destroying"
        /\ handle' = handle /\ builder' = builder /\ todo' = todo
    BY <1>1 DEF DestroyMaxedOut, WithRC
  <1> HIDE DEF j
  <1>5. /\ OrderOK(j, Front(order)) /\ Gone(j, handle, builder, todo) /\ j.maxedOut = <<>>
    BY <1>2, <1>3, ShrinksKeeps DEF Shrinks
  <1>6. TodoOK(j, handle, todo)  BY <1>2, NothingTodo
  <1> QED  BY <1>3, <1>4, <1>5, <1>6 DEF NInv

LEMMA DestroyEndStep ==
    ASSUME NInv, DestroyEnd
    PROVE  NInv'
  <1>1. /\ pc = "destroying" /\ ~m.reclaiming /\ m.zombies = {} /\ order = <<>>
        /\ pc' = "destroyed" /\ UNCHANGED <<m, handle, builder, todo, order>>
    BY DEF DestroyEnd
  <1>2. /\ Core(m, handle, builder, todo) /\ MaxedOK(m, order) /\ order \in Seq(Id)
        /\ m.maxedOut = <<>> /\ Gone(m, handle, builder, todo) /\ OrderOK(m, order)
    BY <1>1, AtDestroying
  <1>3. Maxed(m) = {}  BY <1>1, <1>2 DEF MaxedOK, Range
  <1>4. Live(m) = {}  BY <1>1, <1>2, <1>3, DestroyEndOK
  <1> QED  BY <1>1, <1>2, <1>4 DEF NInv

LEMMA NInvNext ==
    ASSUME NInv, [Next]_vars, "PARAMETERIZED" \notin Kinds \/ pc' = "run"
    PROVE  NInv'
  <1>1. CASE UNCHANGED vars  BY <1>1 DEF NInv, vars
  <1>2. ASSUME NEW h \in Handle,
               \/ Assign(h, Null)
               \/ \E n \in Held : Assign(h, n) \/ GetAttribute(h, n)
               \/ \E n \in Held : \E c \in Children(n) : Assign(h, c)
               \/ \E kind \in Kinds : constructNV(h, kind)
        PROVE  NInv'
    BY <1>2, AssignStep, GetAttributeStep, ConstructStep
  <1>3. ASSUME NEW n \in Held, append(n) \/ \E v \in Held : SetAttribute(n, v)
        PROVE  NInv'
    BY <1>3, AppendStep, SetAttributeStep
  <1>4. CASE DestroyBuilder  BY <1>4, DestroyBuilderStep
  <1>5. CASE DeleteAttributes  BY <1>5, DeleteAttributesStep
  <1>6. CASE DoDec  BY <1>6, DoDecStep
  <1>7. CASE DoPut  BY <1>7, DoPutStep
  <1>8. ASSUME NEW nv \in m.batch, ReclaimNext(nv)  PROVE NInv'  BY <1>8, ReclaimStep
  <1>9. CASE ReclaimEnd  BY <1>9, ReclaimEndStep
  <1>10. CASE Destroy
    <2>1. pc' = "destroying"  BY <1>10 DEF Destroy
    <2>2. "PARAMETERIZED" \notin Kinds  BY <2>1
    <2> QED  BY <2>2, <1>10, DestroyStep
  <1>11. CASE DestroyZombies  BY <1>11, DestroyZombiesStep
  <1>12. CASE DestroyMaxedOut  BY <1>12, DestroyMaxedOutStep
  <1>13. CASE DestroyEnd  BY <1>13, DestroyEndStep
  <1> QED
    BY <1>1, <1>2, <1>3, <1>4, <1>5, <1>6, <1>7, <1>8, <1>9, <1>10, <1>11, <1>12, <1>13 DEF Next

-----------------------------------------------------------------------------
(* What the invariant says.                                                *)

LEMMA InvTyped ==
    ASSUME NInv
    PROVE  /\ Typed(m, handle, builder, todo) /\ ManagerOK(m) /\ TreeOK(m)
           /\ ReferredLive(m, RefCount(m, handle, builder, todo))
           /\ CountsOK(m, RefCount(m, handle, builder, todo), PutsOf(todo))
           /\ UniqueIn(m) /\ AttrLive(m)
  <1> QED  BY DEF NInv, Core, Typed

LEMMA InvTypeOK ==
    ASSUME NInv  PROVE TypeOK
  <1>1. Typed(m, handle, builder, todo) /\ ManagerOK(m)  BY InvTyped
  <1> QED  BY <1>1 DEF TypeOK, NInv, Typed, ManagerOK

LEMMA InvNothingDangles ==
    ASSUME NInv  PROVE NothingDangles
  <1>1. /\ Typed(m, handle, builder, todo) /\ ManagerOK(m) /\ TreeOK(m)
        /\ ReferredLive(m, RefCount(m, handle, builder, todo))
        /\ CountsOK(m, RefCount(m, handle, builder, todo), PutsOf(todo))
        /\ UniqueIn(m) /\ AttrLive(m)
    BY InvTyped
  <1>2. /\ HeldBy(handle) \subseteq Live(m)
        /\ \A i \in DOMAIN builder : builder[i] \in Live(m)
        /\ \A i \in DOMAIN m.attr : m.attr[i] \in Live(m) \cup {Null}
        /\ \A i \in DOMAIN todo, n \in Id : todo[i] = Dec(n) => n \in Live(m)
        /\ \A n \in Live(m) : Range(m.nodes[n].children) \subseteq Live(m)
    BY <1>1, RefLive
  <1>3. Held \subseteq Live(m)  BY <1>2 DEF Held, HeldBy
  <1>4. Range(builder) \subseteq Live(m)  BY <1>2 DEF Range
  <1>5. UNION {Children(n) : n \in Live(m)} \subseteq Live(m)  BY <1>2 DEF Children
  <1>6. Range(m.attr) \ {Null} \subseteq Live(m)  BY <1>2 DEF Range
  <1>7. {n \in DOMAIN m.attr : m.attr[n] # Null} \subseteq Live(m)  BY <1>1 DEF AttrLive
  <1>8. m.pool \cup m.zombies \cup m.batch \subseteq Live(m)
    BY <1>1 DEF UniqueIn, CountsOK
  <1>9. Range(m.maxedOut) \cup Range(order) \subseteq Live(m)  BY DEF NInv, MaxedOK, Maxed
  <1>10. ASSUME NEW i \in DOMAIN todo
         PROVE  todo[i].node \in Live(m) /\ (todo[i].at[1] = "attr" => todo[i].at[2] \in Live(m))
    <2>1. CASE IsDec(todo[i])
      <3>1. todo[i].node \in Live(m)  BY <2>1, <1>2 DEF IsDec
      <3>2. todo[i].at = <<"none", Null>>  BY <2>1 DEF IsDec, Dec, NoPlace
      <3>3. todo[i].at[1] # "attr"  BY <3>2
      <3> QED  BY <3>1, <3>3
    <2>2. CASE ~IsDec(todo[i])
      <3>1. PutOK(m, handle, todo[i])  BY <2>2 DEF NInv, TodoOK
      <3> QED  BY <3>1, <1>2 DEF PutOK
    <2> QED  BY <2>1, <2>2
  <1>11. {todo[i].node : i \in DOMAIN todo} \subseteq Live(m)  BY <1>10
  <1>12. {todo[i].at[2] : i \in {j \in DOMAIN todo : todo[j].at[1] = "attr"}} \subseteq Live(m)
    BY <1>10
  <1> DEFINE a == Held
             b == Range(builder)
             c == UNION {Children(n) : n \in Live(m)}
             d == Range(m.attr) \ {Null}
             e == {n \in DOMAIN m.attr : m.attr[n] # Null}
             f == {todo[i].node : i \in DOMAIN todo}
             g == {todo[i].at[2] : i \in {j \in DOMAIN todo : todo[j].at[1] = "attr"}}
             used == a \cup b \cup c \cup d \cup e \cup m.pool \cup m.zombies \cup m.batch
                     \cup Range(m.maxedOut) \cup Range(order) \cup f \cup g
  <1>13. /\ a \subseteq Live(m) /\ b \subseteq Live(m) /\ c \subseteq Live(m)
         /\ d \subseteq Live(m) /\ e \subseteq Live(m) /\ f \subseteq Live(m) /\ g \subseteq Live(m)
    BY <1>3, <1>4, <1>5, <1>6, <1>7, <1>11, <1>12
  <1>14. used \subseteq Live(m)
    <2> HIDE DEF a, b, c, d, e, f, g
    <2> QED  BY <1>8, <1>9, <1>13
  <1> QED  BY <1>14 DEF NothingDangles

LEMMA InjectiveCount ==
    ASSUME NEW S, NEW q \in Seq(S), IsInjective(q)
    PROVE  Len(q) = Cardinality(Range(q))
  <1>1. Len(q) \in Nat /\ q \in [1..Len(q) -> S] /\ DOMAIN q = 1..Len(q)  BY LenProperties
  <1>2. IsFiniteSet(1..Len(q)) /\ Cardinality(1..Len(q)) = Len(q)
    BY <1>1, FS_Interval
  <1>3. q \in Injection(1..Len(q), Range(q)) /\ q \in Surjection(1..Len(q), Range(q))
    BY <1>1 DEF Injection, Surjection, Range
  <1>4. ExistsBijection(1..Len(q), Range(q))  BY <1>3 DEF ExistsBijection, Bijection
  <1>5. Cardinality(Range(q)) = Cardinality(1..Len(q))  BY <1>2, <1>4, FS_Bijection
  <1> QED  BY <1>2, <1>5

LEMMA InvCountsExact ==
    ASSUME NInv  PROVE CountsExact
  <1>1. /\ Typed(m, handle, builder, todo) /\ ManagerOK(m)
        /\ CountsOK(m, RefCount(m, handle, builder, todo), PutsOf(todo))
    BY InvTyped
  <1>2. \A n \in Live(m) : m.nodes[n].rc \in {MaxRC, References(n)}
    <2> SUFFICES ASSUME NEW n \in Live(m)  PROVE m.nodes[n].rc \in {MaxRC, References(n)}  OBVIOUS
    <2>1. n \in Id  BY <1>1, LiveNode
    <2>2. RefCount(m, handle, builder, todo)[n]
            = Occurrences(handle, n) + Occurrences(builder, n) + Occurrences(m.attr, n)
              + Occurrences(todo, Dec(n)) + Cardinality(ChildSites(m, n))
      BY <2>1, <1>1, RefParts
    <2>3. Occurrences(handle, n) = Cardinality({h \in Handle : handle[h] = n})
      <3>1. DOMAIN handle = Handle  BY <1>1 DEF Typed
      <3> QED  BY <3>1 DEF Occurrences
    <2>4. References(n) = RefCount(m, handle, builder, todo)[n]
      BY <2>2, <2>3 DEF References, ChildSites
    <2> QED  BY <2>4, <1>1 DEF CountsOK
  <1> DEFINE maxed == m.maxedOut \o order
  <1>3. /\ m.maxedOut \in Seq(Id) /\ order \in Seq(Id)
        /\ Range(m.maxedOut) \cup Range(order) = Maxed(m)
        /\ IsInjective(m.maxedOut) /\ IsInjective(order)
        /\ m.maxedOut = <<>> \/ order = <<>>
    BY <1>1 DEF ManagerOK, Manager, NInv, MaxedOK
  <1>4. PICK q \in Seq(Id) : maxed = q /\ IsInjective(q) /\ Range(q) = Maxed(m)
    <2>1. Range(<<>>) = {}  BY DEF Range
    <2>2. CASE m.maxedOut = <<>>
      <3>1. maxed = order  BY <2>2, <1>3, ConcatEmptySeq
      <3>2. Range(order) = Maxed(m)  BY <2>1, <2>2, <1>3
      <3> QED  BY <3>1, <3>2, <1>3
    <2>3. CASE order = <<>>
      <3>1. maxed = m.maxedOut  BY <2>3, <1>3, ConcatEmptySeq
      <3>2. Range(m.maxedOut) = Maxed(m)  BY <2>1, <2>3, <1>3
      <3> QED  BY <3>1, <3>2, <1>3
    <2> QED  BY <2>2, <2>3, <1>3
  <1>5. Len(maxed) = Cardinality(Range(maxed))  BY <1>4, InjectiveCount
  <1>6. Range(maxed) = {n \in Live(m) : m.nodes[n].rc = MaxRC}  BY <1>4 DEF Maxed
  <1> QED  BY <1>2, <1>5, <1>6, InvTypeOK DEF CountsExact

LEMMA InvUnique ==
    ASSUME NInv  PROVE Unique
  <1>1. UniqueIn(m)  BY InvTyped
  <1> QED  BY <1>1 DEF UniqueIn, Unique

LEMMA InvNothingLeaks ==
    ASSUME NInv  PROVE NothingLeaks
  <1>1. CountsOK(m, RefCount(m, handle, builder, todo), PutsOf(todo))  BY InvTyped
  <1>2. ASSUME NEW n \in Live(m), m.nodes[n].rc = 0
        PROVE  \/ n \in m.zombies \cup m.batch
               \/ \E i \in DOMAIN todo : todo[i].op = "put" /\ todo[i].node = n
    BY <1>1, <1>2 DEF CountsOK, PutsOf
  <1>3. pc = "destroyed" => Live(m) = {}  BY DEF NInv
  <1> QED  BY <1>2, <1>3 DEF NothingLeaks

LEMMA NInvAlways ==
    ASSUME "PARAMETERIZED" \notin Kinds
    PROVE  Spec => []NInv
  <1>1. Init => NInv  BY NInvInit
  <1>2. NInv /\ [Next]_vars => NInv'  BY NInvNext
  <1> QED  BY <1>1, <1>2, PTL DEF Spec

(* No reference of the program, of a node, of an attribute, of a table of  *)
(* the manager or of an operation in progress is to a freed node, for all  *)
(* limits and bounds, when no kind of node has an operator among its       *)
(* children.                                                               *)
THEOREM NodesDoNotDangle ==
    ASSUME "PARAMETERIZED" \notin Kinds
    PROVE  Spec => []NothingDangles
  <1>1. NInv => NothingDangles  BY InvNothingDangles
  <1>2. Spec => []NInv  BY NInvAlways
  <1> QED  BY <1>1, <1>2, PTL

(* A count is the number of references or maximal, and each node with a    *)
(* maximal count is known to the destructor exactly once.                  *)
THEOREM NodeCountsExact ==
    ASSUME "PARAMETERIZED" \notin Kinds
    PROVE  Spec => []CountsExact
  <1>1. NInv => CountsExact  BY InvCountsExact
  <1>2. Spec => []NInv  BY NInvAlways
  <1> QED  BY <1>1, <1>2, PTL

(* The pool has each term once, and has all of them.                       *)
THEOREM NodesUnique ==
    ASSUME "PARAMETERIZED" \notin Kinds
    PROVE  Spec => []Unique
  <1>1. NInv => Unique  BY InvUnique
  <1>2. Spec => []NInv  BY NInvAlways
  <1> QED  BY <1>1, <1>2, PTL

(* A node without references is known to the next round of reclaiming, and *)
(* ~NodeManager leaves no node behind.                                     *)
THEOREM NodesDoNotLeak ==
    ASSUME "PARAMETERIZED" \notin Kinds
    PROVE  Spec => []NothingLeaks
  <1>1. NInv => NothingLeaks  BY InvNothingLeaks
  <1>2. Spec => []NInv  BY NInvAlways
  <1> QED  BY <1>1, <1>2, PTL

(* Until ~NodeManager begins, all of this holds for nodes of every kind,   *)
(* operators included.                                                     *)
THEOREM NodesOfEveryKind ==
    Spec => [](pc = "run" => NothingDangles /\ CountsExact /\ Unique /\ NothingLeaks)
  <1> DEFINE RInv == pc = "run" => NInv
  <1>1. Init => RInv  BY NInvInit
  <1>2. RInv /\ [Next]_vars => RInv'
    <2> SUFFICES ASSUME RInv, [Next]_vars, pc' = "run"  PROVE NInv'  OBVIOUS
    <2>1. pc = "run"
      BY DEF Next, vars, Ready, Assign, GetAttribute, constructNV, append, SetAttribute,
             DestroyBuilder, DeleteAttributes, DoDec, DoPut, ReclaimNext, ReclaimEnd, Destroy,
             DestroyZombies, DestroyMaxedOut, DestroyEnd
    <2> QED  BY <2>1, NInvNext
  <1>3. RInv => (pc = "run" => NothingDangles /\ CountsExact /\ Unique /\ NothingLeaks)
    BY InvNothingDangles, InvCountsExact, InvUnique, InvNothingLeaks
  <1> QED  BY <1>1, <1>2, <1>3, PTL DEF Spec

=============================================================================
