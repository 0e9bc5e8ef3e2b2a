----------------------- MODULE CdcltPropagator_proofs -----------------------
(***************************************************************************)
(* Proofs about the bridge between CaDiCaL and the theories, for any       *)
(* number of variables, user levels, decision levels and waiting clauses.  *)
(*                                                                         *)
(* The callbacks are functions on the state of cvc5, so the invariant is   *)
(* stated for such a state t, and for t together with CaDiCaL c.           *)
(***************************************************************************)
EXTENDS CdcltPropagator, SequenceTheorems, WellFoundedInduction, TLAPS

(* The variables are within the bounds.                                    *)
Sized(t) ==
    /\ t \in State
    /\ t.pushes <= MaxPushes /\ Len(t.info) <= MaxLiterals + t.pushes

Levels(t) ==
    /\ Len(t.ctx) = 1 + Len(t.activeControl) + Len(t.decisions)
    /\ Len(t.control) = Len(t.decisions)
    /\ Len(t.acts) = Len(t.activeControl)

(* v is active and was made at user level l or below it.                   *)
LiveAt(t, v, l) == v \in 1 .. Len(t.info) /\ t.info[v].active /\ t.info[v].intro <= l

(* d_active_vars holds the active variables by user level, and each level  *)
(* has its activation literal.                                             *)
Marks(t) ==
    /\ \A v \in 1 .. Len(t.info) : t.info[v].active => \E j \in 1 .. Len(t.active) : t.active[j] = v
    /\ \A j \in 1 .. Len(t.active) : LiveAt(t, t.active[j], Len(t.activeControl))
    /\ \A k \in 1 .. Len(t.activeControl) :
          /\ t.activeControl[k] <= Len(t.active)
          /\ \A j \in 1 .. Len(t.active) : j <= t.activeControl[k] <=> t.info[t.active[j]].intro < k
    /\ \A k \in 1 .. Len(t.acts) : LiveAt(t, t.acts[k], k) /\ t.info[t.acts[k]].intro = k

(* d_assignments holds the active variables that have a value, in segments *)
(* that have nothing in common.                                            *)
Recorded(t) ==
    /\ \A j \in 1 .. Len(t.assignments) :
          LET v == t.assignments[j] IN
          v \in 1 .. Len(t.info) /\ t.info[v].active /\ t.info[v].assigned
    /\ \A v \in 1 .. Len(t.info) : t.info[v].active /\ t.info[v].assigned =>
          \E j \in 1 .. Len(t.assignments) : t.assignments[j] = v

Segments(t) ==
    \A i \in 1 .. Len(t.control) :
       /\ t.control[i] <= Len(t.assignments)
       /\ \A k \in 1 .. Len(t.control) : i <= k => t.control[i] <= t.control[k]
       /\ \A j, k \in 1 .. Len(t.assignments) :
             j <= t.control[i] /\ t.control[i] < k => t.assignments[j] # t.assignments[k]

(* What is fixed rests on user level 0, and what is assigned at decision   *)
(* level 0 is fixed.  The converse, here and below, only holds if nothing  *)
(* is fixed at higher levels.                                              *)
FixedOK(t) ==
    /\ \A v \in 1 .. Len(t.info) : t.info[v].fixed => t.info[v].intro = 0
    /\ \A j \in 1 .. Len(t.assignments) :
          (Len(t.control) > 0 => j <= t.control[1]) => t.info[t.assignments[j]].fixed
    /\ ~FixAnywhere => \A v \in 1 .. Len(t.info) :
          t.info[v].fixed /\ t.info[v].active => t.info[v].assigned
    /\ ~FixAnywhere => \A j \in 1 .. Len(t.assignments) :
          t.info[t.assignments[j]].fixed => (Len(t.control) > 0 => j <= t.control[1])

(* What the theories got at a level survives as long as that level.        *)
Contexts(t) ==
    /\ \A i \in 1 .. Len(t.ctx) : \A v \in t.ctx[i].queue \cup t.ctx[i].prereg : LiveAt(t, v, i - 1)
    /\ \A j \in 1 .. Len(t.satLiterals) :
          /\ LiveAt(t, t.satLiterals[j][1], Len(t.activeControl))
          /\ t.satLiterals[j][2] <= Len(t.ctx)
    /\ \A j, k \in 1 .. Len(t.satLiterals) : j <= k => t.satLiterals[j][2] <= t.satLiterals[k][2]

(* At each level an atom is preregistered, or it will be on the backtrack  *)
(* to that level.                                                          *)
Waits(t, v, i) ==
    /\ i > Len(t.activeControl)
    /\ \E j \in 1 .. Len(t.satLiterals) : t.satLiterals[j][1] = v /\ t.satLiterals[j][2] > i

Preregistered(t) ==
    \A v \in 1 .. Len(t.info), i \in 1 .. Len(t.ctx) :
       t.info[v].active /\ t.info[v].atom /\ t.info[v].intro < i
          => v \in t.ctx[i].prereg \/ Waits(t, v, i)

(* A fixed atom is sent at the user level it is fixed at and above it, or  *)
(* it will be sent again.                                                  *)
Again(t, v) == \E j \in 1 .. Len(t.renotify) : t.renotify[j] = v

Renotified(t) ==
    /\ \A j \in 1 .. Len(t.renotify) :
          /\ t.renotify[j] \in 1 .. Len(t.info)
          /\ t.info[t.renotify[j]].active /\ t.info[t.renotify[j]].fixed
    /\ ~FixAnywhere => \A v \in 1 .. Len(t.info) :
          t.info[v].active /\ t.info[v].atom /\ t.info[v].fixed =>
          \/ Again(t, v)
          \/ /\ t.info[v].fixedAt <= Len(t.activeControl)
             /\ \A i \in 1 .. Len(t.ctx) : i > t.info[v].fixedAt => v \in t.ctx[i].queue

(* Every other assigned atom is sent at the decision level it is assigned  *)
(* at and above it.                                                        *)
Sent(t) ==
    \A j \in 1 .. Len(t.assignments), d \in 0 .. Len(t.control) :
       LET v == t.assignments[j] IN
       t.info[v].atom /\ ~t.info[v].fixed /\ (d < Len(t.control) => j <= t.control[d + 1])
          => v \in t.ctx[Len(t.activeControl) + 1 + d].queue

(* The variables of a clause live as long as its activation literal.       *)
ClauseOK(t, c) ==
    /\ c.act = NoVar => \A v \in c.vars : LiveAt(t, v, 0)
    /\ c.act # NoVar =>
          /\ c.act \in 1 .. Len(t.info)
          /\ \A k \in 1 .. Len(t.acts) : t.acts[k] = c.act => \A v \in c.vars : LiveAt(t, v, k)

Clauses(t) ==
    /\ \A v \in t.root : v \in 1 .. Len(t.info) /\ t.info[v].intro = 0
    /\ \A j \in 1 .. Len(t.newClauses) : ClauseOK(t, t.newClauses[j])

(* At decision level 0 only those of user level 0 are left.                *)
Inferences(t) ==
    \A j \in 1 .. Len(t.propagations) :
       t.propagations[j][2] <= IF Len(t.decisions) = 0 THEN 1 ELSE Len(t.ctx)

(* The theories have checked what they were sent.                          *)
Checked(t) == t.ctx[Len(t.ctx)].queue \subseteq t.ctx[Len(t.ctx)].seen

FoundOK(t) ==
    t.found => /\ t.newClauses = <<>> /\ t.propagations = <<>>
               /\ Len(t.decisions) > 0 /\ t.decisions[Len(t.decisions)] = NoVar
               /\ Checked(t)

(* Only the Assert of add_clause, that a fixed literal has a value, rests  *)
(* on where variables are fixed.                                           *)
AssertsOK(t) == ~FixAnywhere => t.asserts

(* A state of cvc5.                                                        *)
Good(t) ==
    /\ Sized(t) /\ Levels(t) /\ Marks(t)
    /\ Recorded(t) /\ Segments(t) /\ FixedOK(t)
    /\ Contexts(t) /\ Preregistered(t) /\ Renotified(t) /\ Sent(t)
    /\ Clauses(t) /\ Inferences(t) /\ AssertsOK(t)

(* The trail of CaDiCaL is what cvc5 recorded, but for what it ignored.    *)
Trail(t, c) ==
    /\ c \in Cadical /\ Len(c.val) = Len(t.info)
    /\ \A v \in 1 .. Len(t.info) : c.val[v] <= Len(t.decisions)
    /\ \A v \in 1 .. Len(t.info) : t.info[v].active => (t.info[v].fixed <=> c.val[v] = 0)
    /\ ~FixAnywhere => \A v \in c.ignored : v \in 1 .. Len(t.info) /\ c.val[v] > 0
    /\ ~FixAnywhere => \A v \in 1 .. Len(t.info) : t.info[v].active =>
          (t.info[v].assigned <=> c.val[v] # Unassigned /\ v \notin c.ignored)
    /\ ~FixAnywhere => \A i \in 1 .. Len(t.control), j \in 1 .. Len(t.assignments) :
          j <= t.control[i] <=> c.val[t.assignments[j]] < i

Stage ==
    /\ pc \in {"idle", "search", "sat"}
    /\ pc = "idle" => Len(s.decisions) = 0
    /\ pc # "idle" => Len(s.decisions) = cad.level /\ s.renotify = <<>>
    /\ pc = "sat" => Checked(s)

(* The inductive invariant.                                                *)
IInv == Good(s) /\ FoundOK(s) /\ Trail(s, cad) /\ Stage

-----------------------------------------------------------------------------
(* Sequences.                                                              *)

(* A sequence and one more element.                                        *)
LEMMA OneMore ==
    ASSUME NEW S, NEW q \in Seq(S), NEW x \in S
    PROVE  /\ Append(q, x) \in Seq(S) /\ Len(Append(q, x)) = Len(q) + 1
           /\ \A i \in 1 .. Len(q) : Append(q, x)[i] = q[i]
           /\ Append(q, x)[Len(q) + 1] = x
           /\ Len(q) \in Nat
           /\ \A i \in 1 .. Len(q) : q[i] \in S
  BY AppendProperties, LenProperties, ElementOfSeq

(* The first n elements.                                                   *)
LEMMA UptoElements ==
    ASSUME NEW S, NEW q \in Seq(S), NEW n \in 0 .. Len(q)
    PROVE  /\ Upto(q, n) \in Seq(S) /\ Len(Upto(q, n)) = n
           /\ \A i \in 1 .. n : Upto(q, n)[i] = q[i]
  <1>1. \A i \in 1 .. n : q[i] \in S  BY ElementOfSeq
  <1> QED  BY <1>1, SubSeqProperties DEF Upto

(* The elements after the first n.                                         *)
LEMMA AfterElements ==
    ASSUME NEW S, NEW q \in Seq(S), NEW n \in 0 .. Len(q)
    PROVE  /\ After(q, n) \in Seq(S) /\ Len(After(q, n)) = Len(q) - n
           /\ \A i \in 1 .. Len(q) - n : After(q, n)[i] = q[n + i]
  <1>1. Len(q) \in Nat /\ n \in Nat  BY LenProperties
  <1> DEFINE m == n + 1
             l == Len(q)
             t == SubSeq(q, m, l)
  <1>2. m \in Int /\ l \in Int /\ \A i \in m .. l : q[i] \in S  BY <1>1, ElementOfSeq
  <1> HIDE DEF m, l
  <1>3. t \in Seq(S) /\ Len(t) = (IF m <= l THEN l - m + 1 ELSE 0)
        /\ \A i \in 1 .. l - m + 1 : t[i] = q[m + i - 1]
    BY <1>2, SubSeqProperties
  <1> HIDE DEF t
  <1>4. Len(t) = l - n  BY <1>1, <1>3 DEF m, l
  <1>5. ASSUME NEW i \in 1 .. l - n  PROVE t[i] = q[n + i]
    <2>1. i \in 1 .. l - m + 1 /\ m + i - 1 = n + i  BY <1>1 DEF m, l
    <2> QED  BY <2>1, <1>3
  <1> QED  BY <1>3, <1>4, <1>5 DEF After, t, m, l

(* The set of elements of a sequence.                                      *)
LEMMA RangeElements ==
    ASSUME NEW S, NEW q \in Seq(S)
    PROVE  /\ Range(q) = {q[i] : i \in 1 .. Len(q)} /\ Range(q) \subseteq S
           /\ \A x : x \in Range(q) <=> \E i \in 1 .. Len(q) : q[i] = x
  BY LenProperties, ElementOfSeq DEF Range

(* A non-empty set of naturals has a least element.                        *)
LEMMA LeastIndex ==
    ASSUME NEW S, S \subseteq Nat, S # {}
    PROVE  \E n \in S : \A k \in S : n <= k
  <1> DEFINE R == {p \in Nat \X Nat : p[1] < p[2]}
  <1>1. R = OpToRel(<, Nat)  BY DEF OpToRel
  <1>2. IsWellFoundedOn(R, Nat)  BY <1>1, NatLessThanWellFounded
  <1> HIDE DEF R
  <1>3. PICK n \in S : \A k \in S : ~(<<k, n>> \in R)  BY <1>2, WFMin
  <1>4. \A k \in S : <<k, n>> \in Nat \X Nat  OBVIOUS
  <1>5. ASSUME NEW k \in S  PROVE n <= k
    <2>1. ~(k < n)  BY <1>3, <1>4 DEF R
    <2> QED  BY <2>1
  <1> QED  BY <1>5

(* Induction along 0 .. n.                                                 *)
LEMMA Along ==
    ASSUME NEW n \in Nat, NEW P, 0 \in P, \A i \in 1 .. n : i - 1 \in P => i \in P
    PROVE  0 .. n \subseteq P
  <1> DEFINE B == (0 .. n) \ P
  <1> SUFFICES ASSUME B # {}  PROVE FALSE  OBVIOUS
  <1>1. PICK m \in B : \A k \in B : m <= k
    <2>1. B \subseteq Nat  OBVIOUS
    <2> HIDE DEF B
    <2> QED  BY <2>1, LeastIndex
  <1>2. m \in 1 .. n /\ m - 1 \in 0 .. n  BY <1>1
  <1>3. m - 1 \notin B  BY <1>1, <1>2
  <1> QED  BY <1>1, <1>2, <1>3

(* The function that Only is defined by.                                   *)
Keeps(f, q, S, n) ==
    /\ f[0] = <<>>
    /\ \A i \in 1 .. n : f[i] = IF q[i] \in S THEN Append(f[i - 1], q[i]) ELSE f[i - 1]

(* There is such a function.                                               *)
LEMMA KeepsExists ==
    ASSUME NEW K, NEW q \in Seq(K), NEW S, NEW n \in 0 .. Len(q)
    PROVE  \E f \in [0 .. n -> Seq(K)] : Keeps(f, q, S, n)
  <1> DEFINE P == {j \in Nat : \E f \in [0 .. j -> Seq(K)] : Keeps(f, q, S, j)}
  <1>1. 0 \in P
    <2> DEFINE f == [i \in 0 .. 0 |-> <<>>]
    <2>1. f \in [0 .. 0 -> Seq(K)] /\ Keeps(f, q, S, 0)  BY DEF Keeps
    <2> QED  BY <2>1
  <1>2. ASSUME NEW i \in 1 .. n, i - 1 \in P  PROVE i \in P
    <2>1. i \in Nat /\ i - 1 \in Nat /\ q[i] \in K  BY ElementOfSeq
    <2>2. PICK f \in [0 .. i - 1 -> Seq(K)] : Keeps(f, q, S, i - 1)  BY <1>2
    <2> DEFINE last == IF q[i] \in S THEN Append(f[i - 1], q[i]) ELSE f[i - 1]
               g == [j \in 0 .. i |-> IF j = i THEN last ELSE f[j]]
    <2>3. last \in Seq(K)
      <3>1. f[i - 1] \in Seq(K)  BY <2>1
      <3> QED  BY <3>1, <2>1, AppendProperties
    <2> HIDE DEF last
    <2>4. g \in [0 .. i -> Seq(K)]
      <3> SUFFICES ASSUME NEW j \in 0 .. i  PROVE g[j] \in Seq(K)  OBVIOUS
      <3>1. j = i \/ j \in 0 .. i - 1  BY <2>1
      <3> QED  BY <3>1, <2>3
    <2>5. g[0] = <<>>  BY <2>1, <2>2 DEF Keeps
    <2>6. ASSUME NEW j \in 1 .. i
          PROVE  g[j] = IF q[j] \in S THEN Append(g[j - 1], q[j]) ELSE g[j - 1]
      <3>1. g[j - 1] = f[j - 1]  BY <2>1
      <3>2. CASE j = i
        <4>1. g[i] = last  BY <2>1
        <4> QED  BY <4>1, <3>1, <3>2 DEF last
      <3>3. CASE j # i
        <4>1. j \in 1 .. i - 1 /\ g[j] = f[j]  BY <3>3, <2>1
        <4> QED  BY <4>1, <3>1, <2>2 DEF Keeps
      <3> QED  BY <3>2, <3>3
    <2> HIDE DEF g
    <2>7. Keeps(g, q, S, i)  BY <2>5, <2>6 DEF Keeps
    <2> QED  BY <2>1, <2>4, <2>7
  <1> HIDE DEF P
  <1>3. n \in Nat /\ n \in 0 .. n  OBVIOUS
  <1>4. n \in P  BY <1>1, <1>2, <1>3, Along
  <1> QED  BY <1>4 DEF P

(* Only computes it.                                                       *)
LEMMA OnlyKeeps ==
    ASSUME NEW K, NEW q \in Seq(K), NEW S
    PROVE  \E f \in [0 .. Len(q) -> Seq(K)] : Keeps(f, q, S, Len(q)) /\ Only(q, S) = f[Len(q)]
  <1> DEFINE n == Len(q)
             F(g) == [i \in 0 .. n |-> IF i = 0 THEN <<>>
                                       ELSE IF q[i] \in S THEN Append(g[i - 1], q[i]) ELSE g[i - 1]]
             h == CHOOSE g : g = F(g)
  <1>1. n \in Nat /\ n \in 0 .. Len(q)  BY LenProperties
  <1>2. PICK f \in [0 .. n -> Seq(K)] : Keeps(f, q, S, n)
    <2> HIDE DEF n
    <2> QED  BY <1>1, KeepsExists
  <1>3. f = F(f)
    <2>1. \A i \in 0 .. n : f[i] = F(f)[i]
      <3> TAKE i \in 0 .. n
      <3>1. CASE i = 0  BY <3>1, <1>2 DEF Keeps
      <3>2. CASE i # 0
        <4>1. i \in 1 .. n  BY <3>2
        <4> QED  BY <4>1, <3>2, <1>2 DEF Keeps
      <3> QED  BY <3>1, <3>2
    <2> QED  BY <2>1
  <1>4. h = F(h)  BY <1>3
  <1>5. Only(q, S) = h[n]  BY DEF Only
  <1> HIDE DEF h
  <1>6. h[0] = <<>>  BY <1>1, <1>4
  <1>7. \A i \in 1 .. n : h[i] = IF q[i] \in S THEN Append(h[i - 1], q[i]) ELSE h[i - 1]
    <2> TAKE i \in 1 .. n
    <2>1. i \in 0 .. n /\ i # 0  OBVIOUS
    <2> QED  BY <2>1, <1>4
  <1>8. 0 .. n \subseteq {i \in 0 .. n : h[i] = f[i]}
    <2> DEFINE E == {i \in 0 .. n : h[i] = f[i]}
    <2>1. 0 \in E  BY <1>1, <1>2, <1>6 DEF Keeps
    <2>2. ASSUME NEW i \in 1 .. n, i - 1 \in E  PROVE i \in E
      BY <2>2, <1>2, <1>7 DEF Keeps
    <2> HIDE DEF E
    <2>3. 0 .. n \subseteq E  BY <2>1, <2>2, <1>1, Along
    <2> QED  BY <2>3 DEF E
  <1>9. h[n] = f[n]  BY <1>1, <1>8
  <1> QED  BY <1>2, <1>5, <1>9

Holds(q, x) == \E i \in 1 .. Len(q) : q[i] = x

(* Only(q, S) holds the elements of q that are in S and no others.         *)
LEMMA OnlyElements ==
    ASSUME NEW K, NEW q \in Seq(K), NEW S
    PROVE  /\ Only(q, S) \in Seq(K)
           /\ \A x : Holds(Only(q, S), x) <=> x \in S /\ Holds(q, x)
  <1> DEFINE n == Len(q)
  <1>1. n \in Nat /\ \A i \in 1 .. n : q[i] \in K  BY LenProperties, ElementOfSeq
  <1>2. PICK f \in [0 .. n -> Seq(K)] : Keeps(f, q, S, n) /\ Only(q, S) = f[n]
    BY OnlyKeeps
  <1> DEFINE Part(i, x) == \E j \in 1 .. i : q[j] = x
             E == {i \in 0 .. n : \A x : Holds(f[i], x) <=> x \in S /\ Part(i, x)}
  <1>3. 0 \in E
    <2>1. f[0] = <<>> /\ 0 \in 0 .. n  BY <1>1, <1>2 DEF Keeps
    <2>2. \A x : ~Holds(f[0], x) /\ ~Part(0, x)  BY <2>1 DEF Holds
    <2> QED  BY <2>1, <2>2
  <1>4. ASSUME NEW i \in 1 .. n, i - 1 \in E  PROVE i \in E
    <2>1. i \in 0 .. n /\ i - 1 \in 0 .. n /\ q[i] \in K  BY <1>1
    <2>2. f[i - 1] \in Seq(K)  BY <2>1
    <2>3. \A x : Part(i, x) <=> Part(i - 1, x) \/ x = q[i]
      <3>1. \A j : j \in 1 .. i <=> j \in 1 .. i - 1 \/ j = i  BY <1>1
      <3> QED  BY <3>1
    <2>4. \A x : Holds(f[i - 1], x) <=> x \in S /\ Part(i - 1, x)  BY <1>4
    <2>5. ASSUME NEW x  PROVE Holds(f[i], x) <=> x \in S /\ Part(i, x)
      <3>1. CASE q[i] \notin S
        <4>1. f[i] = f[i - 1]  BY <3>1, <1>2 DEF Keeps
        <4> HIDE DEF Part
        <4> QED  BY <4>1, <3>1, <2>3, <2>4
      <3>2. CASE q[i] \in S
        <4> DEFINE g == Append(f[i - 1], q[i])
                   m == Len(f[i - 1])
        <4>1. f[i] = g  BY <3>2, <1>2 DEF Keeps
        <4>2. /\ Len(g) = m + 1 /\ m \in Nat /\ g[m + 1] = q[i]
              /\ \A j \in 1 .. m : g[j] = f[i - 1][j]
          BY <2>1, <2>2, OneMore
        <4> HIDE DEF g
        <4>3. Holds(g, x) <=> Holds(f[i - 1], x) \/ x = q[i]
          <5>1. \A j : j \in 1 .. m + 1 <=> j \in 1 .. m \/ j = m + 1  BY <4>2
          <5> QED  BY <4>2, <5>1 DEF Holds
        <4> HIDE DEF Part
        <4> QED  BY <4>1, <4>3, <3>2, <2>3, <2>4
      <3> QED  BY <3>1, <3>2
    <2> QED  BY <2>1, <2>5
  <1>5. 0 .. n \subseteq E
    <2> HIDE DEF E
    <2> QED  BY <1>1, <1>3, <1>4, Along
  <1>6. n \in E  BY <1>1, <1>5
  <1>7. \A x : Part(n, x) <=> Holds(q, x)  BY DEF Holds
  <1>8. Only(q, S) \in Seq(K)  BY <1>1, <1>2
  <1> HIDE DEF Part
  <1> QED  BY <1>2, <1>6, <1>7, <1>8

-----------------------------------------------------------------------------
(* States.                                                                 *)

(* The parts of a state.                                                   *)
LEMMA Parts ==
    ASSUME NEW t \in State
    PROVE  /\ t.info \in Seq(VarInfo) /\ t.active \in Seq(Var) /\ t.activeControl \in Seq(Nat)
           /\ t.acts \in Seq(Var) /\ t.pushes \in Nat /\ t.renotify \in Seq(Var)
           /\ t.assignments \in Seq(Var) /\ t.control \in Seq(Nat)
           /\ t.decisions \in Seq(Var \cup {NoVar}) /\ t.propagations \in Seq(Var \X Nat)
           /\ t.newClauses \in Seq(Clause) /\ t.found \in BOOLEAN /\ t.ctx \in Seq(Snapshot)
           /\ t.satLiterals \in Seq(Var \X Nat) /\ t.root \subseteq Var /\ t.asserts \in BOOLEAN
  BY DEF State

(* What is known of one variable, one level and one entry.                 *)
LEMMA Elements ==
    ASSUME NEW t \in State
    PROVE  /\ \A v \in 1 .. Len(t.info) :
                 /\ t.info[v] \in VarInfo
                 /\ t.info[v].intro \in Nat /\ t.info[v].fixedAt \in Nat
                 /\ t.info[v].assigned \in BOOLEAN /\ t.info[v].atom \in BOOLEAN
                 /\ t.info[v].fixed \in BOOLEAN /\ t.info[v].active \in BOOLEAN
           /\ \A i \in 1 .. Len(t.ctx) :
                 /\ t.ctx[i] \in Snapshot /\ t.ctx[i].queue \subseteq Var
                 /\ t.ctx[i].seen \subseteq Var /\ t.ctx[i].prereg \subseteq Var
           /\ \A j \in 1 .. Len(t.satLiterals) :
                 t.satLiterals[j][1] \in Var /\ t.satLiterals[j][2] \in Nat
           /\ \A j \in 1 .. Len(t.propagations) :
                 t.propagations[j][1] \in Var /\ t.propagations[j][2] \in Nat
           /\ \A k \in 1 .. Len(t.activeControl) : t.activeControl[k] \in Nat
           /\ \A k \in 1 .. Len(t.control) : t.control[k] \in Nat
           /\ \A k \in 1 .. Len(t.assignments) : t.assignments[k] \in Var
           /\ \A k \in 1 .. Len(t.newClauses) : t.newClauses[k] \in Clause
  <1>1. /\ t.info \in Seq(VarInfo) /\ t.activeControl \in Seq(Nat) /\ t.control \in Seq(Nat)
        /\ t.propagations \in Seq(Var \X Nat) /\ t.ctx \in Seq(Snapshot)
        /\ t.satLiterals \in Seq(Var \X Nat) /\ t.assignments \in Seq(Var)
        /\ t.newClauses \in Seq(Clause)
    BY Parts
  <1>2. \A v \in 1 .. Len(t.info) : t.info[v] \in VarInfo  BY <1>1, ElementOfSeq
  <1>3. \A i \in 1 .. Len(t.ctx) : t.ctx[i] \in Snapshot  BY <1>1, ElementOfSeq
  <1>4. \A j \in 1 .. Len(t.satLiterals) : t.satLiterals[j] \in Var \X Nat  BY <1>1, ElementOfSeq
  <1>5. \A j \in 1 .. Len(t.propagations) : t.propagations[j] \in Var \X Nat  BY <1>1, ElementOfSeq
  <1>6. /\ \A k \in 1 .. Len(t.activeControl) : t.activeControl[k] \in Nat
        /\ \A k \in 1 .. Len(t.control) : t.control[k] \in Nat
        /\ \A k \in 1 .. Len(t.assignments) : t.assignments[k] \in Var
        /\ \A k \in 1 .. Len(t.newClauses) : t.newClauses[k] \in Clause
    BY <1>1, ElementOfSeq
  <1>7. \A v \in 1 .. Len(t.info) :
           /\ t.info[v].intro \in Nat /\ t.info[v].fixedAt \in Nat
           /\ t.info[v].assigned \in BOOLEAN /\ t.info[v].atom \in BOOLEAN
           /\ t.info[v].fixed \in BOOLEAN /\ t.info[v].active \in BOOLEAN
    BY <1>2 DEF VarInfo
  <1>8. \A i \in 1 .. Len(t.ctx) :
           /\ t.ctx[i].queue \subseteq Var
           /\ t.ctx[i].seen \subseteq Var /\ t.ctx[i].prereg \subseteq Var
    BY <1>3 DEF Snapshot
  <1> QED  BY <1>2, <1>3, <1>4, <1>5, <1>6, <1>7, <1>8

(* The lengths of its sequences.                                           *)
LEMMA Lengths ==
    ASSUME NEW t \in State
    PROVE  /\ Len(t.info) \in Nat /\ Len(t.active) \in Nat /\ Len(t.activeControl) \in Nat
           /\ Len(t.acts) \in Nat /\ Len(t.renotify) \in Nat /\ Len(t.assignments) \in Nat
           /\ Len(t.control) \in Nat /\ Len(t.decisions) \in Nat /\ Len(t.propagations) \in Nat
           /\ Len(t.newClauses) \in Nat /\ Len(t.ctx) \in Nat /\ Len(t.satLiterals) \in Nat
           /\ t.pushes \in Nat
           /\ DOMAIN t.info = 1 .. Len(t.info) /\ DOMAIN t.ctx = 1 .. Len(t.ctx)
  BY Parts, LenProperties

(* t and u agree on the variables, on the trail, on the waiting work.      *)
SameVars(t, u) ==
    /\ u.info = t.info /\ u.active = t.active /\ u.activeControl = t.activeControl
    /\ u.acts = t.acts /\ u.pushes = t.pushes

SameTrail(t, u) ==
    u.assignments = t.assignments /\ u.control = t.control /\ u.decisions = t.decisions

SameWork(t, u) ==
    /\ u.renotify = t.renotify /\ u.propagations = t.propagations /\ u.newClauses = t.newClauses
    /\ u.found = t.found /\ u.root = t.root /\ u.asserts = t.asserts

(* u is t after a callback that created atoms or sent lemmas, perhaps, and *)
(* assigned nothing.                                                       *)
Grown(t, u) ==
    /\ Good(u) /\ SameTrail(t, u)
    /\ u.activeControl = t.activeControl /\ u.acts = t.acts /\ u.pushes = t.pushes
    /\ u.renotify = t.renotify /\ u.root = t.root
    /\ Len(u.info) >= Len(t.info)
    /\ \A v \in 1 .. Len(t.info) : u.info[v] = t.info[v]
    /\ \A v \in Len(t.info) + 1 .. Len(u.info) : ~u.info[v].assigned /\ ~u.info[v].fixed
    /\ Len(u.ctx) = Len(t.ctx)
    /\ u.ctx[Len(u.ctx)].queue = t.ctx[Len(t.ctx)].queue

(* Callbacks compose.                                                      *)
LEMMA GrownTransitive ==
    ASSUME NEW t, NEW u, NEW w, t \in State, Grown(t, u), Grown(u, w)
    PROVE  Grown(t, w)
  <1>1. u \in State /\ w \in State  BY DEF Grown, Good, Sized
  <1>2. Len(t.info) \in Nat /\ Len(u.info) \in Nat /\ Len(w.info) \in Nat  BY <1>1, Lengths
  <1>3. ASSUME NEW v \in Len(t.info) + 1 .. Len(w.info)
        PROVE  ~w.info[v].assigned /\ ~w.info[v].fixed
    <2>1. CASE v <= Len(u.info)
      <3>1. v \in Len(t.info) + 1 .. Len(u.info) /\ v \in 1 .. Len(u.info)  BY <2>1, <1>2
      <3> QED  BY <3>1 DEF Grown
    <2>2. CASE ~(v <= Len(u.info))
      <3>1. v \in Len(u.info) + 1 .. Len(w.info)  BY <2>2, <1>2
      <3> QED  BY <3>1 DEF Grown
    <2> QED  BY <2>1, <2>2
  <1>4. \A v \in 1 .. Len(t.info) : w.info[v] = t.info[v]
    <2>1. Len(u.info) >= Len(t.info)  BY DEF Grown
    <2>2. \A v \in 1 .. Len(t.info) : v \in 1 .. Len(u.info)  BY <1>2, <2>1
    <2> QED  BY <2>2 DEF Grown
  <1>5. Len(w.info) >= Len(t.info)  BY <1>2 DEF Grown
  <1> QED  BY <1>3, <1>4, <1>5 DEF Grown, SameTrail

(* A callback may do nothing.                                              *)
LEMMA GrownReflexive ==
    ASSUME NEW t, Good(t)
    PROVE  Grown(t, t)
  <1>1. Len(t.info) \in Nat  BY Lengths DEF Good, Sized
  <1>2. \A v \in Len(t.info) + 1 .. Len(t.info) : FALSE  BY <1>1
  <1> QED  BY <1>1, <1>2 DEF Grown, SameTrail

(* The levels of a state, one after another.                               *)
LEMMA LevelNumbers ==
    ASSUME NEW t \in State, Levels(t)
    PROVE  /\ Len(t.ctx) \in Nat /\ Len(t.ctx) > 0 /\ Len(t.ctx) \in 1 .. Len(t.ctx)
           /\ Len(t.ctx) > Len(t.activeControl)
           /\ Len(t.ctx) = Len(t.activeControl) + 1 + Len(t.control)
           /\ \A d \in 0 .. Len(t.control) : Len(t.activeControl) + 1 + d \in 1 .. Len(t.ctx)
  <1> DEFINE a == Len(t.activeControl)
             d == Len(t.decisions)
             c == Len(t.ctx)
  <1>1. a \in Nat /\ d \in Nat /\ c \in Nat  BY Lengths
  <1>2. c = 1 + a + d /\ Len(t.control) = d  BY DEF Levels
  <1> HIDE DEF a, c, d
  <1>3. /\ c > 0 /\ c \in 1 .. c /\ c > a /\ c = a + 1 + d
        /\ \A e \in 0 .. d : a + 1 + e \in 1 .. c
    BY <1>1, <1>2
  <1> QED  BY <1>1, <1>2, <1>3 DEF a, c, d

(* theoryCheck.                                                            *)
LEMMA TheoryCheckFields ==
    ASSUME NEW t \in State, Len(t.ctx) > 0, NEW u, u = theoryCheck(t)
    PROVE  /\ u \in State /\ SameVars(t, u) /\ SameTrail(t, u) /\ SameWork(t, u)
           /\ u.satLiterals = t.satLiterals /\ Len(u.ctx) = Len(t.ctx)
           /\ \A i \in 1 .. Len(t.ctx) : /\ u.ctx[i].queue = t.ctx[i].queue
                                         /\ u.ctx[i].prereg = t.ctx[i].prereg
           /\ u.ctx[Len(t.ctx)].seen = t.ctx[Len(t.ctx)].queue
  <1> DEFINE n == Len(t.ctx)
             x == [t.ctx[n] EXCEPT !.seen = t.ctx[n].queue]
             q == [t.ctx EXCEPT ![n] = x]
  <1>1. t.ctx \in Seq(Snapshot) /\ n \in Nat /\ n \in 1 .. n /\ t.ctx[n] \in Snapshot
    BY Parts, Lengths, Elements
  <1>2. x \in Snapshot /\ x.queue = t.ctx[n].queue /\ x.prereg = t.ctx[n].prereg
        /\ x.seen = t.ctx[n].queue
    BY <1>1 DEF Snapshot
  <1> HIDE DEF x
  <1>3. q \in Seq(Snapshot) /\ Len(q) = n /\ q[n] = x /\ \A i \in 1 .. n : i # n => q[i] = t.ctx[i]
    BY <1>1, <1>2, ExceptSeq
  <1>4. u = [t EXCEPT !.ctx = q]  BY DEF theoryCheck, q, x, CtxLevel, Top
  <1> HIDE DEF q
  <1>5. u \in State /\ u.ctx = q  BY <1>3, <1>4 DEF State
  <1>6. SameVars(t, u) /\ SameTrail(t, u) /\ SameWork(t, u) /\ u.satLiterals = t.satLiterals
    BY <1>4 DEF State, SameVars, SameTrail, SameWork
  <1> QED  BY <1>2, <1>3, <1>5, <1>6

(* The theories get the queue: a state of cvc5 stays one.                  *)
LEMMA TheoryCheckGrown ==
    ASSUME NEW t, Good(t), NEW u, u = theoryCheck(t)
    PROVE  /\ Grown(t, u) /\ u.found = t.found /\ u.newClauses = t.newClauses
           /\ u.propagations = t.propagations /\ Checked(u)
  <1>0. /\ Sized(t) /\ Levels(t) /\ Marks(t) /\ Recorded(t) /\ Segments(t) /\ FixedOK(t)
        /\ Contexts(t) /\ Preregistered(t) /\ Renotified(t) /\ Sent(t) /\ Clauses(t)
        /\ Inferences(t) /\ AssertsOK(t)
    BY DEF Good
  <1>1. t \in State  BY <1>0 DEF Sized
  <1>2. Len(t.ctx) > 0 /\ Len(t.ctx) \in Nat /\ Len(t.ctx) \in 1 .. Len(t.ctx)
    BY <1>0, <1>1, LevelNumbers
  <1>3. /\ u \in State /\ SameVars(t, u) /\ SameTrail(t, u) /\ SameWork(t, u)
        /\ u.satLiterals = t.satLiterals /\ Len(u.ctx) = Len(t.ctx)
        /\ \A i \in 1 .. Len(t.ctx) : /\ u.ctx[i].queue = t.ctx[i].queue
                                      /\ u.ctx[i].prereg = t.ctx[i].prereg
        /\ u.ctx[Len(t.ctx)].seen = t.ctx[Len(t.ctx)].queue
    BY <1>1, <1>2, TheoryCheckFields
  <1>4. Sized(u) /\ Levels(u) /\ AssertsOK(u)  BY <1>0, <1>3 DEF Sized, Levels, SameVars, SameTrail, SameWork, AssertsOK
  <1>5. Marks(u)  BY <1>0, <1>3 DEF Marks, LiveAt, SameVars
  <1>6. Recorded(u) /\ Segments(u) /\ FixedOK(u)
    BY <1>0, <1>3 DEF Recorded, Segments, FixedOK, SameVars, SameTrail
  <1>7. Contexts(u)
    <2>1. \A v, k : LiveAt(t, v, k) => LiveAt(u, v, k)  BY <1>3 DEF LiveAt, SameVars
    <2>2. u.activeControl = t.activeControl  BY <1>3 DEF SameVars
    <2>3. \A i \in 1 .. Len(t.ctx) : \A v \in u.ctx[i].queue \cup u.ctx[i].prereg : LiveAt(t, v, i - 1)
      BY <1>0, <1>3 DEF Contexts
    <2>4. Len(u.ctx) = Len(t.ctx) /\ u.satLiterals = t.satLiterals  BY <1>3
    <2>5. \A j \in 1 .. Len(t.satLiterals) :
              /\ LiveAt(t, t.satLiterals[j][1], Len(t.activeControl))
              /\ t.satLiterals[j][2] <= Len(t.ctx)
      BY <1>0, Zenon DEF Contexts
    <2>6. \A j, k \in 1 .. Len(t.satLiterals) : j <= k => t.satLiterals[j][2] <= t.satLiterals[k][2]
      BY <1>0, Zenon DEF Contexts
    <2>7. \A i \in 1 .. Len(u.ctx) : \A v \in u.ctx[i].queue \cup u.ctx[i].prereg : LiveAt(u, v, i - 1)
      BY <2>1, <2>3, <2>4, Zenon
    <2>8. \A j \in 1 .. Len(u.satLiterals) :
              /\ LiveAt(u, u.satLiterals[j][1], Len(u.activeControl))
              /\ u.satLiterals[j][2] <= Len(u.ctx)
      BY <2>1, <2>2, <2>4, <2>5, Zenon
    <2>9. \A j, k \in 1 .. Len(u.satLiterals) : j <= k => u.satLiterals[j][2] <= u.satLiterals[k][2]
      BY <2>4, <2>6, Zenon
    <2> QED  BY <2>7, <2>8, <2>9, Zenon DEF Contexts
  <1>8. Preregistered(u)
    <2>1. /\ u.info = t.info /\ u.activeControl = t.activeControl
          /\ Len(u.ctx) = Len(t.ctx) /\ u.satLiterals = t.satLiterals
      BY <1>3 DEF SameVars
    <2>2. ASSUME NEW v \in 1 .. Len(u.info), NEW i \in 1 .. Len(u.ctx),
                 u.info[v].active, u.info[v].atom, u.info[v].intro < i
          PROVE  v \in u.ctx[i].prereg \/ Waits(u, v, i)
      <3>1. v \in t.ctx[i].prereg \/ Waits(t, v, i)
        BY <2>1, <2>2, <1>0, Zenon DEF Preregistered
      <3>2. Waits(t, v, i) => Waits(u, v, i)  BY <2>1, Zenon DEF Waits
      <3>3. u.ctx[i].prereg = t.ctx[i].prereg  BY <2>1, <1>3
      <3> QED  BY <3>1, <3>2, <3>3, Zenon
    <2> QED  BY <2>2, Zenon DEF Preregistered
  <1>9. Renotified(u)  BY <1>0, <1>3, SMTT(30) DEF Renotified, Again, SameVars, SameWork
  <1>10. Sent(u)
    <2>1. \A d \in 0 .. Len(t.control) : Len(t.activeControl) + 1 + d \in 1 .. Len(t.ctx)
      BY <1>0, <1>1, LevelNumbers
    <2>2. /\ u.info = t.info /\ u.activeControl = t.activeControl /\ u.control = t.control
          /\ u.assignments = t.assignments
      BY <1>3 DEF SameVars, SameTrail
    <2> QED  BY <2>1, <2>2, <1>0, <1>3, SMTT(30) DEF Sent
  <1>11. Clauses(u)  BY <1>0, <1>3 DEF Clauses, ClauseOK, LiveAt, SameVars, SameWork
  <1>12. Inferences(u)  BY <1>0, <1>3 DEF Inferences, SameTrail, SameWork
  <1>13. Good(u)  BY <1>4, <1>5, <1>6, <1>7, <1>8, <1>9, <1>10, <1>11, <1>12 DEF Good
  <1>14. Grown(t, u)
    <2>1. Len(t.info) \in Nat  BY <1>1, Lengths
    <2>2. \A v \in Len(t.info) + 1 .. Len(t.info) : FALSE  BY <2>1
    <2> QED  BY <1>2, <1>3, <1>13, <2>1, <2>2 DEF Grown, SameVars, SameWork
  <1>15. u.ctx[Len(u.ctx)].queue = u.ctx[Len(u.ctx)].seen  BY <1>2, <1>3
  <1> QED  BY <1>3, <1>14, <1>15 DEF Checked, SameVars, SameWork

(* u is t but for clauses, propagations and flags.                         *)
SameButWork(t, u) ==
    /\ u \in State /\ SameVars(t, u) /\ SameTrail(t, u) /\ u.renotify = t.renotify
    /\ u.ctx = t.ctx /\ u.satLiterals = t.satLiterals

(* Good depends on the waiting work only in Clauses and Inferences.        *)
LEMMA SameButWorkGood ==
    ASSUME NEW t, Good(t), NEW u, SameButWork(t, u), Clauses(u), Inferences(u), AssertsOK(u)
    PROVE  Good(u)
  <1>0. /\ Sized(t) /\ Levels(t) /\ Marks(t) /\ Recorded(t) /\ Segments(t) /\ FixedOK(t)
        /\ Contexts(t) /\ Preregistered(t) /\ Renotified(t) /\ Sent(t)
    BY DEF Good
  <1>1. /\ u \in State /\ SameVars(t, u) /\ SameTrail(t, u) /\ u.renotify = t.renotify
        /\ u.ctx = t.ctx /\ u.satLiterals = t.satLiterals
    BY DEF SameButWork
  <1>2. Sized(u) /\ Levels(u)  BY <1>0, <1>1 DEF Sized, Levels, SameVars, SameTrail
  <1>3. Marks(u)  BY <1>0, <1>1 DEF Marks, LiveAt, SameVars
  <1>4. Recorded(u) /\ Segments(u) /\ FixedOK(u)
    <2>1. u.info = t.info /\ u.assignments = t.assignments /\ u.control = t.control
      BY <1>1 DEF SameVars, SameTrail
    <2>2. Recorded(u)  BY <1>0, <2>1 DEF Recorded
    <2>3. Segments(u)  BY <1>0, <2>1 DEF Segments
    <2>4. FixedOK(u)  BY <1>0, <2>1 DEF FixedOK
    <2> QED  BY <2>2, <2>3, <2>4
  <1>5. Contexts(u)  BY <1>0, <1>1 DEF Contexts, LiveAt, SameVars
  <1>6. Preregistered(u)  BY <1>0, <1>1 DEF Preregistered, Waits, SameVars
  <1>7. Renotified(u)  BY <1>0, <1>1 DEF Renotified, Again, SameVars
  <1>8. Sent(u)  BY <1>0, <1>1 DEF Sent, SameVars, SameTrail
  <1> QED  BY <1>2, <1>3, <1>4, <1>5, <1>6, <1>7, <1>8 DEF Good

LEMMA SameButWorkGrown ==
    ASSUME NEW t, Good(t), NEW u, Good(u), SameButWork(t, u), u.root = t.root
    PROVE  Grown(t, u)
  <1>1. Len(t.info) \in Nat  BY Lengths DEF Good, Sized
  <1>2. \A v \in Len(t.info) + 1 .. Len(t.info) : FALSE  BY <1>1
  <1> QED  BY <1>1, <1>2 DEF Grown, SameButWork, SameVars

(* The active variables, and variables in general.                         *)
LEMMA ActiveVars ==
    ASSUME NEW t, Sized(t), Marks(t)
    PROVE  /\ \A v : v \in Active(t) <=> v \in 1 .. Len(t.info) /\ t.info[v].active
           /\ \A v \in Active(t) : LiveAt(t, v, Len(t.activeControl))
           /\ 1 .. Len(t.info) \subseteq Var /\ Vars(t) = 1 .. Len(t.info)
           /\ Atoms(t) = {v \in Active(t) : t.info[v].atom}
           /\ NoVar \notin Var
  <1>1. t \in State /\ Len(t.info) \in Nat /\ DOMAIN t.info = 1 .. Len(t.info)  BY Lengths DEF Sized
  <1>2. \A v : v \in Active(t) <=> v \in 1 .. Len(t.info) /\ t.info[v].active
    BY <1>1 DEF Active, Vars
  <1>3. \A v \in Active(t) : LiveAt(t, v, Len(t.activeControl))
    BY <1>2 DEF Marks
  <1>4. 1 .. Len(t.info) \subseteq Var
    <2>1. t.pushes \in Nat /\ t.pushes <= MaxPushes /\ Len(t.info) <= MaxLiterals + t.pushes
      BY <1>1, Lengths DEF Sized
    <2>2. Len(t.info) <= MaxLiterals + MaxPushes  BY <1>1, <2>1, BoundsAssumption
    <2> QED  BY <1>1, <2>2, BoundsAssumption DEF Var
  <1>5. NoVar \notin Var  BY BoundsAssumption DEF Var, NoVar
  <1> QED  BY <1>1, <1>2, <1>3, <1>4, <1>5 DEF Vars, Atoms

(* A clause that is made now.                                              *)
LEMMA ClauseMade ==
    ASSUME NEW t, Good(t), NEW C, \A v \in C : LiveAt(t, v, Len(t.activeControl)),
           NEW c, c = [vars |-> C, act |-> CurrentAct(t)]
    PROVE  c \in Clause /\ c.vars = C /\ ClauseOK(t, c)
  <1>1. Sized(t) /\ Levels(t) /\ Marks(t) /\ t \in State  BY DEF Good, Sized
  <1>2. 1 .. Len(t.info) \subseteq Var /\ NoVar \notin Var  BY <1>1, ActiveVars
  <1>3. C \subseteq Var  BY <1>2 DEF LiveAt
  <1>4. t.acts \in Seq(Var) /\ Len(t.acts) \in Nat /\ Len(t.acts) = Len(t.activeControl)
    BY <1>1, Parts, Lengths DEF Levels
  <1> DEFINE n == Len(t.acts)
  <1>5. CASE t.acts = <<>>
    <2>1. CurrentAct(t) = NoVar /\ n = 0  BY <1>5 DEF CurrentAct
    <2>2. c \in Clause /\ c.vars = C /\ c.act = NoVar  BY <2>1, <1>3 DEF Clause
    <2>3. \A v \in C : LiveAt(t, v, 0)  BY <2>1, <1>4
    <2> QED  BY <2>2, <2>3 DEF ClauseOK
  <1>6. CASE t.acts # <<>>
    <2>1. CurrentAct(t) = t.acts[n] /\ n \in 1 .. n  BY <1>4, <1>6, EmptySeq DEF CurrentAct
    <2>2. LiveAt(t, t.acts[n], n) /\ t.info[t.acts[n]].intro = n  BY <1>1, <2>1 DEF Marks
    <2>3. t.acts[n] \in 1 .. Len(t.info) /\ t.acts[n] \in Var /\ t.acts[n] # NoVar
      BY <2>2, <1>2 DEF LiveAt
    <2>4. c \in Clause /\ c.vars = C /\ c.act = t.acts[n]  BY <2>1, <2>3, <1>3 DEF Clause
    <2>5. ASSUME NEW k \in 1 .. n, t.acts[k] = c.act  PROVE k = n
      BY <2>2, <2>4, <2>5, <1>1 DEF Marks
    <2> QED  BY <2>3, <2>4, <2>5, <1>4 DEF ClauseOK
  <1> QED  BY <1>5, <1>6

(* A clause reaches the SAT solver.                                        *)
LEMMA ToSolverGood ==
    ASSUME NEW t, Good(t), NEW c \in Clause, ClauseOK(t, c), NEW u, u = ToSolver(t, c)
    PROVE  /\ Good(u) /\ SameButWork(t, u)
           /\ u.newClauses = t.newClauses /\ u.propagations = t.propagations /\ u.found = t.found
  <1>1. t \in State /\ Clauses(t) /\ Inferences(t) /\ AssertsOK(t)  BY DEF Good, Sized
  <1>2. c.vars \subseteq Var  BY DEF Clause
  <1>3. CASE c.act # NoVar
    <2>1. u = t  BY <1>3 DEF ToSolver
    <2> QED  BY <2>1, <1>1 DEF SameButWork, SameVars, SameTrail
  <1>4. CASE c.act = NoVar
    <2> DEFINE r == t.root \cup c.vars
    <2>1. u = [t EXCEPT !.root = r]  BY <1>4 DEF ToSolver
    <2>2. r \subseteq Var  BY <1>1, <1>2, Parts
    <2>3. \A v \in r : v \in 1 .. Len(t.info) /\ t.info[v].intro = 0
      <3>1. ASSUME NEW v \in c.vars  PROVE v \in 1 .. Len(t.info) /\ t.info[v].intro = 0
        <4>1. LiveAt(t, v, 0)  BY <1>4 DEF ClauseOK
        <4>2. v \in 1 .. Len(t.info) /\ t.info[v].intro \in Nat /\ t.info[v].intro <= 0
          BY <4>1, <1>1, Elements DEF LiveAt
        <4> QED  BY <4>2
      <3> QED  BY <3>1, <1>1 DEF Clauses
    <2> HIDE DEF r
    <2>4. u \in State /\ u.root = r  BY <2>1, <2>2, <1>1 DEF State
    <2>5. /\ SameVars(t, u) /\ SameTrail(t, u) /\ u.renotify = t.renotify /\ u.ctx = t.ctx
          /\ u.satLiterals = t.satLiterals /\ u.newClauses = t.newClauses
          /\ u.propagations = t.propagations /\ u.found = t.found /\ u.asserts = t.asserts
      BY <2>1, <1>1 DEF State, SameVars, SameTrail
    <2>6. SameButWork(t, u)  BY <2>4, <2>5 DEF SameButWork
    <2>7. Clauses(u)  BY <1>1, <2>3, <2>4, <2>5 DEF Clauses, ClauseOK, LiveAt, SameVars
    <2>8. Inferences(u)  BY <1>1, <2>5 DEF Inferences, SameTrail
    <2>9. AssertsOK(u)  BY <1>1, <2>5 DEF AssertsOK
    <2>10. Good(u)  BY <2>6, <2>7, <2>8, <2>9, SameButWorkGood
    <2> QED  BY <2>5, <2>6, <2>10
  <1> QED  BY <1>3, <1>4

(* A clause waits in d_new_clauses.                                        *)
Waiting(t) == t.newClauses # <<>>

(* A clause is buffered.                                                   *)
LEMMA BufferGood ==
    ASSUME NEW t, Good(t), NEW c \in Clause, ClauseOK(t, c),
           NEW u, u = [t EXCEPT !.newClauses = Append(@, c)]
    PROVE  /\ Good(u) /\ SameButWork(t, u) /\ Grown(t, u)
           /\ u.propagations = t.propagations /\ u.found = t.found /\ Waiting(u)
  <1>1. t \in State /\ Clauses(t) /\ Inferences(t) /\ AssertsOK(t)  BY DEF Good, Sized
  <1> DEFINE q == Append(t.newClauses, c)
  <1>2. /\ q \in Seq(Clause) /\ Len(q) = Len(t.newClauses) + 1 /\ Len(t.newClauses) \in Nat
        /\ q[Len(t.newClauses) + 1] = c
        /\ \A i \in 1 .. Len(t.newClauses) : q[i] = t.newClauses[i]
    BY <1>1, Parts, OneMore
  <1>3. u = [t EXCEPT !.newClauses = q]  OBVIOUS
  <1>4. q # <<>>  BY <1>2
  <1> HIDE DEF q
  <1>5. u \in State /\ u.newClauses = q  BY <1>1, <1>2, <1>3 DEF State
  <1>6. /\ SameVars(t, u) /\ SameTrail(t, u) /\ u.renotify = t.renotify /\ u.ctx = t.ctx
        /\ u.satLiterals = t.satLiterals /\ u.root = t.root
        /\ u.propagations = t.propagations /\ u.found = t.found /\ u.asserts = t.asserts
    BY <1>1, <1>3 DEF State, SameVars, SameTrail
  <1>7. SameButWork(t, u)  BY <1>5, <1>6 DEF SameButWork
  <1>8. ASSUME NEW j \in 1 .. Len(q)  PROVE ClauseOK(u, q[j])
    <2>1. ClauseOK(t, q[j])
      <3>1. j \in 1 .. Len(t.newClauses) \/ j = Len(t.newClauses) + 1  BY <1>2
      <3> QED  BY <3>1, <1>1, <1>2 DEF Clauses
    <2> QED  BY <2>1, <1>6 DEF ClauseOK, LiveAt, SameVars
  <1>9. Clauses(u)  BY <1>1, <1>5, <1>6, <1>8 DEF Clauses, SameVars
  <1>10. Inferences(u)  BY <1>1, <1>6 DEF Inferences, SameTrail
  <1>12. AssertsOK(u)  BY <1>1, <1>6 DEF AssertsOK
  <1>11. Good(u)  BY <1>7, <1>9, <1>10, <1>12, SameButWorkGood
  <1> QED  BY <1>4, <1>5, <1>6, <1>7, <1>11, SameButWorkGrown DEF Waiting

(* add_clause, during the search and before it.                            *)
LEMMA AddClauseGood ==
    ASSUME NEW t, Good(t), NEW C, C \subseteq Active(t), NEW sat \in BOOLEAN, NEW search \in BOOLEAN,
           NEW u, u = add_clause(t, C, sat, search)
    PROVE  /\ Good(u) /\ SameButWork(t, u)
           /\ search => Grown(t, u)
           /\ u.propagations = t.propagations /\ u.found = t.found
  <1>1. t \in State /\ Sized(t) /\ Marks(t) /\ FixedOK(t) /\ Clauses(t) /\ Inferences(t) /\ AssertsOK(t)
    BY DEF Good, Sized
  <1> DEFINE ok == \A v \in C : t.info[v].active /\ (t.info[v].fixed => t.info[v].assigned)
             b == t.asserts /\ ok
             a == [t EXCEPT !.asserts = b]
             c == [vars |-> C, act |-> CurrentAct(t)]
             skip == sat /\ (\E v \in C : t.info[v].fixed /\ t.info[v].assigned)
  <1>2. ~FixAnywhere => ok
    <2> SUFFICES ASSUME ~FixAnywhere, NEW v \in C
                 PROVE t.info[v].active /\ (t.info[v].fixed => t.info[v].assigned)
      OBVIOUS
    <2>1. v \in 1 .. Len(t.info) /\ t.info[v].active  BY <1>1, ActiveVars
    <2> QED  BY <2>1, <1>1 DEF FixedOK
  <1>3. u = IF skip THEN a
            ELSE IF search THEN [a EXCEPT !.newClauses = Append(@, c)]
            ELSE ToSolver(a, c)
    BY DEF add_clause
  <1> HIDE DEF ok, skip
  <1>4. b \in BOOLEAN  OBVIOUS
  <1>5. ~FixAnywhere => b  BY <1>1, <1>2 DEF AssertsOK
  <1> HIDE DEF b
  <1>6. /\ a \in State /\ SameVars(t, a) /\ SameTrail(t, a) /\ a.renotify = t.renotify /\ a.ctx = t.ctx
        /\ a.satLiterals = t.satLiterals /\ a.newClauses = t.newClauses /\ a.root = t.root
        /\ a.propagations = t.propagations /\ a.found = t.found /\ a.asserts = b
    BY <1>1, <1>4 DEF State, SameVars, SameTrail
  <1> HIDE DEF a
  <1>7. SameButWork(t, a)  BY <1>6 DEF SameButWork
  <1>8. Good(a)
    <2>1. Clauses(a)  BY <1>1, <1>6 DEF Clauses, ClauseOK, LiveAt, SameVars
    <2>2. Inferences(a)  BY <1>1, <1>6 DEF Inferences, SameTrail
    <2>3. AssertsOK(a)  BY <1>5, <1>6 DEF AssertsOK
    <2> QED  BY <1>7, <2>1, <2>2, <2>3, SameButWorkGood
  <1>9. Grown(t, a)  BY <1>6, <1>7, <1>8, SameButWorkGrown
  <1>10. c \in Clause /\ ClauseOK(a, c)
    <2>1. c \in Clause /\ ClauseOK(t, c)  BY <1>1, ActiveVars, ClauseMade
    <2> QED  BY <2>1, <1>6 DEF ClauseOK, LiveAt, SameVars
  <1> HIDE DEF c
  <1>11. CASE skip
    <2>1. u = a  BY <1>3, <1>11
    <2> QED  BY <2>1, <1>6, <1>7, <1>8, <1>9
  <1>12. CASE ~skip /\ search
    <2>1. u = [a EXCEPT !.newClauses = Append(@, c)]  BY <1>3, <1>12
    <2>2. /\ Good(u) /\ SameButWork(a, u) /\ Grown(a, u)
          /\ u.propagations = a.propagations /\ u.found = a.found
      BY <2>1, <1>8, <1>10, BufferGood
    <2>3. SameButWork(t, u)  BY <1>7, <2>2 DEF SameButWork, SameVars, SameTrail
    <2>4. Grown(t, u)  BY <1>1, <1>9, <2>2, GrownTransitive
    <2> QED  BY <2>2, <2>3, <2>4, <1>6
  <1>13. CASE ~skip /\ ~search
    <2>1. u = ToSolver(a, c)  BY <1>3, <1>13
    <2>2. Good(u) /\ SameButWork(a, u) /\ u.propagations = a.propagations /\ u.found = a.found
      BY <2>1, <1>8, <1>10, ToSolverGood
    <2>3. SameButWork(t, u)  BY <1>7, <2>2 DEF SameButWork, SameVars, SameTrail
    <2> QED  BY <2>2, <2>3, <1>6, <1>13
  <1> QED  BY <1>11, <1>12, <1>13

-----------------------------------------------------------------------------
(* New variables.                                                          *)

Fresh(l, atom) == [intro |-> l, fixedAt |-> 0, assigned |-> FALSE, atom |-> atom,
                   fixed |-> FALSE, active |-> TRUE]

(* The variables of u are those of t and a fresh one of level l.           *)
Extends(t, u, l, atom) ==
    /\ Len(u.info) = Len(t.info) + 1 /\ u.info[Len(t.info) + 1] = Fresh(l, atom)
    /\ \A v \in 1 .. Len(t.info) : u.info[v] = t.info[v]
    /\ Len(u.active) = Len(t.active) + 1 /\ u.active[Len(t.active) + 1] = Len(t.info) + 1
    /\ \A j \in 1 .. Len(t.active) : u.active[j] = t.active[j]

(* add_new_var appends one variable of the present user level.             *)
LEMMA AddNewVarFields ==
    ASSUME NEW t \in State, Len(t.info) + 1 \in Var, NEW atom \in BOOLEAN,
           NEW u, u = add_new_var(t, atom)
    PROVE  /\ u \in State /\ Extends(t, u, Len(t.activeControl), atom)
           /\ SameTrail(t, u) /\ SameWork(t, u)
           /\ u.activeControl = t.activeControl /\ u.acts = t.acts /\ u.pushes = t.pushes
           /\ u.ctx = t.ctx /\ u.satLiterals = t.satLiterals
  <1> DEFINE x == Fresh(Len(t.activeControl), atom)
             n == Len(t.info) + 1
             q == Append(t.info, x)
             a == Append(t.active, n)
  <1>1. t.info \in Seq(VarInfo) /\ t.active \in Seq(Var) /\ Len(t.activeControl) \in Nat
    BY Parts, Lengths
  <1>2. x \in VarInfo  BY <1>1 DEF Fresh, VarInfo
  <1>3. u = [t EXCEPT !.info = q, !.active = a]  BY DEF add_new_var, Fresh, UserLevel
  <1> HIDE DEF x
  <1>4. /\ q \in Seq(VarInfo) /\ Len(q) = Len(t.info) + 1 /\ q[Len(t.info) + 1] = x
        /\ \A v \in 1 .. Len(t.info) : q[v] = t.info[v]
    BY <1>1, <1>2, OneMore
  <1> HIDE DEF q, n
  <1>5. /\ a \in Seq(Var) /\ Len(a) = Len(t.active) + 1 /\ a[Len(t.active) + 1] = n
        /\ \A v \in 1 .. Len(t.active) : a[v] = t.active[v]
    <2>1. n \in Var  BY DEF n
    <2> QED  BY <1>1, <2>1, OneMore
  <1> HIDE DEF a
  <1>6. u \in State /\ u.info = q /\ u.active = a
    <2>1. q \in Seq(VarInfo) /\ a \in Seq(Var)  BY <1>4, <1>5
    <2>2. u \in State  BY <2>1, <1>3 DEF State
    <2> QED  BY <2>1, <1>3 DEF State
  <1>7. /\ SameTrail(t, u) /\ SameWork(t, u)
        /\ u.activeControl = t.activeControl /\ u.acts = t.acts /\ u.pushes = t.pushes
        /\ u.ctx = t.ctx /\ u.satLiterals = t.satLiterals
    BY <1>3 DEF State, SameTrail, SameWork
  <1>8. Extends(t, u, Len(t.activeControl), atom)  BY <1>4, <1>5, <1>6 DEF Extends, n, x
  <1> QED  BY <1>6, <1>7, <1>8

(* What is said of the variables of t still holds.                         *)
LEMMA ExtendsFacts ==
    ASSUME NEW t \in State, NEW u \in State, NEW l \in Nat, NEW atom \in BOOLEAN,
           Extends(t, u, l, atom)
    PROVE  /\ \A v \in 1 .. Len(u.info) : v \in 1 .. Len(t.info) \/ v = Len(t.info) + 1
           /\ \A v \in 1 .. Len(t.info) : v \in 1 .. Len(u.info) /\ u.info[v] = t.info[v]
           /\ Len(t.info) + 1 \in 1 .. Len(u.info) /\ Len(t.info) + 1 \notin 1 .. Len(t.info)
           /\ LET x == u.info[Len(t.info) + 1] IN
              /\ x.intro = l /\ x.active /\ x.atom = atom /\ ~x.assigned /\ ~x.fixed
           /\ \A v, k : LiveAt(t, v, k) => LiveAt(u, v, k)
           /\ LiveAt(u, Len(t.info) + 1, l)
           /\ \A j \in 1 .. Len(u.active) : j \in 1 .. Len(t.active) \/ j = Len(t.active) + 1
           /\ \A j \in 1 .. Len(t.active) : j \in 1 .. Len(u.active) /\ u.active[j] = t.active[j]
           /\ Len(t.active) + 1 \in 1 .. Len(u.active)
           /\ u.active[Len(t.active) + 1] = Len(t.info) + 1
  <1> DEFINE n == Len(t.info)
             a == Len(t.active)
  <1>1. /\ n \in Nat /\ a \in Nat /\ Len(u.info) = n + 1 /\ Len(u.active) = a + 1
        /\ u.info[n + 1] = Fresh(l, atom) /\ u.active[a + 1] = n + 1
        /\ \A v \in 1 .. n : u.info[v] = t.info[v]
        /\ \A j \in 1 .. a : u.active[j] = t.active[j]
    BY Lengths DEF Extends
  <1> HIDE DEF n, a
  <1>2. /\ \A v \in 1 .. n + 1 : v \in 1 .. n \/ v = n + 1
        /\ \A v \in 1 .. n : v \in 1 .. n + 1
        /\ n + 1 \in 1 .. n + 1 /\ n + 1 \notin 1 .. n
        /\ \A v \in 1 .. a + 1 : v \in 1 .. a \/ v = a + 1
        /\ \A v \in 1 .. a : v \in 1 .. a + 1
        /\ a + 1 \in 1 .. a + 1
    BY <1>1
  <1>3. LET x == u.info[n + 1] IN
        /\ x.intro = l /\ x.active /\ x.atom = atom /\ ~x.assigned /\ ~x.fixed
    BY <1>1 DEF Fresh
  <1>4. \A v, k : LiveAt(t, v, k) => LiveAt(u, v, k)  BY <1>1, <1>2 DEF LiveAt, n
  <1>5. LiveAt(u, n + 1, l)  BY <1>1, <1>2, <1>3 DEF LiveAt
  <1> QED  BY <1>1, <1>2, <1>3, <1>4, <1>5 DEF n, a

(* A fresh variable has no value.                                          *)
LEMMA ExtendsTrail ==
    ASSUME NEW t, Good(t), NEW u \in State, NEW l \in Nat, NEW atom \in BOOLEAN,
           Extends(t, u, l, atom), SameTrail(t, u)
    PROVE  Recorded(u) /\ Segments(u) /\ FixedOK(u)
  <1>0. t \in State /\ Recorded(t) /\ Segments(t) /\ FixedOK(t)  BY DEF Good, Sized
  <1> DEFINE n == Len(t.info) + 1
             x == u.info[n]
  <1>1. /\ \A v \in 1 .. Len(u.info) : v \in 1 .. Len(t.info) \/ v = n
        /\ \A v \in 1 .. Len(t.info) : v \in 1 .. Len(u.info) /\ u.info[v] = t.info[v]
        /\ ~x.assigned /\ ~x.fixed
    BY <1>0, ExtendsFacts
  <1> HIDE DEF n
  <1>2. u.assignments = t.assignments /\ u.control = t.control  BY DEF SameTrail
  <1>3. \A j \in 1 .. Len(t.assignments) : t.assignments[j] \in 1 .. Len(t.info)  BY <1>0 DEF Recorded
  <1>4. Recorded(u)
    <2>1. ASSUME NEW j \in 1 .. Len(u.assignments)
          PROVE  LET v == u.assignments[j] IN
                 v \in 1 .. Len(u.info) /\ u.info[v].active /\ u.info[v].assigned
      BY <1>0, <1>1, <1>2, <1>3 DEF Recorded
    <2>2. ASSUME NEW v \in 1 .. Len(u.info), u.info[v].active, u.info[v].assigned
          PROVE  \E j \in 1 .. Len(u.assignments) : u.assignments[j] = v
      <3>1. v \in 1 .. Len(t.info) /\ u.info[v] = t.info[v]  BY <1>1, <2>2
      <3> QED  BY <3>1, <2>2, <1>0, <1>2 DEF Recorded
    <2> QED  BY <2>1, <2>2 DEF Recorded
  <1>5. Segments(u)  BY <1>0, <1>2 DEF Segments
  <1>6. FixedOK(u)
    <2>1. ASSUME NEW v \in 1 .. Len(u.info), u.info[v].fixed
          PROVE  /\ u.info[v].intro = 0
                 /\ ~FixAnywhere => (u.info[v].active => u.info[v].assigned)
      <3>1. v \in 1 .. Len(t.info) /\ u.info[v] = t.info[v]  BY <1>1, <2>1
      <3> QED  BY <3>1, <2>1, <1>0 DEF FixedOK
    <2>2. ASSUME NEW j \in 1 .. Len(u.assignments)
          PROVE  LET first == Len(u.control) > 0 => j <= u.control[1]
                     v == u.assignments[j]
                 IN  (first => u.info[v].fixed) /\ (~FixAnywhere /\ u.info[v].fixed => first)
      <3>1. u.info[u.assignments[j]] = t.info[t.assignments[j]]  BY <1>1, <1>2, <1>3
      <3> QED  BY <3>1, <1>0, <1>2 DEF FixedOK
    <2> QED  BY <2>1, <2>2 DEF FixedOK
  <1> QED  BY <1>4, <1>5, <1>6

(* newLiteral, of an atom: v is preregistered where it is made.            *)
Registers(t, u, v) ==
    /\ Len(u.satLiterals) = Len(t.satLiterals) + 1
    /\ u.satLiterals[Len(t.satLiterals) + 1] = <<v, Len(t.ctx)>>
    /\ \A j \in 1 .. Len(t.satLiterals) : u.satLiterals[j] = t.satLiterals[j]
    /\ u.ctx[Len(t.ctx)].prereg = t.ctx[Len(t.ctx)].prereg \cup {v}

(* The theories keep what they got.                                        *)
SameQueues(t, u) ==
    /\ Len(u.ctx) = Len(t.ctx)
    /\ \A i \in 1 .. Len(t.ctx) : /\ u.ctx[i].queue = t.ctx[i].queue
                                  /\ u.ctx[i].seen = t.ctx[i].seen
                                  /\ i # Len(t.ctx) => u.ctx[i].prereg = t.ctx[i].prereg

(* notifySatLiteral preregisters and records the level.                    *)
LEMMA NotifySatLiteralFields ==
    ASSUME NEW t \in State, Len(t.ctx) > 0, NEW v \in Var, NEW u, u = notifySatLiteral(t, v)
    PROVE  /\ u \in State /\ SameVars(t, u) /\ SameTrail(t, u) /\ SameWork(t, u)
           /\ SameQueues(t, u) /\ Registers(t, u, v)
  <1> DEFINE n == Len(t.ctx)
             x == [t.ctx[n] EXCEPT !.prereg = @ \cup {v}]
             q == [t.ctx EXCEPT ![n] = x]
             e == <<v, n>>
             l == Append(t.satLiterals, e)
  <1>1. t.ctx \in Seq(Snapshot) /\ n \in Nat /\ n \in 1 .. n /\ t.ctx[n] \in Snapshot
    BY Parts, Lengths, Elements
  <1>2. x \in Snapshot /\ x.queue = t.ctx[n].queue /\ x.seen = t.ctx[n].seen
        /\ x.prereg = t.ctx[n].prereg \cup {v}
    BY <1>1 DEF Snapshot
  <1>3. u = [t EXCEPT !.ctx = q, !.satLiterals = l]  BY DEF notifySatLiteral, q, x, CtxLevel
  <1> HIDE DEF x
  <1>4. q \in Seq(Snapshot) /\ Len(q) = n /\ q[n] = x /\ \A i \in 1 .. n : i # n => q[i] = t.ctx[i]
    BY <1>1, <1>2, ExceptSeq
  <1>5. /\ l \in Seq(Var \X Nat) /\ Len(l) = Len(t.satLiterals) + 1
        /\ l[Len(t.satLiterals) + 1] = e
        /\ \A j \in 1 .. Len(t.satLiterals) : l[j] = t.satLiterals[j]
    <2>1. e \in Var \X Nat /\ t.satLiterals \in Seq(Var \X Nat)  BY <1>1, Parts
    <2> HIDE DEF e
    <2> QED  BY <2>1, OneMore
  <1> HIDE DEF q, l
  <1>6. u \in State /\ u.ctx = q /\ u.satLiterals = l  BY <1>3, <1>4, <1>5, ZenonT(60) DEF State
  <1>7. SameVars(t, u) /\ SameTrail(t, u) /\ SameWork(t, u)
    BY <1>3 DEF State, SameVars, SameTrail, SameWork
  <1>8. SameQueues(t, u)  BY <1>2, <1>4, <1>6 DEF SameQueues
  <1>9. Registers(t, u, v)  BY <1>2, <1>4, <1>5, <1>6 DEF Registers
  <1> QED  BY <1>6, <1>7, <1>8, <1>9

(* newLiteral is add_new_var, with the preregistration for an atom.        *)
LEMMA NewLiteralFields ==
    ASSUME NEW t \in State, Len(t.ctx) > 0, Len(t.info) + 1 \in Var, NEW atom \in BOOLEAN,
           NEW u, u = newLiteral(t, atom)
    PROVE  /\ u \in State /\ Extends(t, u, Len(t.activeControl), atom)
           /\ SameTrail(t, u) /\ SameWork(t, u)
           /\ u.activeControl = t.activeControl /\ u.acts = t.acts /\ u.pushes = t.pushes
           /\ SameQueues(t, u)
           /\ IF atom THEN Registers(t, u, Len(t.info) + 1) ELSE u.satLiterals = t.satLiterals /\ u.ctx = t.ctx
  <1> DEFINE a == add_new_var(t, atom)
             n == Len(t.info) + 1
  <1>1. /\ a \in State /\ Extends(t, a, Len(t.activeControl), atom)
        /\ SameTrail(t, a) /\ SameWork(t, a)
        /\ a.activeControl = t.activeControl /\ a.acts = t.acts /\ a.pushes = t.pushes
        /\ a.ctx = t.ctx /\ a.satLiterals = t.satLiterals
    BY AddNewVarFields
  <1>2. u = IF atom THEN notifySatLiteral(a, Len(a.info)) ELSE a  BY DEF newLiteral
  <1> HIDE DEF a
  <1>3. CASE ~atom
    <2>1. u = a  BY <1>2, <1>3
    <2> QED  BY <1>1, <1>3, <2>1 DEF SameQueues
  <1>4. CASE atom
    <2>1. u = notifySatLiteral(a, n) /\ n \in Var /\ Len(a.ctx) > 0
      BY <1>1, <1>2, <1>4 DEF Extends
    <2> HIDE DEF n
    <2>2. /\ u \in State /\ SameVars(a, u) /\ SameTrail(a, u) /\ SameWork(a, u)
          /\ SameQueues(a, u) /\ Registers(a, u, n)
      BY <1>1, <2>1, NotifySatLiteralFields
    <2>3. Extends(t, u, Len(t.activeControl), atom)  BY <1>1, <2>2 DEF Extends, SameVars
    <2>4. SameTrail(t, u) /\ SameWork(t, u) /\ u.activeControl = t.activeControl /\ u.acts = t.acts
          /\ u.pushes = t.pushes
      BY <1>1, <2>2 DEF SameTrail, SameWork, SameVars
    <2>5. Registers(t, u, n) /\ SameQueues(t, u)  BY <1>1, <2>2 DEF Registers, SameQueues
    <2> QED  BY <1>1, <1>4, <2>2, <2>3, <2>4, <2>5 DEF n
  <1> QED  BY <1>3, <1>4

(* A fresh variable of the present level is the last of d_active_vars.     *)
LEMMA ExtendsMarks ==
    ASSUME NEW t, Good(t), NEW u \in State, NEW atom \in BOOLEAN,
           Extends(t, u, Len(t.activeControl), atom),
           u.activeControl = t.activeControl, u.acts = t.acts
    PROVE  Marks(u)
  <1>0. t \in State /\ Marks(t)  BY DEF Good, Sized
  <1> DEFINE n == Len(t.info) + 1
             a == Len(t.active) + 1
             l == Len(t.activeControl)
             x == u.info[n]
  <1>1. l \in Nat /\ Len(t.active) \in Nat  BY <1>0, Lengths
  <1>2. /\ \A v \in 1 .. Len(u.info) : v \in 1 .. Len(t.info) \/ v = n
        /\ \A v \in 1 .. Len(t.info) : v \in 1 .. Len(u.info) /\ u.info[v] = t.info[v]
        /\ x.intro = l /\ x.active
        /\ \A v, k : LiveAt(t, v, k) => LiveAt(u, v, k)
        /\ LiveAt(u, n, l)
        /\ \A j \in 1 .. Len(u.active) : j \in 1 .. Len(t.active) \/ j = a
        /\ \A j \in 1 .. Len(t.active) : j \in 1 .. Len(u.active) /\ u.active[j] = t.active[j]
        /\ a \in 1 .. Len(u.active) /\ u.active[a] = n
    <2> HIDE DEF l
    <2>1. Extends(t, u, l, atom)  BY DEF l
    <2> QED  BY <1>0, <1>1, <2>1, ExtendsFacts
  <1>3. Len(u.active) \in Nat /\ Len(u.active) >= Len(t.active)
    <2>1. Len(u.active) = Len(t.active) + 1  BY DEF Extends
    <2> QED  BY <2>1, <1>1
  <1>4. \A j \in 1 .. Len(t.active) : t.active[j] \in 1 .. Len(t.info)  BY <1>0 DEF Marks, LiveAt
  <1> HIDE DEF n, x
  <1>5. ASSUME NEW v \in 1 .. Len(u.info), u.info[v].active
        PROVE  \E j \in 1 .. Len(u.active) : u.active[j] = v
    <2>1. CASE v = n  BY <1>2, <2>1
    <2>2. CASE v \in 1 .. Len(t.info)
      <3>1. u.info[v] = t.info[v]  BY <1>2, <2>2
      <3>2. PICK j \in 1 .. Len(t.active) : t.active[j] = v  BY <1>0, <1>5, <2>2, <3>1 DEF Marks
      <3> QED  BY <3>2, <1>2
    <2> QED  BY <1>2, <2>1, <2>2
  <1>6. ASSUME NEW j \in 1 .. Len(u.active)  PROVE LiveAt(u, u.active[j], l)
    <2>1. CASE j = a  BY <1>2, <2>1
    <2>2. CASE j \in 1 .. Len(t.active)
      <3>1. LiveAt(t, t.active[j], l) /\ u.active[j] = t.active[j]  BY <1>0, <1>2, <2>2 DEF Marks
      <3> QED  BY <3>1, <1>2
    <2> QED  BY <1>2, <2>1, <2>2
  <1>7. ASSUME NEW k \in 1 .. l
        PROVE  /\ t.activeControl[k] <= Len(u.active)
               /\ \A j \in 1 .. Len(u.active) : j <= t.activeControl[k] <=> u.info[u.active[j]].intro < k
    <2>1. /\ t.activeControl[k] \in Nat /\ t.activeControl[k] <= Len(t.active)
          /\ \A j \in 1 .. Len(t.active) : j <= t.activeControl[k] <=> t.info[t.active[j]].intro < k
      BY <1>0, Elements DEF Marks
    <2>2. ASSUME NEW j \in 1 .. Len(u.active)
          PROVE  j <= t.activeControl[k] <=> u.info[u.active[j]].intro < k
      <3>1. CASE j \in 1 .. Len(t.active)
        <4>1. u.info[u.active[j]] = t.info[t.active[j]]  BY <1>2, <1>4, <3>1
        <4> QED  BY <4>1, <2>1, <3>1
      <3>2. CASE j = a
        <4>1. u.info[u.active[j]].intro = l  BY <1>2, <3>2 DEF x
        <4>2. ~(l < k)  BY <1>1
        <4>3. ~(a <= t.activeControl[k])  BY <1>1, <2>1
        <4> QED  BY <4>1, <4>2, <4>3, <3>2
      <3> QED  BY <1>2, <3>1, <3>2
    <2>3. t.activeControl[k] <= Len(u.active)  BY <1>1, <1>3, <2>1
    <2> QED  BY <2>2, <2>3
  <1>8. ASSUME NEW k \in 1 .. Len(t.acts)
        PROVE  LiveAt(u, t.acts[k], k) /\ u.info[t.acts[k]].intro = k
    <2>1. LiveAt(t, t.acts[k], k) /\ t.info[t.acts[k]].intro = k  BY <1>0 DEF Marks
    <2>2. t.acts[k] \in 1 .. Len(t.info)  BY <2>1 DEF LiveAt
    <2> QED  BY <2>1, <2>2, <1>2
  <1> QED  BY <1>5, <1>6, <1>7, <1>8 DEF Marks

(* The clauses do not mention it.                                          *)
LEMMA ExtendsClauses ==
    ASSUME NEW t, Good(t), NEW u \in State, NEW l \in Nat, NEW atom \in BOOLEAN,
           Extends(t, u, l, atom), u.root = t.root, u.newClauses = t.newClauses,
           \A k \in 1 .. Len(u.acts) : u.acts[k] \in 1 .. Len(t.info)
                                         => k \in 1 .. Len(t.acts) /\ u.acts[k] = t.acts[k]
    PROVE  Clauses(u)
  <1>0. t \in State /\ Clauses(t)  BY DEF Good, Sized
  <1>1. /\ \A v \in 1 .. Len(t.info) : v \in 1 .. Len(u.info) /\ u.info[v] = t.info[v]
        /\ \A v, k : LiveAt(t, v, k) => LiveAt(u, v, k)
    BY <1>0, ExtendsFacts
  <1>2. \A v \in u.root : v \in 1 .. Len(u.info) /\ u.info[v].intro = 0  BY <1>0, <1>1 DEF Clauses
  <1>3. ASSUME NEW j \in 1 .. Len(u.newClauses)  PROVE ClauseOK(u, u.newClauses[j])
    <2>1. ClauseOK(t, u.newClauses[j])  BY <1>0 DEF Clauses
    <2> QED  BY <2>1, <1>1 DEF ClauseOK
  <1> QED  BY <1>2, <1>3 DEF Clauses

(* newLiteral keeps the state in order.                                    *)
LEMMA NewLiteralGrown ==
    ASSUME NEW t, Good(t), HasRoom(t), NEW atom \in BOOLEAN, NEW u, u = newLiteral(t, atom)
    PROVE  /\ Grown(t, u) /\ u.found = t.found /\ u.newClauses = t.newClauses
           /\ u.propagations = t.propagations
           /\ u.ctx[Len(t.ctx)].seen = t.ctx[Len(t.ctx)].seen
           /\ Len(u.info) = Len(t.info) + 1 /\ Len(t.info) + 1 \in Active(u)
  <1>0. /\ t \in State /\ Sized(t) /\ Levels(t) /\ Marks(t) /\ Contexts(t) /\ Preregistered(t)
        /\ Renotified(t) /\ Sent(t) /\ Inferences(t) /\ AssertsOK(t) /\ Recorded(t)
    BY DEF Good, Sized
  <1> DEFINE n == Len(t.info) + 1
             l == Len(t.activeControl)
             m == Len(t.ctx)
             x == u.info[n]
  <1>1. /\ Len(t.info) \in Nat /\ l \in Nat /\ m \in Nat /\ m > 0 /\ m \in 1 .. m /\ m > l
        /\ t.pushes \in Nat
    BY <1>0, Lengths, LevelNumbers
  <1>2. Len(t.info) + 1 <= MaxLiterals + t.pushes
    BY <1>1, BoundsAssumption DEF HasRoom
  <1>3. n \in Var
    <2>1. t.pushes <= MaxPushes  BY <1>0 DEF Sized
    <2> QED  BY <1>1, <1>2, <2>1, BoundsAssumption DEF Var
  <1>4. /\ u \in State /\ Extends(t, u, l, atom) /\ SameTrail(t, u) /\ SameWork(t, u)
        /\ u.activeControl = t.activeControl /\ u.acts = t.acts /\ u.pushes = t.pushes
        /\ SameQueues(t, u)
        /\ IF atom THEN Registers(t, u, n) ELSE u.satLiterals = t.satLiterals /\ u.ctx = t.ctx
    BY <1>0, <1>1, <1>3, NewLiteralFields
  <1>5. /\ \A v \in 1 .. Len(u.info) : v \in 1 .. Len(t.info) \/ v = n
        /\ \A v \in 1 .. Len(t.info) : v \in 1 .. Len(u.info) /\ u.info[v] = t.info[v]
        /\ n \in 1 .. Len(u.info)
        /\ x.intro = l /\ x.active /\ x.atom = atom /\ ~x.assigned /\ ~x.fixed
        /\ \A v, k : LiveAt(t, v, k) => LiveAt(u, v, k)
        /\ LiveAt(u, n, l)
    BY <1>0, <1>1, <1>4, ExtendsFacts, SMTT(30)
  <1>6. Len(u.info) = n /\ Len(u.ctx) = m  BY <1>4 DEF Extends, SameQueues
  <1>7. Sized(u) /\ Levels(u) /\ AssertsOK(u)
    <2>1. Sized(u)  BY <1>0, <1>2, <1>4, <1>6 DEF Sized
    <2>2. Levels(u)  BY <1>0, <1>4, <1>6 DEF Levels, SameTrail
    <2> QED  BY <2>1, <2>2, <1>0, <1>4 DEF SameWork, AssertsOK
  <1>8. Marks(u)  BY <1>4, ExtendsMarks
  <1>9. Recorded(u) /\ Segments(u) /\ FixedOK(u)  BY <1>1, <1>4, ExtendsTrail
  <1>10. Clauses(u)  BY <1>1, <1>4, ExtendsClauses DEF SameWork
  <1>11. Inferences(u)  BY <1>0, <1>4, <1>6 DEF Inferences, SameTrail, SameWork
  <1> HIDE DEF n, x
  <1>12. Contexts(u)
    <2>1. LiveAt(u, n, m - 1)  BY <1>1, <1>5 DEF LiveAt, x
    <2>2. ASSUME NEW i \in 1 .. m, NEW v \in u.ctx[i].queue \cup u.ctx[i].prereg
          PROVE  LiveAt(u, v, i - 1)
      <3>1. v \in t.ctx[i].queue \cup t.ctx[i].prereg \/ (v = n /\ i = m)
        BY <1>4 DEF SameQueues, Registers
      <3>2. CASE v \in t.ctx[i].queue \cup t.ctx[i].prereg
        <4>1. LiveAt(t, v, i - 1)  BY <1>0, <3>2 DEF Contexts
        <4> QED  BY <4>1, <1>5
      <3> QED  BY <2>1, <3>1, <3>2
    <2>3. CASE ~atom
      BY <2>2, <2>3, <1>0, <1>4, <1>5, <1>6 DEF Contexts
    <2>4. CASE atom
      <3> DEFINE k == Len(t.satLiterals)
      <3>1. /\ k \in Nat /\ Len(u.satLiterals) = k + 1 /\ u.satLiterals[k + 1] = <<n, m>>
            /\ \A j \in 1 .. k : u.satLiterals[j] = t.satLiterals[j]
        BY <1>0, <1>4, <2>4, Lengths DEF Registers
      <3>2. \A j \in 1 .. k + 1 : j \in 1 .. k \/ j = k + 1  BY <3>1
      <3>3. \A j \in 1 .. k : /\ LiveAt(t, t.satLiterals[j][1], l) /\ t.satLiterals[j][2] <= m
                              /\ t.satLiterals[j][2] \in Nat
        BY <1>0, Elements DEF Contexts
      <3>4. \A j, i \in 1 .. k : j <= i => t.satLiterals[j][2] <= t.satLiterals[i][2]
        BY <1>0 DEF Contexts
      <3> HIDE DEF k
      <3>5. ASSUME NEW j \in 1 .. k + 1
            PROVE  LiveAt(u, u.satLiterals[j][1], l) /\ u.satLiterals[j][2] <= m
        <4>1. CASE j \in 1 .. k  BY <4>1, <3>1, <3>3, <1>5
        <4>2. CASE j = k + 1  BY <4>2, <3>1, <1>5, <1>1
        <4> QED  BY <4>1, <4>2, <3>2
      <3>6. ASSUME NEW j \in 1 .. k + 1, NEW i \in 1 .. k + 1, j <= i
            PROVE  u.satLiterals[j][2] <= u.satLiterals[i][2]
        <4>1. CASE i = k + 1
          <5>1. u.satLiterals[i][2] = m  BY <4>1, <3>1
          <5> QED  BY <5>1, <3>5
        <4>2. CASE i \in 1 .. k
          <5>1. j \in 1 .. k  BY <4>2, <3>6, <3>1
          <5> QED  BY <5>1, <4>2, <3>1, <3>4, <3>6
        <4> QED  BY <4>1, <4>2, <3>2
      <3> QED  BY <2>2, <3>1, <3>5, <3>6, <1>4, <1>6 DEF Contexts
    <2> QED  BY <2>3, <2>4
  <1>13. Preregistered(u)
    <2> SUFFICES ASSUME NEW v \in 1 .. Len(u.info), NEW i \in 1 .. m,
                        u.info[v].active, u.info[v].atom, u.info[v].intro < i
                 PROVE  v \in u.ctx[i].prereg \/ Waits(u, v, i)
      BY <1>6 DEF Preregistered
    <2>1. CASE v = n
      <3>0. l < i  BY <2>1, <1>5 DEF x
      <3>1. atom  BY <2>1, <1>5 DEF x
      <3>2. Registers(t, u, n)  BY <3>1, <1>4
      <3>3. CASE i = m  BY <3>2, <3>3, <2>1 DEF Registers
      <3>4. CASE i # m
        <4>0. u.activeControl = t.activeControl  BY <1>4
        <4>1. m > i /\ i > l  BY <3>0, <3>4, <1>1
        <4>2. Len(t.satLiterals) + 1 \in 1 .. Len(u.satLiterals)  BY <3>2, <1>0, Lengths DEF Registers
        <4> QED  BY <4>0, <4>1, <4>2, <3>2, <2>1 DEF Waits, Registers
      <3> QED  BY <3>3, <3>4
    <2>2. CASE v # n
      <3>1. v \in 1 .. Len(t.info) /\ u.info[v] = t.info[v]  BY <2>2, <1>5
      <3>2. v \in t.ctx[i].prereg \/ Waits(t, v, i)  BY <3>1, <1>0 DEF Preregistered
      <3>3. \A y \in t.ctx[i].prereg : y \in u.ctx[i].prereg
        <4>1. CASE ~atom  BY <4>1, <1>4
        <4>2. CASE atom /\ i # m  BY <4>2, <1>4 DEF SameQueues
        <4>3. CASE atom /\ i = m  BY <4>3, <1>4 DEF Registers
        <4> QED  BY <4>1, <4>2, <4>3
      <3>4. Waits(t, v, i) => Waits(u, v, i)
        <4>1. \A j \in 1 .. Len(t.satLiterals) :
                 j \in 1 .. Len(u.satLiterals) /\ u.satLiterals[j] = t.satLiterals[j]
          BY <1>0, <1>4, Lengths, SMTT(30) DEF Registers
        <4> QED  BY <4>1, <1>4 DEF Waits
      <3> QED  BY <3>2, <3>3, <3>4
    <2> QED  BY <2>1, <2>2
  <1>14. Renotified(u)
    <2>1. u.renotify = t.renotify /\ u.activeControl = t.activeControl  BY <1>4 DEF SameWork
    <2>2. \A i \in 1 .. m : u.ctx[i].queue = t.ctx[i].queue  BY <1>4 DEF SameQueues
    <2>3. ASSUME NEW j \in 1 .. Len(u.renotify)
          PROVE  /\ u.renotify[j] \in 1 .. Len(u.info)
                 /\ u.info[u.renotify[j]].active /\ u.info[u.renotify[j]].fixed
      <3> DEFINE y == t.renotify[j]
      <3>1. y \in 1 .. Len(t.info) /\ t.info[y].active /\ t.info[y].fixed  BY <1>0, <2>1 DEF Renotified
      <3> HIDE DEF y
      <3>2. y \in 1 .. Len(u.info) /\ u.info[y] = t.info[y]  BY <3>1, <1>5
      <3> QED  BY <3>1, <3>2, <2>1 DEF y
    <2>4. ASSUME ~FixAnywhere,
                 NEW v \in 1 .. Len(u.info), u.info[v].active, u.info[v].atom, u.info[v].fixed
          PROVE  \/ Again(u, v)
                 \/ /\ u.info[v].fixedAt <= Len(u.activeControl)
                    /\ \A i \in 1 .. Len(u.ctx) : i > u.info[v].fixedAt => v \in u.ctx[i].queue
      <3>1. v \in 1 .. Len(t.info) /\ u.info[v] = t.info[v]  BY <2>4, <1>5 DEF x
      <3> QED  BY <3>1, <2>1, <2>2, <2>4, <1>0, <1>6 DEF Renotified, Again
    <2> QED  BY <2>3, <2>4 DEF Renotified
  <1>15. Sent(u)
    <2>1. \A d \in 0 .. Len(t.control) : l + 1 + d \in 1 .. m  BY <1>0, LevelNumbers
    <2>2. \A i \in 1 .. m : u.ctx[i].queue = t.ctx[i].queue  BY <1>4 DEF SameQueues
    <2>3. \A j \in 1 .. Len(t.assignments) : u.info[t.assignments[j]] = t.info[t.assignments[j]]
      BY <1>0, <1>5 DEF Recorded
    <2>4. u.assignments = t.assignments /\ u.control = t.control  BY <1>4 DEF SameTrail
    <2>5. u.activeControl = t.activeControl  BY <1>4
    <2> SUFFICES ASSUME NEW j \in 1 .. Len(t.assignments), NEW d \in 0 .. Len(t.control),
                        u.info[t.assignments[j]].atom, ~u.info[t.assignments[j]].fixed,
                        d < Len(t.control) => j <= t.control[d + 1]
                 PROVE  t.assignments[j] \in u.ctx[l + 1 + d].queue
      BY <2>4, <2>5 DEF Sent
    <2>6. t.assignments[j] \in t.ctx[l + 1 + d].queue  BY <2>3, <1>0 DEF Sent
    <2> QED  BY <2>1, <2>2, <2>6
  <1>16. Good(u)
    BY <1>7, <1>8, <1>9, <1>10, <1>11, <1>12, <1>13, <1>14, <1>15 DEF Good
  <1>17. Grown(t, u)
    <2>1. \A v \in Len(t.info) + 1 .. Len(u.info) : v = n  BY <1>1, <1>6 DEF n
    <2>2. Len(u.info) >= Len(t.info)  BY <1>1, <1>6 DEF n
    <2>3. u.ctx[m].queue = t.ctx[m].queue  BY <1>1, <1>4 DEF SameQueues
    <2> QED  BY <2>1, <2>2, <2>3, <1>4, <1>5, <1>6, <1>16 DEF Grown, SameWork, x
  <1>18. n \in Active(u)  BY <1>5, <1>7, <1>8, ActiveVars DEF x
  <1> QED  BY <1>1, <1>4, <1>6, <1>17, <1>18 DEF SameWork, SameQueues, n

-----------------------------------------------------------------------------
(* Callbacks.                                                              *)

(* u is t after the theories answered, before propagations are taken.      *)
Answers(t, u) ==
    /\ Grown(t, u) /\ u.found = t.found /\ u.propagations = t.propagations
    /\ u.ctx[Len(t.ctx)].seen = t.ctx[Len(t.ctx)].seen

LEMMA AnswersReflexive ==
    ASSUME NEW t, Good(t)
    PROVE  Answers(t, t)
  BY GrownReflexive DEF Answers

(* Answers of the theories compose.                                        *)
LEMMA AnswersTransitive ==
    ASSUME NEW t, NEW u, NEW w, t \in State, Answers(t, u), Answers(u, w)
    PROVE  Answers(t, w)
  <1>1. Grown(t, w)  BY GrownTransitive DEF Answers
  <1>2. Len(u.ctx) = Len(t.ctx)  BY DEF Answers, Grown
  <1> QED  BY <1>1, <1>2 DEF Answers

(* Answers send nothing to the theories.                                   *)
LEMMA AnswersChecked ==
    ASSUME NEW t, NEW u, Answers(t, u), Checked(t)
    PROVE  Checked(u)
  BY DEF Answers, Grown, Checked

LEMMA NewLiteralAnswers ==
    ASSUME NEW t, Good(t), HasRoom(t), NEW u, u = newLiteral(t, TRUE)
    PROVE  /\ Answers(t, u) /\ u.newClauses = t.newClauses
           /\ Len(u.info) = Len(t.info) + 1 /\ Len(t.info) + 1 \in Active(u)
  BY NewLiteralGrown DEF Answers

(* In a search add_clause buffers the clause, or drops it.                 *)
LEMMA AddClauseSearch ==
    ASSUME NEW t, Good(t), NEW C, C \subseteq Active(t), NEW sat \in BOOLEAN, NEW search \in BOOLEAN
    PROVE  search => Answers(t, add_clause(t, C, sat, search))
  <1> DEFINE u == add_clause(t, C, sat, search)
  <1>1. SameButWork(t, u) /\ u.propagations = t.propagations /\ u.found = t.found
    BY AddClauseGood
  <1>2. search => Grown(t, u)  BY AddClauseGood
  <1> HIDE DEF u
  <1>3. Grown(t, u) => Answers(t, u)  BY <1>1 DEF Answers, SameButWork
  <1>4. search => Answers(t, u)  BY <1>2, <1>3, Zenon
  <1> QED  BY <1>4 DEF u

LEMMA AddClauseAnswers ==
    ASSUME NEW t, Good(t), NEW C, C \subseteq Active(t), NEW sat \in BOOLEAN
    PROVE  Answers(t, add_clause(t, C, sat, TRUE))
  BY AddClauseSearch, Zenon

(* A clause that is not satisfied waits.                                   *)
LEMMA AddClauseWaits ==
    ASSUME NEW t, Good(t), NEW C, C \subseteq Active(t)
    PROVE  Waiting(add_clause(t, C, FALSE, TRUE))
  <1> DEFINE c == [vars |-> C, act |-> CurrentAct(t)]
             q == Append(t.newClauses, c)
             b == t.asserts /\ \A v \in C : t.info[v].active /\ (t.info[v].fixed => t.info[v].assigned)
  <1>1. add_clause(t, C, FALSE, TRUE) = [[t EXCEPT !.asserts = b] EXCEPT !.newClauses = Append(@, c)]
    BY Zenon DEF add_clause
  <1>0. t \in State /\ Sized(t) /\ Marks(t)  BY DEF Good, Sized
  <1>4. c \in Clause  BY <1>0, ActiveVars, ClauseMade
  <1> HIDE DEF b, c
  <1>2. [[t EXCEPT !.asserts = b] EXCEPT !.newClauses = Append(@, c)].newClauses = q
    BY <1>0 DEF State
  <1>3. q # <<>>
    <2>1. t.newClauses \in Seq(Clause)  BY <1>0, Parts
    <2> QED  BY <1>4, <2>1, OneMore
  <1> QED  BY <1>1, <1>2, <1>3, Zenon DEF Waiting

(* The lemmas that the theory engine may send.                             *)
LEMMA LemmasAnswer ==
    ASSUME NEW t, Good(t), NEW u \in Lemmas(t)
    PROVE  Answers(t, u)
  <1>1. t \in State  BY DEF Good, Sized
  <1>2. CASE u = t  BY <1>2, AnswersReflexive
  <1>3. ASSUME NEW v \in Literals(t), NEW b \in BOOLEAN, u = add_clause(t, {v}, b, TRUE)
        PROVE  Answers(t, u)
    <2>1. {v} \subseteq Active(t)  BY DEF Literals
    <2> QED  BY <2>1, <1>3, AddClauseAnswers, Zenon
  <1>4. ASSUME HasRoom(t), u = add_clause(newLiteral(t, TRUE), {Len(t.info) + 1}, FALSE, TRUE)
        PROVE  Answers(t, u)
    <2> DEFINE w == newLiteral(t, TRUE)
               C == {Len(t.info) + 1}
    <2>1. Answers(t, w) /\ C \subseteq Active(w)
      <3>1. Answers(t, w) /\ Len(t.info) + 1 \in Active(w)  BY <1>4, NewLiteralAnswers, Zenon
      <3> HIDE DEF w
      <3> QED  BY <3>1
    <2>2. Good(w)  BY <2>1, Zenon DEF Answers, Grown
    <2>3. u = add_clause(w, C, FALSE, TRUE)  BY <1>4, Zenon
    <2> HIDE DEF w, C
    <2>4. Answers(w, u)  BY <2>1, <2>2, <2>3, AddClauseAnswers, Zenon
    <2> QED  BY <1>1, <2>1, <2>4, AnswersTransitive
  <1>5. CASE u \in UNION {{add_clause(t, {v}, b, TRUE) : b \in BOOLEAN} : v \in Literals(t)}
    <2>1. PICK v \in Literals(t), b \in BOOLEAN : u = add_clause(t, {v}, b, TRUE)  BY <1>5, Zenon
    <2> QED  BY <2>1, <1>3, Zenon
  <1>6. CASE u \in IF HasRoom(t) THEN {add_clause(newLiteral(t, TRUE), {Len(t.info) + 1}, FALSE, TRUE)}
                   ELSE {}
    BY <1>4, <1>6, Zenon
  <1> DEFINE A == UNION {{add_clause(t, {v}, b, TRUE) : b \in BOOLEAN} : v \in Literals(t)}
             B == IF HasRoom(t) THEN {add_clause(newLiteral(t, TRUE), {Len(t.info) + 1}, FALSE, TRUE)}
                  ELSE {}
  <1>7. Lemmas(t) = {t} \cup A \cup B  BY Zenon DEF Lemmas
  <1>8. (u \in A => Answers(t, u)) /\ (u \in B => Answers(t, u))  BY <1>5, <1>6, Zenon
  <1> HIDE DEF A, B
  <1> QED  BY <1>2, <1>7, <1>8

(* A decision request.                                                     *)
LEMMA RequestsAnswer ==
    ASSUME NEW t, Good(t), NEW u \in Requests(t)
    PROVE  Answers(t, u) /\ u.newClauses = t.newClauses
  <1>1. CASE u = t  BY <1>1, AnswersReflexive, Zenon
  <1>2. ASSUME HasRoom(t), u = newLiteral(t, TRUE)
        PROVE  Answers(t, u) /\ u.newClauses = t.newClauses
    BY <1>2, NewLiteralAnswers, Zenon
  <1>3. u = t \/ (HasRoom(t) /\ u = newLiteral(t, TRUE))  BY Zenon DEF Requests
  <1> QED  BY <1>1, <1>2, <1>3, Zenon

(* The propagations inferred now are of this context and of atoms.         *)
LEMMA InferredNow ==
    ASSUME NEW t, Good(t), NEW q \in Inferred(t)
    PROVE  /\ q \in Seq(Var \X Nat) /\ Len(q) \in 0 .. 2
           /\ \A j \in 1 .. Len(q) : q[j][1] \in Active(t) /\ q[j][2] = Len(t.ctx)
  <1>1. t \in State /\ Sized(t) /\ Marks(t)  BY DEF Good, Sized
  <1>2. \A v \in Active(t) : v \in Var  BY <1>1, ActiveVars
  <1>3. Len(t.ctx) \in Nat  BY <1>1, Lengths
  <1> DEFINE open == {<<v, CtxLevel(t)>> : v \in {a \in Atoms(t) : ~t.info[a].assigned}}
  <1>4. \A p \in open : p \in Var \X Nat /\ p[1] \in Active(t) /\ p[2] = Len(t.ctx)
    BY <1>2, <1>3 DEF Atoms, CtxLevel
  <1>5. q \in {<<>>} \cup {<<p>> : p \in open} \cup {<<p, r>> : p \in open, r \in open}
    BY DEF Inferred
  <1> HIDE DEF open
  <1>6. CASE q = <<>>  BY <1>6
  <1>7. ASSUME NEW p \in open, q = <<p>>
        PROVE  /\ q \in Seq(Var \X Nat) /\ Len(q) \in 0 .. 2
               /\ \A j \in 1 .. Len(q) : q[j][1] \in Active(t) /\ q[j][2] = Len(t.ctx)
    <2>1. Len(q) = 1 /\ q[1] = p /\ q \in Seq(Var \X Nat)  BY <1>4, <1>7
    <2> QED  BY <2>1, <1>4
  <1>8. ASSUME NEW p \in open, NEW r \in open, q = <<p, r>>
        PROVE  /\ q \in Seq(Var \X Nat) /\ Len(q) \in 0 .. 2
               /\ \A j \in 1 .. Len(q) : q[j][1] \in Active(t) /\ q[j][2] = Len(t.ctx)
    <2>1. Len(q) = 2 /\ q[1] = p /\ q[2] = r /\ q \in Seq(Var \X Nat)  BY <1>4, <1>8
    <2>2. \A j \in 1 .. 2 : j = 1 \/ j = 2  OBVIOUS
    <2> QED  BY <2>1, <2>2, <1>4
  <1> QED  BY <1>5, <1>6, <1>7, <1>8
(* Propagations become clauses that wait.                                  *)
LEMMA ExplainedAnswers ==
    ASSUME NEW t, Good(t), NEW q \in Inferred(t), NEW u, u = Explained(t, q)
    PROVE  Answers(t, u) /\ (u = t \/ Waiting(u))
  <1>1. t \in State  BY DEF Good, Sized
  <1>2. /\ q \in Seq(Var \X Nat) /\ Len(q) \in 0 .. 2
        /\ \A j \in 1 .. Len(q) : q[j][1] \in Active(t)
    BY InferredNow
  <1>3. ASSUME NEW w, Good(w), NEW v \in Active(w)
        PROVE  Answers(w, add_clause(w, {v}, FALSE, TRUE)) /\ Waiting(add_clause(w, {v}, FALSE, TRUE))
    <2> DEFINE C == {v}
    <2>1. C \subseteq Active(w)  OBVIOUS
    <2> HIDE DEF C
    <2>2. Answers(w, add_clause(w, C, FALSE, TRUE))  BY <1>3, <2>1, AddClauseAnswers, Zenon
    <2>3. Waiting(add_clause(w, C, FALSE, TRUE))  BY <1>3, <2>1, AddClauseWaits, Zenon
    <2> QED  BY <2>2, <2>3, Zenon DEF C
  <1>4. CASE q = <<>>
    <2>1. u = t  BY <1>4, Zenon DEF Explained
    <2> QED  BY <2>1, AnswersReflexive
  <1>5. CASE q # <<>>
    <2> DEFINE w == add_clause(t, {q[1][1]}, FALSE, TRUE)
    <2>0. Len(q) \in 1 .. 2 /\ 1 \in 1 .. Len(q)  BY <1>2, <1>5
    <2>1. q[1][1] \in Active(t)  BY <2>0, <1>2
    <2>2. Answers(t, w) /\ Waiting(w)  BY <2>1, <1>3, Zenon
    <2>3. CASE Len(q) = 1
      <3>1. u = w  BY <1>5, <2>3, Zenon DEF Explained
      <3> QED  BY <3>1, <2>2, Zenon
    <2>4. CASE Len(q) # 1
      <3>1. q[2][1] \in Active(t)  BY <2>0, <2>4, <1>2
      <3>2. u = add_clause(w, {q[2][1]}, FALSE, TRUE)  BY <1>5, <2>4, Zenon DEF Explained
      <3> HIDE DEF w
      <3>3. Good(w) /\ w \in State  BY <2>2 DEF Answers, Grown, Good, Sized
      <3>4. q[2][1] \in Active(w)
        <4>1. /\ Len(w.info) >= Len(t.info) /\ \A v \in 1 .. Len(t.info) : w.info[v] = t.info[v]
          BY <2>2 DEF Answers, Grown
        <4>2. Len(w.info) \in Nat /\ Len(t.info) \in Nat  BY <1>1, <3>3, Lengths
        <4>3. DOMAIN w.info = 1 .. Len(w.info) /\ DOMAIN t.info = 1 .. Len(t.info)
          BY <1>1, <3>3, Lengths
        <4>4. \A v \in 1 .. Len(t.info) : v \in 1 .. Len(w.info)  BY <4>1, <4>2
        <4> QED  BY <3>1, <4>1, <4>3, <4>4 DEF Active, Vars
      <3>5. Answers(w, u) /\ Waiting(u)  BY <3>2, <3>3, <3>4, <1>3, Zenon
      <3> QED  BY <3>5, <2>2, <1>1, AnswersTransitive
    <2> QED  BY <2>3, <2>4
  <1> QED  BY <1>4, <1>5

(* In a search every assigned atom is on its way to the theories, and so   *)
(* is every fixed atom if nothing is fixed above decision level 0.         *)
LEMMA AssignedIsQueued ==
    ASSUME NEW t, Good(t), NEW v \in 1 .. Len(t.info), t.info[v].active, t.info[v].atom,
           t.info[v].assigned, ~t.info[v].fixed
    PROVE  v \in t.ctx[Len(t.ctx)].queue
  <1>0. t \in State /\ Levels(t) /\ Recorded(t) /\ Sent(t)  BY DEF Good, Sized
  <1>1. Len(t.control) \in Nat  BY <1>0, Lengths
  <1>2. PICK j \in 1 .. Len(t.assignments) : t.assignments[j] = v  BY <1>0 DEF Recorded
  <1> DEFINE d == Len(t.control)
  <1>3. d \in 0 .. Len(t.control) /\ ~(d < Len(t.control))  BY <1>1
  <1>4. Len(t.activeControl) + 1 + d = Len(t.ctx)  BY <1>0, LevelNumbers
  <1> HIDE DEF d
  <1>5. v \in t.ctx[Len(t.activeControl) + 1 + d].queue  BY <1>2, <1>3, <1>0 DEF Sent
  <1> QED  BY <1>4, <1>5

LEMMA FixedIsQueued ==
    ASSUME ~FixAnywhere, NEW t, Good(t), t.renotify = <<>>, NEW v \in 1 .. Len(t.info),
           t.info[v].active, t.info[v].atom, t.info[v].fixed
    PROVE  v \in t.ctx[Len(t.ctx)].queue
  <1>0. t \in State /\ Levels(t) /\ Renotified(t)  BY DEF Good, Sized
  <1>1. /\ Len(t.ctx) \in 1 .. Len(t.ctx) /\ Len(t.ctx) \in Nat
        /\ Len(t.ctx) > Len(t.activeControl) /\ Len(t.activeControl) \in Nat
    BY <1>0, LevelNumbers, Lengths
  <1>2. ~Again(t, v)  BY DEF Again
  <1>3. /\ t.info[v].fixedAt <= Len(t.activeControl)
        /\ \A i \in 1 .. Len(t.ctx) : i > t.info[v].fixedAt => v \in t.ctx[i].queue
    BY <1>0, <1>2 DEF Renotified
  <1>4. t.info[v].fixedAt \in Nat  BY <1>0, Elements
  <1> DEFINE c == Len(t.ctx)
  <1>5. c > t.info[v].fixedAt  BY <1>1, <1>3, <1>4
  <1> HIDE DEF c
  <1> QED  BY <1>1, <1>3, <1>5 DEF c

(* The full check.                                                         *)
LEMMA FullCheckAnswers ==
    ASSUME NEW t, Good(t), t.renotify = <<>>, NEW u \in FullCheck(t)
    PROVE  Grown(t, u) /\ u.found = t.found /\ u.propagations = t.propagations /\ Checked(u)
  <1>0. t \in State  BY DEF Good, Sized
  <1> DEFINE k == theoryCheck(t)
  <1>1. PICK w \in Lemmas(k) : \E q \in Inferred(w) : u = Explained(w, q)  BY Zenon DEF FullCheck
  <1>2. PICK q \in Inferred(w) : u = Explained(w, q)  BY <1>1
  <1>3. Grown(t, k) /\ k.found = t.found /\ k.propagations = t.propagations /\ Checked(k)
    BY TheoryCheckGrown
  <1> HIDE DEF k
  <1>4. Good(k) /\ k \in State  BY <1>3 DEF Grown, Good, Sized
  <1>5. Answers(k, w)  BY <1>4, LemmasAnswer
  <1>6. Good(w)  BY <1>5 DEF Answers, Grown
  <1>7. Answers(w, u)  BY <1>2, <1>6, ExplainedAnswers
  <1>8. Answers(k, u)  BY <1>4, <1>5, <1>7, AnswersTransitive
  <1>9. Checked(u)  BY <1>3, <1>8, AnswersChecked
  <1>10. Grown(k, u) /\ u.found = k.found /\ u.propagations = k.propagations  BY <1>8 DEF Answers
  <1> QED  BY <1>0, <1>3, <1>9, <1>10, GrownTransitive

(* The clause (1 or -1) waits.                                             *)
LEMMA RejectGrown ==
    ASSUME NEW t, Good(t), NEW u, u = [t EXCEPT !.newClauses = Append(@, Tautology)]
    PROVE  Grown(t, u) /\ u.propagations = t.propagations /\ u.found = t.found
  <1>1. Tautology \in Clause /\ ClauseOK(t, Tautology)
    BY DEF Tautology, Clause, ClauseOK
  <1> QED  BY <1>1, BufferGood

(* u is t after a model was rejected, or accepted: then it is checked and  *)
(* no clause waits.                                                        *)
Judged(t, u, accepted) ==
    /\ Grown(t, u) /\ u.found = t.found /\ u.propagations = t.propagations
    /\ accepted => Checked(u) /\ u.newClauses = <<>>

(* cb_check_found_model: a model that is accepted was checked.             *)
LEMMA CheckFoundModel ==
    ASSUME NEW t, Good(t), t.renotify = <<>>, ~t.found, NEW m \in cb_check_found_model(t)
    PROVE  Judged(t, m[1], m[2])
  <1> DEFINE Reject(u) == <<[u EXCEPT !.newClauses = Append(@, Tautology)], FALSE>>
             Result(u) == IF Len(u.info) # Len(t.info) THEN Reject(u)
                          ELSE <<u, u.newClauses = <<>> >>
  <1>0. t \in State  BY DEF Good, Sized
  <1>1. \/ m = Reject(t)
        \/ \E u \in Requests(t) : m = <<u, FALSE>>
        \/ \E u \in FullCheck(t) : m = Result(u)
    BY Zenon DEF cb_check_found_model
  <1>2. ASSUME NEW u, Grown(t, u), u.found = t.found, u.propagations = t.propagations, m = Reject(u)
        PROVE  Judged(t, m[1], m[2])
    <2> DEFINE w == [u EXCEPT !.newClauses = Append(@, Tautology)]
    <2>1. m[1] = w /\ ~m[2]  BY <1>2
    <2>2. Good(u)  BY <1>2 DEF Grown
    <2>3. Grown(u, w) /\ w.propagations = u.propagations /\ w.found = u.found  BY <2>2, RejectGrown
    <2> HIDE DEF w
    <2>4. Grown(t, w)  BY <2>3, <1>0, <1>2, GrownTransitive
    <2> QED  BY <2>1, <2>3, <2>4, <1>2 DEF Judged
  <1>3. CASE m = Reject(t)
    <2> HIDE DEF Reject
    <2> QED  BY <1>2, <1>3, GrownReflexive
  <1>4. ASSUME NEW u \in Requests(t), m = <<u, FALSE>>  PROVE Judged(t, m[1], m[2])
    <2>1. Answers(t, u)  BY RequestsAnswer
    <2>2. m[1] = u /\ ~m[2]  BY <1>4
    <2> QED  BY <2>1, <2>2 DEF Judged, Answers
  <1>5. ASSUME NEW u \in FullCheck(t), m = Result(u)  PROVE Judged(t, m[1], m[2])
    <2>1. Grown(t, u) /\ u.found = t.found /\ u.propagations = t.propagations /\ Checked(u)
      BY FullCheckAnswers
    <2>2. CASE Len(u.info) # Len(t.info)
      <3>1. m = Reject(u)  BY <1>5, <2>2, Zenon
      <3> HIDE DEF Reject
      <3> QED  BY <3>1, <2>1, <1>2
    <2>3. CASE Len(u.info) = Len(t.info)
      <3>1. m = <<u, u.newClauses = <<>> >>  BY <1>5, <2>3, Zenon
      <3>2. m[1] = u /\ (m[2] => u.newClauses = <<>>)  BY <3>1
      <3> QED  BY <3>2, <2>1 DEF Judged
    <2> QED  BY <2>2, <2>3
  <1> HIDE DEF Reject, Result
  <1> QED  BY <1>1, <1>3, <1>4, <1>5

(* cb_decide, with a partial model accepted or not.                        *)
LEMMA DecideGrown ==
    ASSUME NEW t, Good(t), t.renotify = <<>>, NEW u \in cb_decide(t)
    PROVE  IF t.found THEN u = t
           ELSE /\ Grown(t, u) /\ u.propagations = t.propagations
                /\ u.found => u.newClauses = <<>> /\ Checked(u)
  <1>0. t \in State  BY DEF Good, Sized
  <1>1. CASE t.found  BY <1>1, Zenon DEF cb_decide
  <1>2. CASE ~t.found
    <2> DEFINE Next1(m) == IF m[2] THEN {[m[1] EXCEPT !.found = TRUE]} \cup Requests(m[1]) ELSE {m[1]}
    <2>1. PICK r \in Requests(t) : u \in {r} \cup UNION {Next1(m) : m \in cb_check_found_model(r)}
      BY <1>2, Zenon DEF cb_decide
    <2>2. Answers(t, r)  BY RequestsAnswer
    <2>3. Good(r) /\ r \in State /\ Grown(t, r) /\ r.propagations = t.propagations /\ r.found = t.found
          /\ r.renotify = <<>>
      BY <2>2 DEF Answers, Grown, Good, Sized
    <2>4. CASE u = r  BY <2>3, <2>4, <1>2
    <2>5. CASE u # r
      <3> HIDE DEF Next1
      <3>1. PICK m \in cb_check_found_model(r) : u \in Next1(m)  BY <2>1, <2>5
      <3>2. Judged(r, m[1], m[2])  BY <2>3, <3>1, <1>2, CheckFoundModel
      <3> DEFINE w == m[1]
      <3>3. Grown(r, w) /\ w.found = r.found /\ w.propagations = r.propagations
            /\ (m[2] => Checked(w) /\ w.newClauses = <<>>)
        BY <3>2 DEF Judged
      <3>4. Good(w) /\ w \in State /\ w.renotify = r.renotify  BY <3>3 DEF Grown, Good, Sized
      <3>5. Grown(t, w)  BY <3>3, <2>3, <1>0, GrownTransitive
      <3>6. \/ u = w
            \/ m[2] /\ u = [w EXCEPT !.found = TRUE]
            \/ u \in Requests(w)
        BY <3>1, Zenon DEF Next1
      <3> HIDE DEF w
      <3>7. CASE u = w  BY <3>3, <3>5, <3>7, <2>3, <1>2
      <3>8. CASE m[2] /\ u = [w EXCEPT !.found = TRUE]
        <4>1. /\ u \in State /\ SameVars(w, u) /\ SameTrail(w, u) /\ u.renotify = w.renotify
              /\ u.ctx = w.ctx /\ u.satLiterals = w.satLiterals /\ u.root = w.root
              /\ u.newClauses = w.newClauses /\ u.propagations = w.propagations
              /\ u.asserts = w.asserts
          BY <3>4, <3>8 DEF State, SameVars, SameTrail
        <4>2. SameButWork(w, u)  BY <4>1 DEF SameButWork
        <4>3. Clauses(w) /\ Inferences(w) /\ AssertsOK(w)  BY <3>4 DEF Good
        <4>4. Clauses(u)  BY <4>1, <4>3 DEF Clauses, ClauseOK, LiveAt, SameVars
        <4>5. Inferences(u)  BY <4>1, <4>3 DEF Inferences, SameTrail
        <4>11. AssertsOK(u)  BY <4>1, <4>3 DEF AssertsOK
        <4>6. Good(u)  BY <3>4, <4>2, <4>4, <4>5, <4>11, SameButWorkGood
        <4>7. Grown(w, u)  BY <3>4, <4>1, <4>2, <4>6, SameButWorkGrown
        <4>8. Grown(t, u)  BY <4>7, <3>5, <1>0, GrownTransitive
        <4>9. Checked(w) /\ w.newClauses = <<>>  BY <3>3, <3>8
        <4>10. Checked(u)  BY <4>1, <4>9 DEF Checked, SameVars
        <4> QED  BY <4>1, <4>8, <4>9, <4>10, <3>3, <2>3, <1>2
      <3>9. CASE u \in Requests(w)
        <4>1. Answers(w, u)  BY <3>4, <3>9, RequestsAnswer
        <4>2. Grown(w, u) /\ u.found = w.found /\ u.propagations = w.propagations
          BY <4>1 DEF Answers
        <4>3. Grown(t, u)  BY <4>2, <3>5, <1>0, GrownTransitive
        <4> QED  BY <4>2, <4>3, <3>3, <2>3, <1>2
      <3> QED  BY <3>6, <3>7, <3>8, <3>9
    <2> QED  BY <2>4, <2>5
  <1> QED  BY <1>1, <1>2

(* A state with other propagations.                                        *)
LEMMA PropagationsGrown ==
    ASSUME NEW t, Good(t), NEW q \in Seq(Var \X Nat), NEW u, u = [t EXCEPT !.propagations = q],
           \A j \in 1 .. Len(q) : q[j][2] <= IF Len(t.decisions) = 0 THEN 1 ELSE Len(t.ctx)
    PROVE  Grown(t, u) /\ u.found = t.found
  <1>1. t \in State /\ Clauses(t) /\ AssertsOK(t)  BY DEF Good, Sized
  <1>2. /\ u \in State /\ SameVars(t, u) /\ SameTrail(t, u) /\ u.renotify = t.renotify
        /\ u.ctx = t.ctx /\ u.satLiterals = t.satLiterals /\ u.root = t.root
        /\ u.newClauses = t.newClauses /\ u.propagations = q
        /\ u.asserts = t.asserts /\ u.found = t.found
    BY <1>1 DEF State, SameVars, SameTrail
  <1>3. SameButWork(t, u)  BY <1>2 DEF SameButWork
  <1>4. Clauses(u)  BY <1>1, <1>2 DEF Clauses, ClauseOK, LiveAt, SameVars
  <1>5. Inferences(u)  BY <1>2 DEF Inferences, SameTrail
  <1>7. AssertsOK(u)  BY <1>1, <1>2 DEF AssertsOK
  <1>6. Good(u)  BY <1>3, <1>4, <1>5, <1>7, SameButWorkGood
  <1> QED  BY <1>2, <1>3, <1>6, SameButWorkGrown

(* cb_propagate.                                                           *)
LEMMA PropagateGrown ==
    ASSUME NEW t, Good(t), NEW u \in cb_propagate(t)
    PROVE  IF t.found THEN u = t ELSE Grown(t, u) /\ ~u.found
  <1>0. t \in State /\ Inferences(t) /\ Levels(t)  BY DEF Good, Sized
  <1>1. CASE t.found  BY <1>1, Zenon DEF cb_propagate
  <1>2. CASE ~t.found /\ t.propagations # <<>>
    <2> DEFINE q == Tail(t.propagations)
    <2>1. u = [t EXCEPT !.propagations = q]  BY <1>2, Zenon DEF cb_propagate
    <2>2. t.propagations \in Seq(Var \X Nat) /\ Len(t.propagations) \in Nat  BY <1>0, Parts, Lengths
    <2>3. /\ q \in Seq(Var \X Nat) /\ Len(q) = Len(t.propagations) - 1
          /\ \A j \in 1 .. Len(q) : q[j] = t.propagations[j + 1]
      BY <1>2, <2>2, HeadTailProperties
    <2> HIDE DEF q
    <2>4. \A j \in 1 .. Len(q) : j + 1 \in 1 .. Len(t.propagations)  BY <2>2, <2>3
    <2>5. \A j \in 1 .. Len(q) : q[j][2] <= IF Len(t.decisions) = 0 THEN 1 ELSE Len(t.ctx)
      BY <2>3, <2>4, <1>0 DEF Inferences
    <2>6. Grown(t, u) /\ u.found = t.found  BY <2>1, <2>3, <2>5, PropagationsGrown
    <2> QED  BY <2>6, <1>2
  <1>3. CASE ~t.found /\ t.propagations = <<>> /\ Len(t.decisions) < UserLevel(t)
    <2>1. u = t  BY <1>3, Zenon DEF cb_propagate
    <2> QED  BY <2>1, <1>3, GrownReflexive
  <1>4. CASE ~t.found /\ t.propagations = <<>> /\ ~(Len(t.decisions) < UserLevel(t))
    <2> DEFINE k == theoryCheck(t)
    <2>0. cb_propagate(t) = UNION {{[w EXCEPT !.propagations = IF q = <<>> THEN q ELSE Tail(q)] :
                                       q \in Inferred(w)} : w \in Lemmas(k)}
      <3>1. ~t.found /\ ~(t.propagations # <<>>) /\ ~(Len(t.decisions) < UserLevel(t))  BY <1>4
      <3> QED  BY <3>1, Zenon DEF cb_propagate
    <2>1. PICK w \in Lemmas(k) : \E q \in Inferred(w) :
             u = [w EXCEPT !.propagations = IF q = <<>> THEN q ELSE Tail(q)]
      <3> DEFINE After1(w, q) == [w EXCEPT !.propagations = IF q = <<>> THEN q ELSE Tail(q)]
      <3> HIDE DEF k, After1
      <3>1. u \in UNION {{After1(w, q) : q \in Inferred(w)} : w \in Lemmas(k)}  BY <2>0 DEF After1
      <3>2. PICK w \in Lemmas(k) : \E q \in Inferred(w) : u = After1(w, q)  BY <3>1
      <3> QED  BY <3>2 DEF After1
    <2>2. PICK q \in Inferred(w) : u = [w EXCEPT !.propagations = IF q = <<>> THEN q ELSE Tail(q)]
      BY <2>1
    <2>3. Grown(t, k) /\ k.found = t.found  BY TheoryCheckGrown
    <2> HIDE DEF k
    <2>4. Good(k) /\ k \in State  BY <2>3 DEF Grown, Good, Sized
    <2>5. Answers(k, w)  BY <2>4, LemmasAnswer
    <2>6. Grown(k, w) /\ w.found = k.found /\ Good(w)  BY <2>5 DEF Answers, Grown
    <2>7. Grown(t, w)  BY <1>0, <2>3, <2>6, GrownTransitive
    <2> DEFINE r == IF q = <<>> THEN q ELSE Tail(q)
    <2>8. /\ q \in Seq(Var \X Nat) /\ Len(q) \in Nat
          /\ \A j \in 1 .. Len(q) : q[j][2] = Len(w.ctx)
      BY <2>6, InferredNow
    <2>9. r \in Seq(Var \X Nat) /\ \A j \in 1 .. Len(r) : r[j][2] = Len(w.ctx)
      <3>1. CASE q = <<>>  BY <3>1
      <3>2. CASE q # <<>>
        <4>1. r = Tail(q)  BY <3>2
        <4> HIDE DEF r
        <4>2. r \in Seq(Var \X Nat) /\ Len(r) = Len(q) - 1 /\ \A j \in 1 .. Len(r) : r[j] = q[j + 1]
          BY <4>1, <3>2, <2>8, HeadTailProperties
        <4>3. \A j \in 1 .. Len(r) : j + 1 \in 1 .. Len(q)  BY <4>2, <2>8
        <4> QED  BY <4>2, <4>3, <2>8
      <3> QED  BY <3>1, <3>2
    <2>10. u = [w EXCEPT !.propagations = r]  BY <2>2
    <2>11. Len(w.ctx) <= IF Len(w.decisions) = 0 THEN 1 ELSE Len(w.ctx)
      <3>1. w.decisions = t.decisions /\ Len(w.ctx) = Len(t.ctx)  BY <2>7 DEF Grown, SameTrail
      <3> DEFINE c == Len(t.ctx)
                 d == Len(t.decisions)
                 a == Len(t.activeControl)
      <3>2. c \in Nat /\ d \in Nat /\ a \in Nat  BY <1>0, Lengths
      <3>3. c = 1 + a + d /\ ~(d < a)  BY <1>0, <1>4 DEF Levels, UserLevel
      <3> HIDE DEF c, d, a
      <3>4. c <= IF d = 0 THEN 1 ELSE c  BY <3>2, <3>3
      <3> QED  BY <3>1, <3>4 DEF c, d
    <2> HIDE DEF r
    <2>12. \A j \in 1 .. Len(r) : r[j][2] <= IF Len(w.decisions) = 0 THEN 1 ELSE Len(w.ctx)
      BY <2>9, <2>11
    <2>13. Grown(w, u) /\ u.found = w.found  BY <2>6, <2>9, <2>10, <2>12, PropagationsGrown
    <2>14. Grown(t, u)  BY <1>0, <2>7, <2>13, GrownTransitive
    <2> QED  BY <2>3, <2>6, <2>13, <2>14, <1>4
  <1> QED  BY <1>1, <1>2, <1>3, <1>4

-----------------------------------------------------------------------------
(* The trail of CaDiCaL.                                                   *)

(* A function on 1 .. n is a sequence.                                     *)
LEMMA FunctionSeq ==
    ASSUME NEW S, NEW n \in Nat, NEW f \in [1 .. n -> S]
    PROVE  f \in Seq(S) /\ Len(f) = n /\ DOMAIN f = 1 .. n
  BY SeqDef, LenProperties

(* A state of CaDiCaL.                                                     *)
LEMMA CadicalParts ==
    ASSUME NEW c \in Cadical
    PROVE  /\ c.level \in Nat /\ c.val \in Seq(Nat \cup {Unassigned}) /\ c.ignored \subseteq Var
           /\ DOMAIN c.val = 1 .. Len(c.val) /\ Len(c.val) \in Nat
           /\ \A v \in 1 .. Len(c.val) : c.val[v] \in Nat \cup {Unassigned} /\ c.val[v] \in Int
  <1>1. c.level \in Nat /\ c.val \in Seq(Nat \cup {Unassigned}) /\ c.ignored \subseteq Var  BY DEF Cadical
  <1>2. \A v \in 1 .. Len(c.val) : c.val[v] \in Nat \cup {Unassigned}  BY <1>1, ElementOfSeq
  <1>3. Nat \cup {Unassigned} \subseteq Int  BY DEF Unassigned
  <1> QED  BY <1>1, <1>2, <1>3, LenProperties

(* Trail depends on the variables and the trail alone.                     *)
LEMMA SameTrailHolds ==
    ASSUME NEW t, NEW u, NEW c, Trail(t, c), u.info = t.info, SameTrail(t, u)
    PROVE  Trail(u, c)
  BY DEF Trail, SameTrail

(* CaDiCaL learns of new variables.                                        *)
LEMMA ExtendedTrail ==
    ASSUME NEW t, Good(t), NEW u \in State, SameTrail(t, u), Len(u.info) >= Len(t.info),
           \A v \in 1 .. Len(t.info) : u.info[v] = t.info[v],
           \A v \in Len(t.info) + 1 .. Len(u.info) : ~u.info[v].assigned /\ ~u.info[v].fixed,
           NEW c, Trail(t, c), NEW e, e = Extended(c, u)
    PROVE  Trail(u, e)
  <1>0. t \in State /\ u \in State /\ Recorded(t) /\ Levels(t)  BY DEF Good, Sized
  <1>1. /\ u.decisions = t.decisions /\ u.control = t.control /\ u.assignments = t.assignments
        /\ \A v \in 1 .. Len(t.info) : u.info[v] = t.info[v]
        /\ \A v \in Len(t.info) + 1 .. Len(u.info) : ~u.info[v].assigned /\ ~u.info[v].fixed
        /\ Len(u.info) >= Len(t.info)
    BY DEF SameTrail
  <1>2. c \in Cadical /\ Len(c.val) = Len(t.info)  BY DEF Trail
  <1> DEFINE n == Len(t.info)
             m == Len(u.info)
  <1>3. n \in Nat /\ m \in Nat /\ Vars(u) = 1 .. m /\ DOMAIN c.val = 1 .. n /\ Len(t.decisions) \in Nat
    BY <1>0, <1>2, Lengths, CadicalParts DEF Vars
  <1> HIDE DEF n, m
  <1> DEFINE f == [v \in 1 .. m |-> IF v \in 1 .. n THEN c.val[v] ELSE Unassigned]
  <1>4. f \in [1 .. m -> Nat \cup {Unassigned}]
    <2>1. \A v \in 1 .. n : c.val[v] \in Nat \cup {Unassigned}  BY <1>2, CadicalParts DEF n
    <2> QED  BY <2>1
  <1>5. f \in Seq(Nat \cup {Unassigned}) /\ Len(f) = m
    <2> HIDE DEF f
    <2> QED  BY <1>3, <1>4, FunctionSeq
  <1>6. e = [c EXCEPT !.val = f]  BY <1>3 DEF Extended, Vars
  <1>7. \A v \in 1 .. n : v \in 1 .. m /\ f[v] = c.val[v]
    <2>1. \A v \in 1 .. n : v \in 1 .. m  BY <1>1, <1>3 DEF n, m
    <2> QED  BY <2>1
  <1>8. \A v \in 1 .. m : v \in 1 .. n \/ (v \in n + 1 .. m /\ f[v] = Unassigned)
    <2>1. \A v \in 1 .. m : v \in 1 .. n \/ (v \in n + 1 .. m /\ v \notin 1 .. n)  BY <1>3
    <2> QED  BY <2>1
  <1> HIDE DEF f
  <1>9. e \in Cadical /\ e.val = f /\ e.ignored = c.ignored  BY <1>2, <1>5, <1>6 DEF Cadical
  <1>10. \A v \in 1 .. m : f[v] <= Len(t.decisions)
    <2>1. Unassigned <= Len(t.decisions)  BY <1>3 DEF Unassigned
    <2> QED  BY <2>1, <1>7, <1>8 DEF Trail, n
  <1>11. ~FixAnywhere => \A v \in c.ignored : v \in 1 .. m /\ f[v] > 0  BY <1>7 DEF Trail, n
  <1>12. ASSUME NEW v \in 1 .. m, u.info[v].active
         PROVE  /\ u.info[v].fixed <=> f[v] = 0
                /\ ~FixAnywhere => (u.info[v].assigned <=> f[v] # Unassigned /\ v \notin c.ignored)
    <2>1. CASE v \in 1 .. n
      <3>1. u.info[v] = t.info[v] /\ f[v] = c.val[v]  BY <2>1, <1>1, <1>7 DEF n
      <3>2. /\ t.info[v].fixed <=> c.val[v] = 0
            /\ ~FixAnywhere => (t.info[v].assigned <=> c.val[v] # Unassigned /\ v \notin c.ignored)
        BY <2>1, <3>1, <1>12 DEF Trail, n
      <3> QED  BY <3>1, <3>2
    <2>2. CASE v \notin 1 .. n
      <3>1. v \in n + 1 .. m /\ f[v] = Unassigned  BY <2>2, <1>8
      <3>2. ~u.info[v].assigned /\ ~u.info[v].fixed  BY <3>1, <1>1 DEF n, m
      <3> QED  BY <3>1, <3>2 DEF Unassigned
    <2> QED  BY <2>1, <2>2
  <1>13. ~FixAnywhere => \A i \in 1 .. Len(t.control), j \in 1 .. Len(t.assignments) :
            j <= t.control[i] <=> f[t.assignments[j]] < i
    <2>1. \A j \in 1 .. Len(t.assignments) : t.assignments[j] \in 1 .. n  BY <1>0 DEF Recorded, n
    <2>2. \A j \in 1 .. Len(t.assignments) : f[t.assignments[j]] = c.val[t.assignments[j]]  BY <2>1, <1>7
    <2> QED  BY <2>2 DEF Trail
  <1> QED  BY <1>1, <1>5, <1>9, <1>10, <1>11, <1>12, <1>13 DEF Trail, m

(* The trail after a callback.                                             *)
LEMMA GrownTrail ==
    ASSUME NEW t, Good(t), NEW u, Grown(t, u), NEW c, Trail(t, c), NEW e, e = Extended(c, u)
    PROVE  Trail(u, e)
  <1>1. /\ u \in State /\ SameTrail(t, u) /\ Len(u.info) >= Len(t.info)
        /\ \A v \in 1 .. Len(t.info) : u.info[v] = t.info[v]
        /\ \A v \in Len(t.info) + 1 .. Len(u.info) : ~u.info[v].assigned /\ ~u.info[v].fixed
    BY DEF Grown, Good, Sized
  <1> QED  BY <1>1, ExtendedTrail

-----------------------------------------------------------------------------
(* The actions that assign nothing.                                        *)

(* What a callback may do in a search.                                     *)
LEMMA GrownStep ==
    ASSUME IInv, Grown(s, s'), FoundOK(s'), cad' = Extended(cad, s'), pc' = pc, pc # "sat"
    PROVE  IInv'
  <1>1. Good(s) /\ Trail(s, cad) /\ Stage /\ Good(s')  BY DEF IInv, Grown
  <1>2. Trail(s', cad')  BY <1>1, GrownTrail
  <1>3. s'.decisions = s.decisions /\ s'.renotify = s.renotify  BY DEF Grown, SameTrail
  <1>4. cad'.level = cad.level
    <2>1. cad \in Cadical  BY <1>1 DEF Trail
    <2> QED  BY <2>1 DEF Extended, Cadical
  <1>5. Stage'  BY <1>1, <1>3, <1>4 DEF Stage
  <1> QED  BY <1>1, <1>2, <1>5 DEF IInv

(* At decision level 0 no partial model was accepted.                      *)
LEMMA IdleNotFound ==
    ASSUME IInv, Len(s.decisions) = 0
    PROVE  ~s.found
  BY DEF IInv, FoundOK

LEMMA NewVarStep ==
    ASSUME IInv, NEW atom \in Atomic, NewVar(atom)
    PROVE  IInv'
  <1>1. atom \in BOOLEAN  BY BoundsAssumption
  <1>2. Good(s) /\ Len(s.decisions) = 0 /\ pc = "idle"  BY DEF IInv, Stage, NewVar
  <1>3. ~s.found  BY <1>2, IdleNotFound
  <1>4. Grown(s, s') /\ s'.found = s.found  BY <1>1, <1>2, NewLiteralGrown DEF NewVar
  <1>5. FoundOK(s')  BY <1>3, <1>4 DEF FoundOK
  <1> QED  BY <1>2, <1>4, <1>5, GrownStep DEF NewVar

LEMMA AskPropagationStep ==
    ASSUME IInv, AskPropagation
    PROVE  IInv'
  <1>1. Good(s) /\ FoundOK(s) /\ pc = "search" /\ s' \in cb_propagate(s)  BY DEF IInv, AskPropagation
  <1>2. IF s.found THEN s' = s ELSE Grown(s, s') /\ ~s'.found  BY <1>1, PropagateGrown
  <1>3. Grown(s, s')  BY <1>1, <1>2, GrownReflexive
  <1>4. FoundOK(s')  BY <1>1, <1>2 DEF FoundOK
  <1> QED  BY <1>1, <1>3, <1>4, GrownStep DEF AskPropagation

(* Other work and nothing else.                                            *)
LEMMA WorkStep ==
    ASSUME IInv, Good(s'), SameButWork(s, s'), FoundOK(s'), cad' = cad, pc' = pc, pc # "sat"
    PROVE  IInv'
  <1>1. Trail(s, cad) /\ Stage  BY DEF IInv
  <1>2. s'.info = s.info /\ SameTrail(s, s') /\ s'.renotify = s.renotify
    BY DEF SameButWork, SameVars
  <1>3. Trail(s', cad')  BY <1>1, <1>2, SameTrailHolds
  <1>4. Stage'  BY <1>1, <1>2 DEF Stage, SameTrail
  <1> QED  BY <1>3, <1>4 DEF IInv

LEMMA AddClauseStep ==
    ASSUME IInv, NEW v \in Literals(s), NEW b \in BOOLEAN, AddClause(v, b)
    PROVE  IInv'
  <1>1. Good(s) /\ Len(s.decisions) = 0 /\ pc = "idle"  BY DEF IInv, Stage, AddClause
  <1>2. ~s.found  BY <1>1, IdleNotFound
  <1> DEFINE C == {v}
  <1>3. C \subseteq Active(s)  BY DEF Literals
  <1>4. \A w \in BOOLEAN : LET u == add_clause(s, C, b, w) IN
           Good(u) /\ SameButWork(s, u) /\ u.found = s.found
    <2> HIDE DEF C
    <2> QED  BY <1>1, <1>3, AddClauseGood
  <1>5. s' = add_clause(s, C, b, FALSE)  BY Zenon DEF AddClause
  <1>6. Good(s') /\ SameButWork(s, s') /\ s'.found = s.found
    <2> HIDE DEF C
    <2> QED  BY <1>4, <1>5, Zenon
  <1>7. FoundOK(s')  BY <1>2, <1>6 DEF FoundOK
  <1>8. cad' = cad /\ pc' = pc  BY DEF AddClause
  <1> QED  BY <1>1, <1>6, <1>7, <1>8, WorkStep

LEMMA AskReasonStep ==
    ASSUME IInv, NEW v, AskReason(v)
    PROVE  IInv'
  <1>1. Good(s) /\ FoundOK(s) /\ pc = "search" /\ v \in Atoms(s) /\ Sized(s) /\ Marks(s)
    BY DEF IInv, Good, AskReason
  <1> DEFINE C == {v}
             c == [vars |-> C, act |-> CurrentAct(s)]
  <1>2. \A w \in C : LiveAt(s, w, Len(s.activeControl))  BY <1>1, ActiveVars DEF Atoms
  <1> HIDE DEF C
  <1>3. c \in Clause /\ ClauseOK(s, c)  BY <1>1, <1>2, ClauseMade
  <1>4. s' = ToSolver(s, c)  BY DEF AskReason, cb_add_reason_clause, C
  <1> HIDE DEF c
  <1>5. /\ Good(s') /\ SameButWork(s, s') /\ s'.newClauses = s.newClauses
        /\ s'.propagations = s.propagations /\ s'.found = s.found
    BY <1>1, <1>3, <1>4, ToSolverGood
  <1>6. FoundOK(s')  BY <1>1, <1>5 DEF FoundOK, Checked, SameButWork, SameVars, SameTrail
  <1> QED  BY <1>1, <1>5, <1>6, WorkStep DEF AskReason

LEMMA AskClauseStep ==
    ASSUME IInv, AskClause
    PROVE  IInv'
  <1>1. Good(s) /\ FoundOK(s) /\ pc = "search" /\ s.newClauses # <<>>  BY DEF IInv, AskClause
  <1>2. s \in State /\ Clauses(s) /\ Inferences(s) /\ AssertsOK(s)  BY <1>1 DEF Good, Sized
  <1> DEFINE q == Tail(s.newClauses)
             c == Head(s.newClauses)
             t == [s EXCEPT !.newClauses = q]
  <1>3. s.newClauses \in Seq(Clause) /\ Len(s.newClauses) \in Nat  BY <1>2, Parts, Lengths
  <1>4. /\ q \in Seq(Clause) /\ Len(q) = Len(s.newClauses) - 1 /\ c \in Clause
        /\ c = s.newClauses[1] /\ \A j \in 1 .. Len(q) : q[j] = s.newClauses[j + 1]
    BY <1>1, <1>3, HeadTailProperties
  <1>5. Len(s.newClauses) > 0  BY <1>1, <1>3, EmptySeq
  <1>6. s' = ToSolver(t, c)  BY DEF AskClause
  <1> HIDE DEF q, c
  <1>7. 1 \in 1 .. Len(s.newClauses) /\ \A j \in 1 .. Len(q) : j + 1 \in 1 .. Len(s.newClauses)
    BY <1>3, <1>4, <1>5
  <1>8. /\ t \in State /\ SameVars(s, t) /\ SameTrail(s, t) /\ t.renotify = s.renotify
        /\ t.ctx = s.ctx /\ t.satLiterals = s.satLiterals /\ t.root = s.root
        /\ t.newClauses = q /\ t.propagations = s.propagations
        /\ t.asserts = s.asserts /\ t.found = s.found
    BY <1>2, <1>4 DEF State, SameVars, SameTrail
  <1> HIDE DEF t
  <1>9. SameButWork(s, t)  BY <1>8 DEF SameButWork
  <1>10. ClauseOK(s, c) /\ \A j \in 1 .. Len(q) : ClauseOK(s, q[j])  BY <1>2, <1>4, <1>7 DEF Clauses
  <1>11. \A e : ClauseOK(s, e) => ClauseOK(t, e)  BY <1>8 DEF ClauseOK, LiveAt, SameVars
  <1>12. Clauses(t)  BY <1>2, <1>8, <1>10, <1>11 DEF Clauses, SameVars
  <1>13. Inferences(t)  BY <1>2, <1>8 DEF Inferences, SameTrail
  <1>19. AssertsOK(t)  BY <1>2, <1>8 DEF AssertsOK
  <1>14. Good(t)  BY <1>1, <1>9, <1>12, <1>13, <1>19, SameButWorkGood
  <1>15. Good(s') /\ SameButWork(t, s') /\ s'.found = t.found
    BY <1>4, <1>6, <1>10, <1>11, <1>14, ToSolverGood
  <1>16. ~s'.found  BY <1>1, <1>8, <1>15 DEF FoundOK
  <1>17. FoundOK(s')  BY <1>16 DEF FoundOK
  <1>18. SameButWork(s, s')  BY <1>9, <1>15 DEF SameButWork, SameVars, SameTrail
  <1> QED  BY <1>1, <1>15, <1>17, <1>18, WorkStep DEF AskClause

LEMMA FoundModelStep ==
    ASSUME IInv, FoundModel
    PROVE  IInv'
  <1>1. Good(s) /\ FoundOK(s) /\ Trail(s, cad) /\ Stage /\ pc = "search"  BY DEF IInv, FoundModel
  <1>2. s.renotify = <<>> /\ s \in State /\ s.propagations = <<>>
    BY <1>1 DEF Stage, FoundModel, Good, Sized
  <1>3. PICK m \in cb_check_found_model(s) :
           /\ s' = [m[1] EXCEPT !.asserts = @ /\ (m[2] => m[1].newClauses = <<>>)]
           /\ pc' = IF m[2] THEN "sat" ELSE "search"
    BY DEF FoundModel
  <1> DEFINE u == m[1]
  <1>4. Grown(s, u) /\ FoundOK(u) /\ (m[2] => Checked(u) /\ u.newClauses = <<>>)
    <2>1. CASE s.found
      <3>1. m = <<s, TRUE>>  BY <1>3, <2>1, Zenon DEF cb_check_found_model
      <3>2. u = s  BY <3>1
      <3> HIDE DEF u
      <3> QED  BY <3>2, <2>1, <1>1, GrownReflexive DEF FoundOK
    <2>2. CASE ~s.found
      <3>1. Judged(s, m[1], m[2])  BY <2>2, <1>1, <1>2, <1>3, CheckFoundModel
      <3> QED  BY <3>1, <2>2 DEF Judged, FoundOK
    <2> QED  BY <2>1, <2>2
  <1>5. Good(u) /\ u \in State  BY <1>4 DEF Grown, Good, Sized
  <1>6. s' = u
    <2> DEFINE b == u.asserts /\ (m[2] => u.newClauses = <<>>)
    <2>1. s' = [u EXCEPT !.asserts = b]  BY <1>3
    <2>2. b = u.asserts
      <3>1. u.asserts \in BOOLEAN  BY <1>5, Parts
      <3> QED  BY <1>4, <1>5, <3>1
    <2> HIDE DEF b, u
    <2> QED  BY <2>1, <2>2, <1>5 DEF State
  <1> HIDE DEF u
  <1>7. cad' = Extended(cad, s')  BY DEF FoundModel
  <1>8. Trail(s', cad')  BY <1>1, <1>4, <1>6, <1>7, GrownTrail
  <1>9. s'.decisions = s.decisions /\ s'.renotify = s.renotify  BY <1>4, <1>6 DEF Grown, SameTrail
  <1>10. cad'.level = cad.level
    <2>1. cad \in Cadical  BY <1>1 DEF Trail
    <2> QED  BY <2>1, <1>7 DEF Extended, Cadical
  <1>11. pc' \in {"sat", "search"} /\ (pc' = "sat" => Checked(s'))  BY <1>3, <1>4, <1>6
  <1>12. Stage'  BY <1>1, <1>9, <1>10, <1>11 DEF Stage
  <1> QED  BY <1>4, <1>5, <1>6, <1>8, <1>12 DEF IInv

-----------------------------------------------------------------------------
(* Assignments.                                                            *)

(* t and u have the same variables, which may differ in their values.      *)
SameMade(t, u) ==
    /\ Len(u.info) = Len(t.info) /\ u.active = t.active /\ u.activeControl = t.activeControl
    /\ u.acts = t.acts /\ u.pushes = t.pushes
    /\ \A v \in 1 .. Len(t.info) : /\ u.info[v].intro = t.info[v].intro
                                   /\ u.info[v].active = t.info[v].active
                                   /\ u.info[v].atom = t.info[v].atom

(* Marks depends on what was made, not on values.                          *)
LEMMA SameMadeMarks ==
    ASSUME NEW t, NEW u, Marks(t), SameMade(t, u)
    PROVE  Marks(u) /\ \A v, k : LiveAt(t, v, k) <=> LiveAt(u, v, k)
  <1>1. \A v, k : LiveAt(t, v, k) <=> LiveAt(u, v, k)  BY DEF LiveAt, SameMade
  <1>2. \A j \in 1 .. Len(t.active) : t.active[j] \in 1 .. Len(t.info)  BY DEF Marks, LiveAt
  <1>3. \A k \in 1 .. Len(t.acts) : t.acts[k] \in 1 .. Len(t.info)  BY DEF Marks, LiveAt
  <1>4. /\ u.active = t.active /\ u.activeControl = t.activeControl /\ u.acts = t.acts
        /\ Len(u.info) = Len(t.info)
        /\ \A v \in 1 .. Len(t.info) : /\ u.info[v].intro = t.info[v].intro
                                       /\ u.info[v].active = t.info[v].active
    BY DEF SameMade
  <1>5. \A j \in 1 .. Len(t.active) : u.info[t.active[j]].intro = t.info[t.active[j]].intro  BY <1>2, <1>4
  <1>6. \A k \in 1 .. Len(t.acts) : u.info[t.acts[k]].intro = t.info[t.acts[k]].intro  BY <1>3, <1>4
  <1>7. \A v \in 1 .. Len(u.info) : u.info[v].active => \E j \in 1 .. Len(u.active) : u.active[j] = v
    BY <1>4 DEF Marks
  <1>8. \A j \in 1 .. Len(u.active) : LiveAt(u, u.active[j], Len(u.activeControl))
    BY <1>1, <1>4 DEF Marks
  <1>9. \A k \in 1 .. Len(u.activeControl) :
           /\ u.activeControl[k] <= Len(u.active)
           /\ \A j \in 1 .. Len(u.active) : j <= u.activeControl[k] <=> u.info[u.active[j]].intro < k
    <2>1. \A k \in 1 .. Len(t.activeControl) :
             /\ t.activeControl[k] <= Len(t.active)
             /\ \A j \in 1 .. Len(t.active) : j <= t.activeControl[k] <=> t.info[t.active[j]].intro < k
      BY DEF Marks
    <2> QED  BY <2>1, <1>4, <1>5
  <1>10. \A k \in 1 .. Len(u.acts) : LiveAt(u, u.acts[k], k) /\ u.info[u.acts[k]].intro = k
    BY <1>1, <1>4, <1>6 DEF Marks
  <1> QED  BY <1>1, <1>7, <1>8, <1>9, <1>10 DEF Marks

(* Clauses neither.                                                        *)
LEMMA SameMadeClauses ==
    ASSUME NEW t, NEW u, Marks(t), SameMade(t, u), Clauses(t),
           u.root = t.root, u.newClauses = t.newClauses
    PROVE  Clauses(u)
  <1>1. \A v, k : LiveAt(t, v, k) <=> LiveAt(u, v, k)  BY SameMadeMarks
  <1>2. /\ u.acts = t.acts /\ Len(u.info) = Len(t.info)
        /\ \A v \in 1 .. Len(t.info) : u.info[v].intro = t.info[v].intro
    BY DEF SameMade
  <1>3. \A c : ClauseOK(t, c) => ClauseOK(u, c)  BY <1>1, <1>2 DEF ClauseOK
  <1> QED  BY <1>2, <1>3 DEF Clauses

(* u is t after v got a value.                                             *)
Assigns(t, u, v) ==
    /\ u \in State
    /\ SameMade(t, u) /\ u.control = t.control /\ Len(u.decisions) = Len(t.decisions)
    /\ u.renotify = t.renotify /\ u.propagations = t.propagations /\ u.newClauses = t.newClauses
    /\ u.found = t.found /\ u.root = t.root /\ u.satLiterals = t.satLiterals
    /\ u.asserts = t.asserts
    /\ \A x \in 1 .. Len(t.info) : x # v => u.info[x] = t.info[x]
    /\ u.info[v].assigned /\ u.info[v].fixed = t.info[v].fixed /\ u.info[v].fixedAt = t.info[v].fixedAt
    /\ Len(u.assignments) = Len(t.assignments) + 1 /\ u.assignments[Len(t.assignments) + 1] = v
    /\ \A j \in 1 .. Len(t.assignments) : u.assignments[j] = t.assignments[j]
    /\ Len(u.ctx) = Len(t.ctx)
    /\ \A i \in 1 .. Len(t.ctx) : /\ u.ctx[i].prereg = t.ctx[i].prereg
                                  /\ i # Len(t.ctx) => u.ctx[i].queue = t.ctx[i].queue
    /\ u.ctx[Len(t.ctx)].queue = t.ctx[Len(t.ctx)].queue \cup (IF t.info[v].atom THEN {v} ELSE {})

(* enqueueTheoryLiteral changes the last level only.                       *)
LEMMA EnqueueFields ==
    ASSUME NEW t \in State, Len(t.ctx) > 0, NEW v \in Var, t.info[v].active,
           NEW u, u = enqueueTheoryLiteral(t, v)
    PROVE  /\ u \in State /\ SameVars(t, u) /\ SameTrail(t, u) /\ SameWork(t, u)
           /\ u.satLiterals = t.satLiterals /\ Len(u.ctx) = Len(t.ctx)
           /\ \A i \in 1 .. Len(t.ctx) : /\ u.ctx[i].prereg = t.ctx[i].prereg
                                         /\ i # Len(t.ctx) => u.ctx[i].queue = t.ctx[i].queue
           /\ u.ctx[Len(t.ctx)].queue = t.ctx[Len(t.ctx)].queue \cup {v}
  <1> DEFINE n == Len(t.ctx)
             x == [t.ctx[n] EXCEPT !.queue = @ \cup {v}]
             q == [t.ctx EXCEPT ![n] = x]
             b == t.asserts /\ t.info[v].active
  <1>1. t.ctx \in Seq(Snapshot) /\ n \in Nat /\ n \in 1 .. n /\ t.ctx[n] \in Snapshot
    BY Parts, Lengths, Elements
  <1>2. x \in Snapshot /\ x.queue = t.ctx[n].queue \cup {v} /\ x.prereg = t.ctx[n].prereg
    BY <1>1 DEF Snapshot
  <1>3. u = [t EXCEPT !.ctx = q, !.asserts = b]  BY DEF enqueueTheoryLiteral, CtxLevel
  <1> HIDE DEF x
  <1>4. q \in Seq(Snapshot) /\ Len(q) = n /\ q[n] = x /\ \A i \in 1 .. n : i # n => q[i] = t.ctx[i]
    BY <1>1, <1>2, ExceptSeq
  <1>5. b = t.asserts
    <2>1. t.asserts \in BOOLEAN  BY Parts
    <2> QED  BY <2>1
  <1> HIDE DEF q, b
  <1>6. u \in State /\ u.ctx = q  BY <1>3, <1>4, <1>5 DEF State
  <1>7. SameVars(t, u) /\ SameTrail(t, u) /\ SameWork(t, u) /\ u.satLiterals = t.satLiterals
    BY <1>3, <1>5 DEF State, SameVars, SameTrail, SameWork
  <1> QED  BY <1>2, <1>4, <1>6, <1>7

(* u is t, where the newest decision may be recorded.                      *)
Decided(t, u) ==
    /\ u \in State /\ SameVars(t, u) /\ SameWork(t, u) /\ u.satLiterals = t.satLiterals
    /\ u.ctx = t.ctx /\ u.assignments = t.assignments /\ u.control = t.control
    /\ Len(u.decisions) = Len(t.decisions)

(* A decision is recorded.                                                 *)
LEMMA DecidedFields ==
    ASSUME NEW t \in State, NEW v \in Var, NEW b \in BOOLEAN, b => Len(t.decisions) > 0, NEW d,
           d = IF b THEN [t EXCEPT !.decisions[Len(t.decisions)] = v] ELSE t
    PROVE  Decided(t, d)
  <1>1. CASE ~b
    <2>1. d = t  BY <1>1
    <2> QED  BY <2>1 DEF Decided, SameVars, SameWork
  <1>2. CASE b
    <2> DEFINE n == Len(t.decisions)
               e == [t.decisions EXCEPT ![n] = v]
    <2>1. n > 0  BY <1>2
    <2>2. t.decisions \in Seq(Var \cup {NoVar}) /\ n \in Nat /\ n \in 1 .. n
      BY <2>1, Parts, Lengths
    <2>3. d = [t EXCEPT !.decisions = e]  BY <1>2
    <2>4. e \in Seq(Var \cup {NoVar}) /\ Len(e) = n  BY <2>2, ExceptSeq
    <2> HIDE DEF e
    <2>5. d \in State /\ d.decisions = e  BY <2>3, <2>4 DEF State
    <2>6. /\ SameVars(t, d) /\ SameWork(t, d) /\ d.satLiterals = t.satLiterals /\ d.ctx = t.ctx
          /\ d.assignments = t.assignments /\ d.control = t.control
      BY <2>3 DEF State, SameVars, SameWork
    <2> QED  BY <2>4, <2>5, <2>6 DEF Decided
  <1> QED  BY <1>1, <1>2

(* What holds of a state depends on the number of decisions alone.         *)
LEMMA DecidedGood ==
    ASSUME NEW t, Good(t), NEW u, Decided(t, u)
    PROVE  Good(u)
  <1>0. /\ Sized(t) /\ Levels(t) /\ Marks(t) /\ Recorded(t) /\ Segments(t) /\ FixedOK(t)
        /\ Contexts(t) /\ Preregistered(t) /\ Renotified(t) /\ Sent(t)
        /\ Clauses(t) /\ Inferences(t) /\ AssertsOK(t)
    BY DEF Good
  <1>1. /\ u \in State /\ SameVars(t, u) /\ SameWork(t, u) /\ u.satLiterals = t.satLiterals
        /\ u.ctx = t.ctx /\ u.assignments = t.assignments /\ u.control = t.control
        /\ Len(u.decisions) = Len(t.decisions)
    BY DEF Decided
  <1>2. Sized(u) /\ Levels(u)  BY <1>0, <1>1 DEF Sized, Levels, SameVars
  <1>3. Marks(u)  BY <1>0, <1>1 DEF Marks, LiveAt, SameVars
  <1>4. Recorded(u) /\ Segments(u) /\ FixedOK(u)
    <2>1. u.info = t.info /\ u.assignments = t.assignments /\ u.control = t.control
      BY <1>1 DEF SameVars
    <2>2. Recorded(u)  BY <1>0, <2>1 DEF Recorded
    <2>3. Segments(u)  BY <1>0, <2>1 DEF Segments
    <2>4. FixedOK(u)  BY <1>0, <2>1 DEF FixedOK
    <2> QED  BY <2>2, <2>3, <2>4
  <1>5. Contexts(u)  BY <1>0, <1>1 DEF Contexts, LiveAt, SameVars
  <1>6. Preregistered(u)  BY <1>0, <1>1 DEF Preregistered, Waits, SameVars
  <1>7. Renotified(u)  BY <1>0, <1>1 DEF Renotified, Again, SameVars, SameWork
  <1>8. Sent(u)  BY <1>0, <1>1 DEF Sent, SameVars
  <1>9. Clauses(u)  BY <1>0, <1>1 DEF Clauses, ClauseOK, LiveAt, SameVars, SameWork
  <1>10. Inferences(u) /\ AssertsOK(u)  BY <1>0, <1>1 DEF Inferences, AssertsOK, SameWork
  <1> QED  BY <1>2, <1>3, <1>4, <1>5, <1>6, <1>7, <1>8, <1>9, <1>10 DEF Good

(* notify_assignment, when it records.                                     *)
LEMMA AssignmentFields ==
    ASSUME NEW t \in State, Len(t.ctx) > 0, NEW v \in 1 .. Len(t.info), v \in Var, ~t.found,
           t.info[v].active, ~t.info[v].assigned,
           NEW isDecision \in BOOLEAN, isDecision => Len(t.decisions) > 0
    PROVE  Assigns(t, notify_assignment(t, v, isDecision), v)
  <1> DEFINE d == IF isDecision THEN [t EXCEPT !.decisions[Len(t.decisions)] = v] ELSE t
             r == [d EXCEPT !.info[v].assigned = TRUE, !.assignments = Append(@, v)]
             u == IF t.info[v].atom THEN enqueueTheoryLiteral(r, v) ELSE r
  <1>1. notify_assignment(t, v, isDecision) = u  BY Zenon DEF notify_assignment
  <1>2. /\ d \in State /\ SameVars(t, d) /\ SameWork(t, d) /\ d.satLiterals = t.satLiterals
        /\ d.ctx = t.ctx /\ d.assignments = t.assignments /\ d.control = t.control
        /\ Len(d.decisions) = Len(t.decisions)
    BY DecidedFields DEF Decided
  <1> HIDE DEF d
  <1> DEFINE x == [t.info[v] EXCEPT !.assigned = TRUE]
             f == [t.info EXCEPT ![v] = x]
             q == Append(t.assignments, v)
             n == Len(t.info)
             m == Len(t.assignments)
  <1>3. t.info \in Seq(VarInfo) /\ n \in Nat /\ t.info[v] \in VarInfo /\ t.assignments \in Seq(Var)
    BY Parts, Lengths, Elements
  <1>4. /\ x \in VarInfo /\ x.assigned /\ x.intro = t.info[v].intro /\ x.active = t.info[v].active
        /\ x.atom = t.info[v].atom /\ x.fixed = t.info[v].fixed /\ x.fixedAt = t.info[v].fixedAt
    BY <1>3 DEF VarInfo
  <1>5. r = [d EXCEPT !.info = f, !.assignments = q]
    <2>1. d.info = t.info /\ d.assignments = t.assignments  BY <1>2 DEF SameVars
    <2>2. r = [d EXCEPT !.info = [d.info EXCEPT ![v] = [d.info[v] EXCEPT !.assigned = TRUE]],
                        !.assignments = Append(d.assignments, v)]
      BY <1>2 DEF State
    <2> QED  BY <2>1, <2>2, Zenon
  <1> HIDE DEF x
  <1>6. f \in Seq(VarInfo) /\ Len(f) = n /\ f[v] = x /\ \A i \in 1 .. n : i # v => f[i] = t.info[i]
    BY <1>3, <1>4, ExceptSeq
  <1>7. q \in Seq(Var) /\ Len(q) = m + 1 /\ q[m + 1] = v /\ \A i \in 1 .. m : q[i] = t.assignments[i]
    BY <1>3, OneMore
  <1> HIDE DEF f, q, r
  <1>8. r \in State /\ r.info = f /\ r.assignments = q  BY <1>2, <1>5, <1>6, <1>7 DEF State
  <1>9. /\ r.active = d.active /\ r.activeControl = d.activeControl /\ r.acts = d.acts
        /\ r.pushes = d.pushes /\ SameWork(d, r) /\ r.satLiterals = d.satLiterals
        /\ r.ctx = d.ctx /\ r.control = d.control /\ r.decisions = d.decisions
    BY <1>2, <1>5 DEF State, SameWork
  <1>10. /\ u \in State /\ SameVars(r, u) /\ SameTrail(r, u) /\ SameWork(r, u)
         /\ u.satLiterals = r.satLiterals /\ Len(u.ctx) = Len(r.ctx)
         /\ \A i \in 1 .. Len(r.ctx) : /\ u.ctx[i].prereg = r.ctx[i].prereg
                                       /\ i # Len(r.ctx) => u.ctx[i].queue = r.ctx[i].queue
         /\ u.ctx[Len(r.ctx)].queue = r.ctx[Len(r.ctx)].queue \cup (IF t.info[v].atom THEN {v} ELSE {})
    <2>1. CASE ~t.info[v].atom
      <3>1. u = r  BY <2>1
      <3> HIDE DEF u
      <3> QED  BY <3>1, <2>1, <1>8 DEF SameVars, SameTrail, SameWork
    <2>2. CASE t.info[v].atom
      <3>1. u = enqueueTheoryLiteral(r, v)  BY <2>2
      <3> HIDE DEF u
      <3>2. Len(r.ctx) > 0 /\ r.info[v].active
        BY <1>2, <1>4, <1>6, <1>8, <1>9 DEF SameWork
      <3> QED  BY <3>1, <3>2, <2>2, <1>8, EnqueueFields
    <2> QED  BY <2>1, <2>2
  <1> HIDE DEF u
  <1>11. /\ u.info = f /\ u.assignments = q /\ u.active = t.active /\ u.activeControl = t.activeControl
         /\ u.acts = t.acts /\ u.pushes = t.pushes /\ u.control = t.control
         /\ Len(u.decisions) = Len(t.decisions) /\ u.satLiterals = t.satLiterals
    BY <1>2, <1>8, <1>9, <1>10 DEF SameVars, SameTrail
  <1>12. SameMade(t, u)
    <2>1. \A i \in 1 .. n : /\ f[i].intro = t.info[i].intro /\ f[i].active = t.info[i].active
                            /\ f[i].atom = t.info[i].atom
      BY <1>4, <1>6
    <2> QED  BY <1>6, <1>11, <2>1 DEF SameMade
  <1>13. SameWork(t, u)  BY <1>2, <1>9, <1>10 DEF SameWork
  <1>14. u.ctx = u.ctx /\ r.ctx = t.ctx  BY <1>2, <1>9
  <1> QED  BY <1>1, <1>4, <1>6, <1>7, <1>10, <1>11, <1>12, <1>13, <1>14 DEF Assigns, SameWork

(* The parts of Good that do not speak of fixed variables.                 *)
Ready(t) ==
    /\ Sized(t) /\ Levels(t) /\ Marks(t) /\ Recorded(t) /\ Segments(t)
    /\ Contexts(t) /\ Preregistered(t) /\ Clauses(t) /\ Inferences(t) /\ AssertsOK(t)

(* What holds of a state, but for the literal that is being assigned.      *)
LEMMA AssignsReady ==
    ASSUME NEW t, Ready(t), NEW v \in 1 .. Len(t.info), t.info[v].active, ~t.info[v].assigned,
           NEW u, Assigns(t, u, v)
    PROVE  Ready(u)
  <1>0. /\ t \in State /\ Sized(t) /\ Levels(t) /\ Marks(t) /\ Recorded(t) /\ Segments(t)
        /\ Contexts(t) /\ Preregistered(t) /\ Clauses(t) /\ Inferences(t) /\ AssertsOK(t)
    BY DEF Ready, Sized
  <1>1. /\ u \in State /\ SameMade(t, u) /\ u.control = t.control /\ Len(u.decisions) = Len(t.decisions)
        /\ u.propagations = t.propagations /\ u.newClauses = t.newClauses
        /\ u.root = t.root /\ u.satLiterals = t.satLiterals /\ u.asserts = t.asserts
        /\ Len(u.ctx) = Len(t.ctx)
    BY DEF Assigns
  <1>2. /\ u.active = t.active /\ u.activeControl = t.activeControl /\ u.acts = t.acts
        /\ u.pushes = t.pushes /\ Len(u.info) = Len(t.info)
    BY <1>1 DEF SameMade
  <1>3. Sized(u) /\ Levels(u) /\ AssertsOK(u)  BY <1>0, <1>1, <1>2 DEF Sized, Levels, AssertsOK
  <1>4. Marks(u) /\ \A x, k : LiveAt(t, x, k) <=> LiveAt(u, x, k)  BY <1>0, <1>1, SameMadeMarks
  <1> DEFINE n == Len(t.assignments)
             l == Len(t.ctx)
  <1>5. /\ n \in Nat /\ Len(u.assignments) = n + 1 /\ u.assignments[n + 1] = v
        /\ \A j \in 1 .. n : u.assignments[j] = t.assignments[j]
        /\ \A x \in 1 .. Len(t.info) : x # v => u.info[x] = t.info[x]
        /\ u.info[v].assigned
        /\ \A x \in 1 .. Len(t.info) : u.info[x].active = t.info[x].active
    BY <1>0, Lengths DEF Assigns, SameMade
  <1>6. \A j \in 1 .. n + 1 : j \in 1 .. n \/ j = n + 1  BY <1>5
  <1>7. \A j \in 1 .. n : j \in 1 .. n + 1  BY <1>5
  <1>8. n + 1 \in 1 .. n + 1  BY <1>5
  <1>9. \A j \in 1 .. n : t.assignments[j] # v  BY <1>0 DEF Recorded
  <1> HIDE DEF n
  <1>10. Recorded(u)
    <2>1. ASSUME NEW j \in 1 .. n + 1
          PROVE  LET x == u.assignments[j] IN
                 x \in 1 .. Len(t.info) /\ u.info[x].active /\ u.info[x].assigned
      <3>1. CASE j = n + 1  BY <3>1, <1>5
      <3>2. CASE j \in 1 .. n
        <4>1. LET x == t.assignments[j] IN
              x \in 1 .. Len(t.info) /\ t.info[x].active /\ t.info[x].assigned
          BY <3>2, <1>0 DEF Recorded, n
        <4> QED  BY <4>1, <3>2, <1>5, <1>9
      <3> QED  BY <3>1, <3>2, <1>6
    <2>2. ASSUME NEW x \in 1 .. Len(t.info), u.info[x].active, u.info[x].assigned
          PROVE  \E j \in 1 .. n + 1 : u.assignments[j] = x
      <3>1. CASE x = v  BY <3>1, <1>5, <1>8
      <3>2. CASE x # v
        <4>1. u.info[x] = t.info[x]  BY <3>2, <1>5
        <4>2. PICK j \in 1 .. n : t.assignments[j] = x  BY <4>1, <2>2, <1>0 DEF Recorded, n
        <4> QED  BY <4>2, <1>5, <1>7
      <3> QED  BY <3>1, <3>2
    <2> QED  BY <2>1, <2>2, <1>2, <1>5 DEF Recorded
  <1>11. Segments(u)
    <2>1. ASSUME NEW i \in 1 .. Len(t.control)
          PROVE  /\ t.control[i] <= n + 1
                 /\ \A k \in 1 .. Len(t.control) : i <= k => t.control[i] <= t.control[k]
                 /\ \A j, k \in 1 .. n + 1 :
                       j <= t.control[i] /\ t.control[i] < k => u.assignments[j] # u.assignments[k]
      <3>1. t.control[i] <= n /\ t.control[i] \in Nat  BY <1>0, Elements DEF Segments, n
      <3>2. \A k \in 1 .. Len(t.control) : i <= k => t.control[i] <= t.control[k]  BY <1>0 DEF Segments
      <3>3. \A j, k \in 1 .. n :
               j <= t.control[i] /\ t.control[i] < k => t.assignments[j] # t.assignments[k]
        BY <1>0 DEF Segments, n
      <3>4. t.control[i] <= n + 1  BY <3>1, <1>5
      <3>5. ASSUME NEW j \in 1 .. n + 1, NEW k \in 1 .. n + 1, j <= t.control[i], t.control[i] < k
            PROVE  u.assignments[j] # u.assignments[k]
        <4>1. j \in 1 .. n  BY <3>1, <3>5, <1>5
        <4>2. CASE k = n + 1  BY <4>1, <4>2, <1>5, <1>9
        <4>3. CASE k \in 1 .. n  BY <4>1, <4>3, <3>3, <3>5, <1>5
        <4> QED  BY <4>2, <4>3, <1>6
      <3> QED  BY <3>2, <3>4, <3>5
    <2> QED  BY <2>1, <1>1, <1>5 DEF Segments
  <1>12. /\ l \in Nat /\ l > 0 /\ l \in 1 .. l /\ l > Len(t.activeControl) /\ Len(t.activeControl) \in Nat
    BY <1>0, LevelNumbers, Lengths
  <1>13. /\ \A i \in 1 .. l : /\ u.ctx[i].prereg = t.ctx[i].prereg
                              /\ i # l => u.ctx[i].queue = t.ctx[i].queue
         /\ u.ctx[l].queue = t.ctx[l].queue \cup (IF t.info[v].atom THEN {v} ELSE {})
    BY DEF Assigns
  <1> HIDE DEF l
  <1>14. LiveAt(u, v, l - 1)
    <2>1. \E j \in 1 .. Len(t.active) : t.active[j] = v  BY <1>0 DEF Marks
    <2>2. LiveAt(t, v, Len(t.activeControl))  BY <2>1, <1>0 DEF Marks
    <2>3. t.info[v].intro \in Nat  BY <1>0, Elements
    <2>4. LiveAt(t, v, l - 1)  BY <2>2, <2>3, <1>12 DEF LiveAt
    <2> QED  BY <2>4, <1>4
  <1>15. Contexts(u)
    <2>1. ASSUME NEW i \in 1 .. l, NEW x \in u.ctx[i].queue \cup u.ctx[i].prereg
          PROVE  LiveAt(u, x, i - 1)
      <3>1. CASE x \in t.ctx[i].queue \cup t.ctx[i].prereg
        <4>1. LiveAt(t, x, i - 1)  BY <3>1, <1>0 DEF Contexts, l
        <4> QED  BY <4>1, <1>4
      <3>2. CASE x \notin t.ctx[i].queue \cup t.ctx[i].prereg
        <4>1. i = l /\ x = v  BY <3>2, <1>13
        <4> QED  BY <4>1, <1>14
      <3> QED  BY <3>1, <3>2
    <2>2. /\ \A j \in 1 .. Len(t.satLiterals) :
                /\ LiveAt(u, t.satLiterals[j][1], Len(t.activeControl))
                /\ t.satLiterals[j][2] <= l
          /\ \A j, k \in 1 .. Len(t.satLiterals) : j <= k => t.satLiterals[j][2] <= t.satLiterals[k][2]
      BY <1>0, <1>4 DEF Contexts, l
    <2> QED  BY <2>1, <2>2, <1>1, <1>2 DEF Contexts, l
  <1>16. Preregistered(u)
    <2>1. \A x \in 1 .. Len(t.info) : /\ u.info[x].active = t.info[x].active
                                      /\ u.info[x].atom = t.info[x].atom
                                      /\ u.info[x].intro = t.info[x].intro
      BY <1>1 DEF SameMade
    <2>2. \A x, i : Waits(t, x, i) => Waits(u, x, i)  BY <1>1, <1>2 DEF Waits
    <2> SUFFICES ASSUME NEW x \in 1 .. Len(t.info), NEW i \in 1 .. l,
                        t.info[x].active, t.info[x].atom, t.info[x].intro < i
                 PROVE  x \in u.ctx[i].prereg \/ Waits(u, x, i)
      BY <2>1, <1>1, <1>2 DEF Preregistered, l
    <2>3. x \in t.ctx[i].prereg \/ Waits(t, x, i)  BY <1>0 DEF Preregistered, l
    <2> QED  BY <2>2, <2>3, <1>13
  <1>17. Clauses(u)  BY <1>0, <1>1, SameMadeClauses
  <1>18. Inferences(u)  BY <1>0, <1>1 DEF Inferences
  <1> QED  BY <1>3, <1>4, <1>10, <1>11, <1>15, <1>16, <1>17, <1>18 DEF Ready

(* A literal is assigned above decision level 0, or it is fixed.           *)
LEMMA AssignsGood ==
    ASSUME NEW t, Good(t), NEW v \in 1 .. Len(t.info), t.info[v].active, ~t.info[v].assigned,
           Len(t.control) > 0 \/ t.info[v].fixed, NEW u, Assigns(t, u, v)
    PROVE  Good(u)
  <1>0. /\ t \in State /\ Levels(t) /\ Ready(t) /\ Recorded(t) /\ Segments(t) /\ FixedOK(t)
        /\ Renotified(t) /\ Sent(t)
    BY DEF Good, Sized, Ready
  <1>1. Ready(u)  BY <1>0, AssignsReady
  <1> DEFINE n == Len(t.assignments)
             l == Len(t.ctx)
  <1>2. /\ n \in Nat /\ Len(u.assignments) = n + 1 /\ u.assignments[n + 1] = v
        /\ \A j \in 1 .. n : u.assignments[j] = t.assignments[j]
        /\ \A x \in 1 .. Len(t.info) : x # v => u.info[x] = t.info[x]
        /\ u.info[v].assigned /\ u.info[v].fixed = t.info[v].fixed
        /\ Len(u.info) = Len(t.info) /\ u.control = t.control /\ u.renotify = t.renotify
        /\ u.activeControl = t.activeControl /\ Len(u.ctx) = l
    BY <1>0, Lengths DEF Assigns, SameMade
  <1>3. /\ \A x \in 1 .. Len(t.info) : /\ u.info[x].active = t.info[x].active
                                       /\ u.info[x].atom = t.info[x].atom
                                       /\ u.info[x].intro = t.info[x].intro
                                       /\ u.info[x].fixed = t.info[x].fixed
                                       /\ u.info[x].fixedAt = t.info[x].fixedAt
    BY DEF Assigns, SameMade
  <1>4. \A i \in 1 .. l : \A x \in t.ctx[i].queue : x \in u.ctx[i].queue  BY DEF Assigns
  <1>5. t.info[v].atom => v \in u.ctx[l].queue  BY DEF Assigns
  <1>6. ~FixAnywhere => ~t.info[v].fixed  BY <1>0 DEF FixedOK
  <1>7. \A j \in 1 .. n : t.assignments[j] \in 1 .. Len(t.info)  BY <1>0 DEF Recorded
  <1>8. \A j \in 1 .. n + 1 : j \in 1 .. n \/ j = n + 1  BY <1>2
  <1>9. \A i \in 1 .. Len(t.control) : t.control[i] \in Nat /\ t.control[i] <= n
    BY <1>0, Elements DEF Segments
  <1>10. Len(t.control) \in Nat /\ (Len(t.control) > 0 => 1 \in 1 .. Len(t.control))
    <2>1. Len(t.control) \in Nat  BY <1>0, Lengths
    <2> QED  BY <2>1
  <1> HIDE DEF n, l
  <1>11. \A i \in 1 .. Len(t.control) : ~(n + 1 <= t.control[i])  BY <1>2, <1>9
  <1>12. FixedOK(u)
    <2>1. \A x \in 1 .. Len(t.info) : u.info[x].fixed => u.info[x].intro = 0
      BY <1>0, <1>3 DEF FixedOK
    <2>2. \A j \in 1 .. n : /\ u.assignments[j] = t.assignments[j]
                            /\ u.info[u.assignments[j]].fixed = t.info[t.assignments[j]].fixed
      BY <1>2, <1>3, <1>7, SMTT(30)
    <2>3. ASSUME NEW j \in 1 .. n + 1, Len(t.control) > 0 => j <= t.control[1]
          PROVE  u.info[u.assignments[j]].fixed
      <3>1. CASE j \in 1 .. n
        <4>1. t.info[t.assignments[j]].fixed  BY <3>1, <2>3, <1>0 DEF FixedOK, n
        <4> QED  BY <4>1, <3>1, <2>2
      <3>2. CASE j = n + 1
        <4>1. ~(Len(t.control) > 0)  BY <3>2, <2>3, <1>10, <1>11
        <4> QED  BY <4>1, <3>2, <1>2
      <3> QED  BY <3>1, <3>2, <1>8
    <2>4. ASSUME ~FixAnywhere, NEW x \in 1 .. Len(t.info), u.info[x].fixed, u.info[x].active
          PROVE  u.info[x].assigned
      <3>1. x # v /\ t.info[x].fixed /\ t.info[x].active  BY <2>4, <1>3, <1>6
      <3> QED  BY <3>1, <2>4, <1>0, <1>2 DEF FixedOK
    <2>5. ASSUME ~FixAnywhere, NEW j \in 1 .. n + 1, u.info[u.assignments[j]].fixed, Len(t.control) > 0
          PROVE  j <= t.control[1]
      <3>1. CASE j \in 1 .. n
        <4>1. t.info[t.assignments[j]].fixed  BY <3>1, <2>2, <2>5
        <4> QED  BY <4>1, <3>1, <2>5, <1>0 DEF FixedOK, n
      <3>2. CASE j = n + 1  BY <3>2, <2>5, <1>2, <1>6
      <3> QED  BY <3>1, <3>2, <1>8
    <2> QED  BY <2>1, <2>3, <2>4, <2>5, <1>2 DEF FixedOK
  <1>13. Renotified(u)
    <2>1. \A j \in 1 .. Len(t.renotify) :
             /\ t.renotify[j] \in 1 .. Len(t.info)
             /\ t.info[t.renotify[j]].active /\ t.info[t.renotify[j]].fixed
      BY <1>0 DEF Renotified
    <2>2. \A j \in 1 .. Len(t.renotify) : u.info[t.renotify[j]].active /\ u.info[t.renotify[j]].fixed
      BY <2>1, <1>3
    <2>3. ASSUME ~FixAnywhere, NEW x \in 1 .. Len(t.info),
                 t.info[x].active, t.info[x].atom, t.info[x].fixed
          PROVE  \/ Again(u, x)
                 \/ /\ t.info[x].fixedAt <= Len(t.activeControl)
                    /\ \A i \in 1 .. l : i > t.info[x].fixedAt => x \in u.ctx[i].queue
      <3>1. Again(t, x) => Again(u, x)  BY <1>2 DEF Again
      <3>2. \/ Again(t, x)
            \/ /\ t.info[x].fixedAt <= Len(t.activeControl)
               /\ \A i \in 1 .. l : i > t.info[x].fixedAt => x \in t.ctx[i].queue
        BY <2>3, <1>0 DEF Renotified, l
      <3>3. ASSUME NEW i \in 1 .. l, x \in t.ctx[i].queue  PROVE x \in u.ctx[i].queue  BY <3>3, <1>4
      <3> QED  BY <3>1, <3>2, <3>3
    <2>4. Len(u.info) = Len(t.info) /\ Len(u.ctx) = l /\ u.activeControl = t.activeControl  BY <1>2
    <2>5. ASSUME ~FixAnywhere, NEW x \in 1 .. Len(t.info),
                 u.info[x].active, u.info[x].atom, u.info[x].fixed
          PROVE  \/ Again(u, x)
                 \/ /\ u.info[x].fixedAt <= Len(t.activeControl)
                    /\ \A i \in 1 .. l : i > u.info[x].fixedAt => x \in u.ctx[i].queue
      BY <2>3, <2>5, <1>3
    <2> QED  BY <2>1, <2>2, <2>4, <2>5, <1>2, <1>3 DEF Renotified
  <1>14. Sent(u)
    <2> DEFINE a == Len(t.activeControl)
    <2>1. \A d \in 0 .. Len(t.control) : a + 1 + d \in 1 .. l  BY <1>0, LevelNumbers DEF l
    <2>2. l = a + 1 + Len(t.control)  BY <1>0, LevelNumbers DEF l
    <2> SUFFICES ASSUME NEW j \in 1 .. n + 1, NEW d \in 0 .. Len(t.control),
                        u.info[u.assignments[j]].atom, ~u.info[u.assignments[j]].fixed,
                        d < Len(t.control) => j <= t.control[d + 1]
                 PROVE  u.assignments[j] \in u.ctx[a + 1 + d].queue
      BY <1>2 DEF Sent
    <2>3. CASE j \in 1 .. n
      <3>1. t.assignments[j] \in t.ctx[a + 1 + d].queue
        BY <2>3, <1>0, <1>2, <1>3, <1>7 DEF Sent, n
      <3> QED  BY <3>1, <2>1, <2>3, <1>2, <1>4
    <2>4. CASE j = n + 1
      <3>1. ~(d < Len(t.control))
        <4>1. d < Len(t.control) => d + 1 \in 1 .. Len(t.control)  BY <1>10
        <4> QED  BY <4>1, <2>4, <1>11
      <3>2. d = Len(t.control)  BY <3>1, <1>10
      <3> QED  BY <3>2, <2>2, <2>4, <1>2, <1>3, <1>5
    <2> QED  BY <2>3, <2>4, <1>8
  <1> QED  BY <1>1, <1>12, <1>13, <1>14 DEF Good, Ready

(* t and u differ in what is known of v, if at all.                        *)
Alike(t, u, v) ==
    /\ Len(u.info) = Len(t.info) /\ Len(u.decisions) = Len(t.decisions)
    /\ u.control = t.control /\ u.assignments = t.assignments
    /\ \A x \in 1 .. Len(t.info) : /\ u.info[x].active = t.info[x].active
                                   /\ u.info[x].assigned = t.info[x].assigned
                                   /\ x # v => u.info[x].fixed = t.info[x].fixed

(* CaDiCaL assigns v at its level.                                         *)
LEMMA AssignsTrail ==
    ASSUME NEW t, Ready(t), NEW v \in 1 .. Len(t.info), t.info[v].active, ~t.info[v].assigned,
           NEW u, Assigns(t, u, v), NEW z, Alike(z, t, v), NEW c, Trail(z, c),
           NEW l \in Nat, l = Len(t.decisions), t.info[v].fixed <=> l = 0,
           NEW e, e = [c EXCEPT !.val[v] = l], c.val[v] = Unassigned
    PROVE  Trail(u, e)
  <1>0. t \in State /\ Levels(t) /\ Recorded(t) /\ Segments(t)  BY DEF Ready, Sized
  <1> DEFINE n == Len(t.assignments)
             m == Len(t.info)
             f == [c.val EXCEPT ![v] = l]
  <1>1. c \in Cadical /\ Len(c.val) = m  BY DEF Trail, Alike
  <1>2. c.val \in Seq(Nat \cup {Unassigned}) /\ v \in 1 .. Len(c.val)  BY <1>1, CadicalParts
  <1>3. f \in Seq(Nat \cup {Unassigned}) /\ Len(f) = m /\ f[v] = l
        /\ \A x \in 1 .. m : x # v => f[x] = c.val[x]
    BY <1>1, <1>2, ExceptSeq
  <1>4. e = [c EXCEPT !.val = f]  OBVIOUS
  <1> HIDE DEF f
  <1>5. e \in Cadical /\ e.val = f /\ e.ignored = c.ignored  BY <1>1, <1>3, <1>4 DEF Cadical
  <1>6. /\ n \in Nat /\ Len(u.assignments) = n + 1 /\ u.assignments[n + 1] = v
        /\ \A j \in 1 .. n : u.assignments[j] = t.assignments[j]
        /\ \A x \in 1 .. m : x # v => u.info[x] = t.info[x]
        /\ u.info[v].assigned
        /\ Len(u.info) = m /\ u.control = t.control /\ Len(u.decisions) = l
    BY <1>0, Lengths DEF Assigns, SameMade
  <1>7. \A j \in 1 .. n : t.assignments[j] \in 1 .. m /\ t.assignments[j] # v  BY <1>0 DEF Recorded
  <1>8. \A j \in 1 .. n + 1 : j \in 1 .. n \/ j = n + 1  BY <1>6
  <1>9. ~FixAnywhere => v \notin c.ignored
    <2>1. ~(Unassigned > 0)  BY DEF Unassigned
    <2> QED  BY <2>1 DEF Trail
  <1>10. \A i \in 1 .. Len(t.control) : t.control[i] \in Nat /\ t.control[i] <= n
    BY <1>0, Elements DEF Segments
  <1>11. \A x \in 1 .. m : f[x] <= l  BY <1>3 DEF Trail, Alike
  <1>12. ~FixAnywhere => \A x \in c.ignored : x \in 1 .. m /\ f[x] > 0  BY <1>3, <1>9 DEF Trail, Alike
  <1>13. ASSUME ~FixAnywhere, NEW x \in 1 .. m, u.info[x].active
         PROVE  u.info[x].assigned <=> f[x] # Unassigned /\ x \notin c.ignored
    <2>1. CASE x = v
      <3>1. l # Unassigned  BY DEF Unassigned
      <3> QED  BY <3>1, <2>1, <1>3, <1>6, <1>9, <1>13
    <2>2. CASE x # v
      <3>1. u.info[x] = t.info[x] /\ f[x] = c.val[x]  BY <2>2, <1>3, <1>6
      <3> QED  BY <3>1, <1>13 DEF Trail, Alike
    <2> QED  BY <2>1, <2>2
  <1> HIDE DEF n
  <1>14. ASSUME ~FixAnywhere, NEW i \in 1 .. Len(t.control), NEW j \in 1 .. n + 1
         PROVE  j <= t.control[i] <=> f[u.assignments[j]] < i
    <2>1. CASE j \in 1 .. n
      <3>1. f[u.assignments[j]] = c.val[t.assignments[j]]  BY <2>1, <1>3, <1>6, <1>7
      <3> QED  BY <3>1, <2>1, <1>14 DEF Trail, Alike, n
    <2>2. CASE j = n + 1
      <3>1. ~(n + 1 <= t.control[i])  BY <1>6, <1>10
      <3>2. Len(t.control) = l  BY <1>0 DEF Levels
      <3>3. ~(l < i)  BY <3>2
      <3>4. f[u.assignments[j]] = l  BY <2>2, <1>3, <1>6
      <3>5. ~(j <= t.control[i])  BY <3>1, <2>2
      <3>6. ~(f[u.assignments[j]] < i)  BY <3>3, <3>4, Zenon
      <3> QED  BY <3>5, <3>6, Zenon
    <2> QED  BY <2>1, <2>2, <1>8
  <1>15. ASSUME NEW x \in 1 .. m, u.info[x].active
         PROVE  u.info[x].fixed <=> f[x] = 0
    <2>1. CASE x = v  BY <2>1, <1>3 DEF Assigns
    <2>2. CASE x # v
      <3>1. u.info[x] = t.info[x] /\ f[x] = c.val[x]  BY <2>2, <1>3, <1>6
      <3>2. /\ x \in 1 .. Len(z.info) /\ z.info[x].active = t.info[x].active
            /\ z.info[x].fixed = t.info[x].fixed
        BY <2>2 DEF Alike
      <3>3. z.info[x].active => (z.info[x].fixed <=> c.val[x] = 0)  BY <3>2 DEF Trail
      <3> QED  BY <3>1, <3>2, <3>3, <1>15
    <2> QED  BY <2>1, <2>2
  <1>16. e \in Cadical /\ Len(e.val) = Len(u.info)  BY <1>3, <1>5, <1>6
  <1>17. \A x \in 1 .. Len(u.info) : e.val[x] <= Len(u.decisions)  BY <1>5, <1>6, <1>11
  <1>18. \A x \in 1 .. Len(u.info) : u.info[x].active => (u.info[x].fixed <=> e.val[x] = 0)
    BY <1>5, <1>6, <1>15
  <1>19. ~FixAnywhere => \A x \in e.ignored : x \in 1 .. Len(u.info) /\ e.val[x] > 0
    BY <1>5, <1>6, <1>12
  <1>20. ~FixAnywhere => \A x \in 1 .. Len(u.info) : u.info[x].active =>
             (u.info[x].assigned <=> e.val[x] # Unassigned /\ x \notin e.ignored)
    BY <1>5, <1>6, <1>13
  <1>21. ~FixAnywhere => \A i \in 1 .. Len(u.control), j \in 1 .. Len(u.assignments) :
             j <= u.control[i] <=> e.val[u.assignments[j]] < i
    BY <1>5, <1>6, <1>14
  <1> QED  BY <1>16, <1>17, <1>18, <1>19, <1>20, <1>21 DEF Trail

(* CaDiCaL assigns v, and cvc5 does not record it.                         *)
LEMMA IgnoresTrail ==
    ASSUME NEW t, Ready(t), NEW v \in 1 .. Len(t.info), t.info[v].active,
           NEW c, Trail(t, c), c.val[v] = Unassigned, NEW l \in Nat, l = Len(t.decisions), l > 0,
           NEW e, e = [c EXCEPT !.val[v] = l, !.ignored = @ \cup {v}]
    PROVE  Trail(t, e)
  <1>0. t \in State /\ Levels(t) /\ Recorded(t) /\ 1 .. Len(t.info) \subseteq Var
    BY ActiveVars DEF Ready, Sized
  <1> DEFINE n == Len(t.assignments)
             m == Len(t.info)
             f == [c.val EXCEPT ![v] = l]
             g == c.ignored \cup {v}
  <1>1. c \in Cadical /\ Len(c.val) = m  BY DEF Trail
  <1>2. c.val \in Seq(Nat \cup {Unassigned}) /\ v \in 1 .. Len(c.val) /\ g \subseteq Var
    BY <1>0, <1>1, CadicalParts
  <1>3. f \in Seq(Nat \cup {Unassigned}) /\ Len(f) = m /\ f[v] = l
        /\ \A x \in 1 .. m : x # v => f[x] = c.val[x]
    BY <1>1, <1>2, ExceptSeq
  <1>4. e = [c EXCEPT !.val = f, !.ignored = g]  OBVIOUS
  <1> HIDE DEF f
  <1>5. e \in Cadical /\ e.val = f /\ e.ignored = g  BY <1>1, <1>2, <1>3, <1>4 DEF Cadical
  <1>6. ~FixAnywhere => \A j \in 1 .. n : t.assignments[j] \in 1 .. m /\ t.assignments[j] # v
    BY <1>0 DEF Recorded, Trail
  <1>7. \A x \in 1 .. m : f[x] <= l  BY <1>3 DEF Trail
  <1>8. ~FixAnywhere => \A x \in g : x \in 1 .. m /\ f[x] > 0  BY <1>3 DEF Trail
  <1>9. ASSUME ~FixAnywhere, NEW x \in 1 .. m, t.info[x].active
        PROVE  t.info[x].assigned <=> f[x] # Unassigned /\ x \notin g
    <2>1. CASE x = v  BY <2>1, <1>9 DEF Trail
    <2>2. CASE x # v  BY <2>2, <1>3, <1>9 DEF Trail
    <2> QED  BY <2>1, <2>2
  <1>10. ~FixAnywhere => \A i \in 1 .. Len(t.control), j \in 1 .. n :
                            j <= t.control[i] <=> f[t.assignments[j]] < i
    <2>1. ~FixAnywhere => \A j \in 1 .. n : f[t.assignments[j]] = c.val[t.assignments[j]]  BY <1>3, <1>6
    <2> QED  BY <2>1 DEF Trail
  <1>11. ASSUME NEW x \in 1 .. m, t.info[x].active
         PROVE  t.info[x].fixed <=> f[x] = 0
    <2>1. CASE x = v
      <3>1. Unassigned # 0 /\ l # 0  BY DEF Unassigned
      <3> QED  BY <3>1, <2>1, <1>3, <1>11 DEF Trail
    <2>2. CASE x # v  BY <2>2, <1>3, <1>11 DEF Trail
    <2> QED  BY <2>1, <2>2
  <1> QED  BY <1>3, <1>5, <1>7, <1>8, <1>9, <1>10, <1>11 DEF Trail

(* Where nothing has to be recorded, what CaDiCaL knows of v may change.   *)
LEMMA ValueTrail ==
    ASSUME FixAnywhere, NEW t, NEW u, Len(u.info) = Len(t.info), Len(u.decisions) = Len(t.decisions),
           NEW v \in 1 .. Len(t.info), NEW c, Trail(t, c), NEW l \in 0 .. Len(t.decisions),
           \A x \in 1 .. Len(t.info) : x # v => /\ u.info[x].active = t.info[x].active
                                                /\ u.info[x].fixed = t.info[x].fixed,
           u.info[v].fixed <=> l = 0,
           NEW g, g \subseteq Var, NEW e, e = [c EXCEPT !.val[v] = l, !.ignored = g]
    PROVE  Trail(u, e)
  <1> DEFINE f == [c.val EXCEPT ![v] = l]
  <1>1. c \in Cadical /\ Len(c.val) = Len(t.info)  BY DEF Trail
  <1>2. c.val \in Seq(Nat \cup {Unassigned}) /\ v \in 1 .. Len(c.val)  BY <1>1, CadicalParts
  <1>3. f \in Seq(Nat \cup {Unassigned}) /\ Len(f) = Len(t.info) /\ f[v] = l
        /\ \A x \in 1 .. Len(t.info) : x # v => f[x] = c.val[x]
    <2>1. l \in Nat  OBVIOUS
    <2> QED  BY <2>1, <1>1, <1>2, ExceptSeq
  <1>4. e = [c EXCEPT !.val = f, !.ignored = g]  OBVIOUS
  <1> HIDE DEF f
  <1>5. e \in Cadical /\ e.val = f  BY <1>1, <1>3, <1>4 DEF Cadical
  <1>6. \A x \in 1 .. Len(t.info) : f[x] <= Len(t.decisions)  BY <1>3 DEF Trail
  <1>7. \A x \in 1 .. Len(t.info) : u.info[x].active => (u.info[x].fixed <=> f[x] = 0)
    BY <1>3 DEF Trail
  <1> QED  BY <1>3, <1>5, <1>6, <1>7 DEF Trail


(* u is t with v marked as fixed at the present user level.                *)
Marked(t, u, v) ==
    /\ u \in State /\ SameMade(t, u) /\ SameTrail(t, u) /\ SameWork(t, u)
    /\ u.ctx = t.ctx /\ u.satLiterals = t.satLiterals
    /\ \A x \in 1 .. Len(t.info) : x # v => u.info[x] = t.info[x]
    /\ u.info[v].fixed /\ u.info[v].fixedAt = Len(t.activeControl)
    /\ u.info[v].assigned = t.info[v].assigned

(* notify_fixed_assignment, before it notifies.                            *)
LEMMA MarkedFields ==
    ASSUME NEW t \in State, NEW v \in 1 .. Len(t.info), ~t.info[v].fixed,
           NEW u, u = [t EXCEPT !.info[v].fixed = TRUE, !.info[v].fixedAt = UserLevel(t),
                                !.asserts = @ /\ ~t.info[v].fixed]
    PROVE  Marked(t, u, v)
  <1> DEFINE x == [[t.info[v] EXCEPT !.fixed = TRUE] EXCEPT !.fixedAt = Len(t.activeControl)]
             f == [t.info EXCEPT ![v] = x]
             b == t.asserts /\ ~t.info[v].fixed
             n == Len(t.info)
  <1>1. /\ t.info \in Seq(VarInfo) /\ n \in Nat /\ t.info[v] \in VarInfo
        /\ Len(t.activeControl) \in Nat /\ t.asserts \in BOOLEAN
    BY Parts, Lengths, Elements
  <1>2. /\ x \in VarInfo /\ x.fixed /\ x.fixedAt = Len(t.activeControl)
        /\ x.intro = t.info[v].intro /\ x.active = t.info[v].active
        /\ x.atom = t.info[v].atom /\ x.assigned = t.info[v].assigned
    BY <1>1 DEF VarInfo
  <1>3. u = [t EXCEPT !.info = f, !.asserts = b]
    <2> DEFINE y == [t.info[v] EXCEPT !.fixed = TRUE]
               g == [t.info EXCEPT ![v] = y]
    <2>1. u = [t EXCEPT !.info = [g EXCEPT ![v] = [g[v] EXCEPT !.fixedAt = UserLevel(t)]],
                        !.asserts = b]
      BY DEF State
    <2>2. g[v] = y /\ DOMAIN g = DOMAIN t.info /\ v \in DOMAIN t.info  BY <1>1, LenProperties
    <2>3. [g EXCEPT ![v] = [g[v] EXCEPT !.fixedAt = UserLevel(t)]] = f
      <3>1. x = [y EXCEPT !.fixedAt = UserLevel(t)]  BY DEF UserLevel
      <3> HIDE DEF x, y
      <3> QED  BY <2>2, <3>1
    <2> QED  BY <2>1, <2>3
  <1> HIDE DEF x
  <1>4. f \in Seq(VarInfo) /\ Len(f) = n /\ f[v] = x /\ \A i \in 1 .. n : i # v => f[i] = t.info[i]
    BY <1>1, <1>2, ExceptSeq
  <1>5. b = t.asserts  BY <1>1
  <1> HIDE DEF f, b
  <1>6. u \in State /\ u.info = f  BY <1>3, <1>4, <1>5, <1>1, ZenonT(60) DEF State
  <1>7. /\ SameTrail(t, u) /\ SameWork(t, u) /\ u.ctx = t.ctx /\ u.satLiterals = t.satLiterals
        /\ u.active = t.active /\ u.activeControl = t.activeControl /\ u.acts = t.acts
        /\ u.pushes = t.pushes
    BY <1>3, <1>5 DEF State, SameTrail, SameWork
  <1>8. SameMade(t, u)
    <2>1. \A i \in 1 .. n : /\ f[i].intro = t.info[i].intro /\ f[i].active = t.info[i].active
                            /\ f[i].atom = t.info[i].atom
      BY <1>2, <1>4
    <2> QED  BY <1>4, <1>6, <1>7, <2>1 DEF SameMade
  <1> QED  BY <1>2, <1>4, <1>6, <1>7, <1>8 DEF Marked

(* A variable marked as fixed still has to be assigned.                    *)
LEMMA MarkedReady ==
    ASSUME NEW t, Ready(t), NEW v \in 1 .. Len(t.info), NEW u, Marked(t, u, v)
    PROVE  Ready(u)
  <1>0. /\ Sized(t) /\ Levels(t) /\ Marks(t) /\ Recorded(t) /\ Segments(t)
        /\ Contexts(t) /\ Preregistered(t) /\ Clauses(t) /\ Inferences(t) /\ AssertsOK(t)
    BY DEF Ready
  <1>1. /\ u \in State /\ SameMade(t, u) /\ SameTrail(t, u) /\ SameWork(t, u)
        /\ u.ctx = t.ctx /\ u.satLiterals = t.satLiterals
    BY DEF Marked
  <1>2. /\ Len(u.info) = Len(t.info) /\ u.activeControl = t.activeControl /\ u.acts = t.acts
        /\ u.pushes = t.pushes
        /\ \A x \in 1 .. Len(t.info) : /\ u.info[x].intro = t.info[x].intro
                                       /\ u.info[x].active = t.info[x].active
                                       /\ u.info[x].atom = t.info[x].atom
                                       /\ u.info[x].assigned = t.info[x].assigned
    BY DEF Marked, SameMade
  <1>3. /\ u.assignments = t.assignments /\ u.control = t.control /\ u.decisions = t.decisions
        /\ u.propagations = t.propagations /\ u.newClauses = t.newClauses /\ u.root = t.root
        /\ u.asserts = t.asserts
    BY <1>1 DEF SameTrail, SameWork
  <1>4. Sized(u) /\ Levels(u) /\ AssertsOK(u)  BY <1>0, <1>1, <1>2, <1>3 DEF Sized, Levels, AssertsOK
  <1>5. Marks(u) /\ \A x, k : LiveAt(t, x, k) <=> LiveAt(u, x, k)  BY <1>0, <1>1, SameMadeMarks
  <1>6. Recorded(u)
    <2>1. \A j \in 1 .. Len(t.assignments) :
             LET x == t.assignments[j] IN
             x \in 1 .. Len(t.info) /\ t.info[x].active /\ t.info[x].assigned
      BY <1>0 DEF Recorded
    <2>2. \A j \in 1 .. Len(t.assignments) :
             LET x == t.assignments[j] IN
             x \in 1 .. Len(t.info) /\ u.info[x].active /\ u.info[x].assigned
      BY <2>1, <1>2
    <2>3. \A x \in 1 .. Len(t.info) : u.info[x].active /\ u.info[x].assigned =>
             \E j \in 1 .. Len(t.assignments) : t.assignments[j] = x
      BY <1>0, <1>2 DEF Recorded
    <2> QED  BY <2>2, <2>3, <1>2, <1>3 DEF Recorded
  <1>7. Segments(u)  BY <1>0, <1>3 DEF Segments
  <1>8. Contexts(u)  BY <1>0, <1>1, <1>2, <1>5 DEF Contexts
  <1>9. Preregistered(u)
    <2>1. \A x, i : Waits(t, x, i) => Waits(u, x, i)  BY <1>1, <1>2 DEF Waits
    <2> QED  BY <2>1, <1>0, <1>1, <1>2 DEF Preregistered
  <1>10. Clauses(u)  BY <1>0, <1>1, <1>3, SameMadeClauses
  <1>11. Inferences(u)  BY <1>0, <1>1, <1>3 DEF Inferences
  <1> QED  BY <1>4, <1>5, <1>6, <1>7, <1>8, <1>9, <1>10, <1>11 DEF Ready

(* It need not be, if nothing has to be recorded.                          *)
LEMMA MarkedGood ==
    ASSUME FixAnywhere, NEW t, Good(t), NEW v \in 1 .. Len(t.info), t.info[v].intro = 0,
           NEW u, Marked(t, u, v)
    PROVE  Good(u)
  <1>0. Ready(t) /\ FixedOK(t) /\ Renotified(t) /\ Sent(t) /\ Recorded(t)  BY DEF Good, Ready
  <1>1. Ready(u)  BY <1>0, MarkedReady
  <1>2. /\ u.assignments = t.assignments /\ u.control = t.control /\ u.ctx = t.ctx
        /\ u.renotify = t.renotify /\ u.activeControl = t.activeControl /\ Len(u.info) = Len(t.info)
        /\ u.info[v].fixed
        /\ \A x \in 1 .. Len(t.info) : /\ u.info[x].active = t.info[x].active
                                       /\ u.info[x].atom = t.info[x].atom
                                       /\ u.info[x].intro = t.info[x].intro
                                       /\ x # v => u.info[x] = t.info[x]
    BY DEF Marked, SameTrail, SameWork, SameMade
  <1>3. \A x \in 1 .. Len(t.info) : t.info[x].fixed => u.info[x].fixed  BY <1>2
  <1>4. \A j \in 1 .. Len(t.assignments) : t.assignments[j] \in 1 .. Len(t.info)  BY <1>0 DEF Recorded
  <1>5. FixedOK(u)
    <2>1. \A x \in 1 .. Len(t.info) : u.info[x].fixed => u.info[x].intro = 0
      BY <1>0, <1>2 DEF FixedOK
    <2>2. \A j \in 1 .. Len(t.assignments) :
             (Len(t.control) > 0 => j <= t.control[1]) => u.info[t.assignments[j]].fixed
      BY <1>0, <1>3, <1>4 DEF FixedOK
    <2> QED  BY <2>1, <2>2, <1>2 DEF FixedOK
  <1>6. Renotified(u)  BY <1>0, <1>2, <1>3 DEF Renotified
  <1>7. Sent(u)
    <2> SUFFICES ASSUME NEW j \in 1 .. Len(t.assignments), NEW d \in 0 .. Len(t.control),
                        u.info[t.assignments[j]].atom, ~u.info[t.assignments[j]].fixed,
                        d < Len(t.control) => j <= t.control[d + 1]
                 PROVE  t.assignments[j] \in t.ctx[Len(t.activeControl) + 1 + d].queue
      <3>1. /\ u.assignments = t.assignments /\ u.control = t.control /\ u.ctx = t.ctx
            /\ u.activeControl = t.activeControl
        BY <1>2
      <3> QED  BY <3>1 DEF Sent
    <2>1. t.info[t.assignments[j]].atom /\ ~t.info[t.assignments[j]].fixed  BY <1>2, <1>3, <1>4
    <2> QED  BY <2>1, <1>0 DEF Sent
  <1> QED  BY <1>1, <1>5, <1>6, <1>7 DEF Good, Ready

(* A literal of user level 0 is fixed, at decision level 0.                *)
LEMMA FixesGood ==
    ASSUME ~FixAnywhere, NEW t, Good(t), NEW v \in 1 .. Len(t.info), t.info[v].active, ~t.info[v].assigned,
           t.info[v].intro = 0, Len(t.decisions) = 0, NEW w, Marked(t, w, v), NEW u, Assigns(w, u, v)
    PROVE  Good(u)
  <1>0. /\ t \in State /\ Levels(t) /\ Ready(t) /\ Recorded(t) /\ FixedOK(t) /\ Renotified(t)
    BY DEF Good, Sized, Ready
  <1>1. Ready(w)  BY <1>0, MarkedReady
  <1> DEFINE n == Len(t.assignments)
             l == Len(t.ctx)
             a == Len(t.activeControl)
  <1>2. /\ w.assignments = t.assignments /\ w.control = t.control /\ w.ctx = t.ctx
        /\ w.renotify = t.renotify /\ w.activeControl = t.activeControl /\ Len(w.info) = Len(t.info)
        /\ w.info[v].active = t.info[v].active /\ w.info[v].assigned = t.info[v].assigned
        /\ w.info[v].atom = t.info[v].atom /\ w.info[v].intro = t.info[v].intro
        /\ w.info[v].fixed /\ w.info[v].fixedAt = a
        /\ \A x \in 1 .. Len(t.info) : x # v => w.info[x] = t.info[x]
    BY DEF Marked, SameTrail, SameWork, SameMade
  <1>3. Ready(u)
    <2>1. v \in 1 .. Len(w.info) /\ w.info[v].active /\ ~w.info[v].assigned  BY <1>2
    <2> QED  BY <2>1, <1>1, AssignsReady
  <1>4. /\ u.control = t.control /\ u.renotify = t.renotify /\ u.activeControl = t.activeControl
        /\ Len(u.info) = Len(t.info) /\ Len(u.ctx) = l
        /\ Len(u.assignments) = n + 1 /\ u.assignments[n + 1] = v
        /\ \A j \in 1 .. n : u.assignments[j] = t.assignments[j]
        /\ \A x \in 1 .. Len(t.info) : x # v => u.info[x] = t.info[x]
    BY <1>2 DEF Assigns, SameMade
  <1>5. /\ u.info[v].assigned /\ u.info[v].fixed /\ u.info[v].fixedAt = a
        /\ u.info[v].intro = 0 /\ u.info[v].active /\ u.info[v].atom = t.info[v].atom
    <2>1. /\ u.info[v].assigned /\ u.info[v].fixed = w.info[v].fixed
          /\ u.info[v].fixedAt = w.info[v].fixedAt
      BY DEF Assigns
    <2>2. SameMade(w, u)  BY DEF Assigns
    <2>3. u.info[v].intro = w.info[v].intro /\ u.info[v].active = w.info[v].active
          /\ u.info[v].atom = w.info[v].atom
      BY <2>2, <1>2 DEF SameMade
    <2> QED  BY <2>1, <2>3, <1>2
  <1>6. /\ l \in Nat /\ l \in 1 .. l /\ n \in Nat /\ a \in Nat /\ Len(t.control) = 0 /\ l = a + 1
    <2>1. Len(t.control) = 0  BY <1>0 DEF Levels
    <2>2. l = a + 1 + Len(t.control)  BY <1>0, LevelNumbers
    <2>3. l \in Nat /\ n \in Nat /\ a \in Nat /\ l \in 1 .. l  BY <1>0, Lengths, LevelNumbers
    <2> QED  BY <2>1, <2>2, <2>3
  <1>7. \A i \in 1 .. l : \A x \in t.ctx[i].queue : x \in u.ctx[i].queue  BY <1>2 DEF Assigns
  <1>8. t.info[v].atom => v \in u.ctx[l].queue  BY <1>2 DEF Assigns
  <1>9. \A j \in 1 .. n : t.assignments[j] \in 1 .. Len(t.info) /\ t.assignments[j] # v
    BY <1>0 DEF Recorded
  <1>10. \A j \in 1 .. n + 1 : j \in 1 .. n \/ j = n + 1  BY <1>6
  <1>11. \A j \in 1 .. n + 1 : u.info[u.assignments[j]].fixed
    <2>1. \A j \in 1 .. n : t.info[t.assignments[j]].fixed
      <3>1. ~(Len(t.control) > 0)  BY <1>6
      <3> QED  BY <3>1, <1>0 DEF FixedOK
    <2>2. \A j \in 1 .. n : u.info[t.assignments[j]] = t.info[t.assignments[j]]  BY <1>4, <1>9
    <2>3. \A j \in 1 .. n : u.info[u.assignments[j]].fixed  BY <2>1, <2>2, <1>4
    <2> QED  BY <2>3, <1>4, <1>5, <1>10
  <1> HIDE DEF n, l, a
  <1>12. FixedOK(u)
    <2>1. ASSUME NEW x \in 1 .. Len(t.info), u.info[x].fixed
          PROVE  u.info[x].intro = 0 /\ (u.info[x].active => u.info[x].assigned)
      <3>1. CASE x = v  BY <3>1, <1>5
      <3>2. CASE x # v
        <4>1. u.info[x] = t.info[x]  BY <3>2, <1>4
        <4> QED  BY <4>1, <2>1, <1>0 DEF FixedOK
      <3> QED  BY <3>1, <3>2
    <2>2. ~(Len(u.control) > 0)  BY <1>4, <1>6
    <2> QED  BY <2>1, <2>2, <1>4, <1>11 DEF FixedOK
  <1>13. Renotified(u)
    <2>1. \A j \in 1 .. Len(t.renotify) :
             /\ t.renotify[j] \in 1 .. Len(t.info)
             /\ t.info[t.renotify[j]].active /\ t.info[t.renotify[j]].fixed
      BY <1>0 DEF Renotified
    <2>2. \A j \in 1 .. Len(t.renotify) : u.info[t.renotify[j]].active /\ u.info[t.renotify[j]].fixed
      BY <2>1, <1>4, <1>5
    <2>3. ASSUME NEW x \in 1 .. Len(t.info), u.info[x].active, u.info[x].atom, u.info[x].fixed
          PROVE  \/ Again(u, x)
                 \/ /\ u.info[x].fixedAt <= a
                    /\ \A i \in 1 .. l : i > u.info[x].fixedAt => x \in u.ctx[i].queue
      <3>1. CASE x = v
        <4>1. u.info[x].fixedAt = a /\ a <= a  BY <3>1, <1>5, <1>6
        <4>2. \A i \in 1 .. l : i > a => i = l  BY <1>6
        <4> QED  BY <4>1, <4>2, <3>1, <2>3, <1>5, <1>8
      <3>2. CASE x # v
        <4>1. u.info[x] = t.info[x]  BY <3>2, <1>4
        <4>2. Again(t, x) => Again(u, x)  BY <1>4 DEF Again
        <4>3. \/ Again(t, x)
              \/ /\ t.info[x].fixedAt <= a
                 /\ \A i \in 1 .. l : i > t.info[x].fixedAt => x \in t.ctx[i].queue
          BY <4>1, <2>3, <1>0 DEF Renotified, l, a
        <4> QED  BY <4>1, <4>2, <4>3, <1>7
      <3> QED  BY <3>1, <3>2
    <2> QED  BY <2>1, <2>2, <2>3, <1>4 DEF Renotified, a
  <1>14. Sent(u)  BY <1>4, <1>11 DEF Sent
  <1> QED  BY <1>3, <1>12, <1>13, <1>14 DEF Good, Ready

LEMMA FixStep ==
    ASSUME IInv, NEW v, Fix(v)
    PROVE  IInv'
  <1> DEFINE w == [s EXCEPT !.info[v].fixed = TRUE, !.info[v].fixedAt = UserLevel(s),
                            !.asserts = @ /\ ~s.info[v].fixed]
             g == IF s.found /\ ~s.info[v].assigned THEN cad.ignored \cup {v} ELSE cad.ignored
  <1>1. Good(s) /\ FoundOK(s) /\ Trail(s, cad) /\ Stage  BY DEF IInv
  <1>2. /\ cad.level = 0 \/ FixAnywhere
        /\ pc \in {"idle", "search"} /\ v \in Active(s) /\ cad.val[v] # 0 /\ v \in s.root
        /\ s' = notify_fixed_assignment(s, v) /\ cad' = [cad EXCEPT !.val[v] = 0, !.ignored = g]
        /\ pc' = pc
    BY DEF Fix
  <1>3. s \in State /\ Ready(s) /\ Sized(s) /\ Marks(s) /\ Levels(s) /\ Clauses(s) /\ FixedOK(s)
    BY <1>1 DEF Good, Sized, Ready
  <1>4. v \in 1 .. Len(s.info) /\ s.info[v].active /\ v \in Var  BY <1>2, <1>3, ActiveVars
  <1>5. s.info[v].intro = 0 /\ ~s.info[v].fixed  BY <1>1, <1>2, <1>3, <1>4 DEF Clauses, Trail
  <1>6. s' = notify_assignment(w, v, FALSE)  BY <1>2, <1>4, Zenon DEF notify_fixed_assignment
  <1>7. Marked(s, w, v)  BY <1>3, <1>4, <1>5, MarkedFields
  <1>8. cad \in Cadical /\ g \subseteq Var  BY <1>1, <1>4, CadicalParts DEF Trail
  <1> HIDE DEF w, g
  <1>9. Ready(w) /\ w \in State  BY <1>3, <1>4, <1>7, MarkedReady DEF Ready, Sized
  <1>10. /\ v \in 1 .. Len(w.info) /\ Len(w.info) = Len(s.info) /\ w.decisions = s.decisions
         /\ w.assignments = s.assignments /\ w.control = s.control /\ w.ctx = s.ctx
         /\ w.found = s.found /\ w.renotify = s.renotify /\ w.newClauses = s.newClauses
         /\ w.propagations = s.propagations
         /\ w.info[v].active /\ w.info[v].fixed /\ w.info[v].assigned = s.info[v].assigned
         /\ \A x \in 1 .. Len(s.info) : x # v => w.info[x] = s.info[x]
    BY <1>4, <1>7 DEF Marked, SameMade, SameTrail, SameWork
  <1>11. cad'.level = cad.level  BY <1>2, <1>8 DEF Cadical
  <1>12. Len(s.ctx) > 0 /\ Len(s.decisions) \in Nat  BY <1>3, LevelNumbers, Lengths
  <1>13. ASSUME ~s.found, ~s.info[v].assigned  PROVE Assigns(w, s', v)
    <2>1. \A b \in BOOLEAN : ~b => Assigns(w, notify_assignment(w, v, b), v)
      BY <1>4, <1>9, <1>10, <1>12, <1>13, AssignmentFields
    <2> QED  BY <2>1, <1>6, Zenon
  <1>14. CASE FixAnywhere
    <2>1. Good(w)  BY <1>1, <1>4, <1>5, <1>7, <1>14, MarkedGood
    <2>2. CASE s.found \/ s.info[v].assigned
      <3>1. s' = w
        <4>1. w.found \/ w.info[v].assigned  BY <2>2, <1>10
        <4> QED  BY <4>1, <1>6, Zenon DEF notify_assignment
      <3>2. Trail(s', cad')
        <4>1. /\ Len(s'.decisions) = Len(s.decisions) /\ Len(s'.info) = Len(s.info)
              /\ \A x \in 1 .. Len(s.info) : x # v => s'.info[x] = s.info[x]
          BY <3>1, <1>10
        <4>2. 0 \in 0 .. Len(s.decisions) /\ (s'.info[v].fixed <=> 0 = 0)  BY <3>1, <1>10, <1>12
        <4> QED  BY <4>1, <4>2, <1>1, <1>2, <1>4, <1>8, <1>14, ValueTrail
      <3>3. Stage' /\ FoundOK(s')  BY <3>1, <1>1, <1>2, <1>10, <1>11 DEF Stage, FoundOK, Checked
      <3> QED  BY <2>1, <3>1, <3>2, <3>3 DEF IInv
    <2>3. CASE ~s.found /\ ~s.info[v].assigned
      <3>1. Assigns(w, s', v)  BY <2>3, <1>13
      <3>2. Good(s')  BY <3>1, <2>1, <2>3, <1>10, AssignsGood
      <3>3. /\ s'.found = s.found /\ s'.renotify = s.renotify /\ Len(s'.decisions) = Len(s.decisions)
            /\ Len(s'.info) = Len(s.info) /\ s'.info[v].fixed
            /\ \A x \in 1 .. Len(s.info) : x # v => s'.info[x] = s.info[x]
        BY <3>1, <1>10 DEF Assigns, SameMade
      <3>4. Trail(s', cad')
        <4>1. 0 \in 0 .. Len(s.decisions) /\ (s'.info[v].fixed <=> 0 = 0)  BY <3>3, <1>12
        <4> QED  BY <4>1, <3>3, <1>1, <1>2, <1>4, <1>8, <1>14, ValueTrail
      <3>5. Stage' /\ FoundOK(s')  BY <3>3, <2>3, <1>1, <1>2, <1>11 DEF Stage, FoundOK
      <3> QED  BY <3>2, <3>4, <3>5 DEF IInv
    <2> QED  BY <2>2, <2>3
  <1>15. CASE ~FixAnywhere
    <2>1. Len(s.decisions) = 0  BY <1>1, <1>2, <1>15 DEF Stage
    <2>2. ~s.found  BY <1>1, <2>1, IdleNotFound
    <2>3. cad.val[v] = Unassigned
      <3>1. cad.val[v] \in Nat \cup {Unassigned} /\ cad.val[v] <= 0
        BY <2>1, <1>1, <1>4, CadicalParts DEF Trail
      <3> QED  BY <3>1, <1>2
    <2>4. ~s.info[v].assigned  BY <2>3, <1>1, <1>4, <1>15 DEF Trail
    <2>5. Assigns(w, s', v)  BY <2>2, <2>4, <1>13
    <2>6. Good(s')  BY <2>1, <2>4, <2>5, <1>1, <1>4, <1>5, <1>7, <1>15, FixesGood
    <2>7. cad' = [cad EXCEPT !.val[v] = 0]  BY <2>2, <1>2, <1>8 DEF g, Cadical
    <2>8. Alike(s, w, v)  BY <1>7 DEF Alike, Marked, SameMade, SameTrail
    <2>9. Trail(s', cad')
      <3>1. Len(w.decisions) = 0 /\ (w.info[v].fixed <=> 0 = 0) /\ ~w.info[v].assigned
        BY <2>1, <2>4, <1>10
      <3> QED  BY <3>1, <2>3, <2>5, <2>7, <2>8, <1>1, <1>9, <1>10, AssignsTrail, SMTT(30)
    <2>10. s'.found = s.found /\ s'.renotify = s.renotify /\ Len(s'.decisions) = Len(s.decisions)
      BY <2>5, <1>10 DEF Assigns
    <2>11. Stage' /\ FoundOK(s')  BY <2>2, <2>10, <1>1, <1>2, <1>11 DEF Stage, FoundOK
    <2> QED  BY <2>6, <2>9, <2>11 DEF IInv
  <1> QED  BY <1>14, <1>15

LEMMA ReportStep ==
    ASSUME IInv, NEW v, Report(v)
    PROVE  IInv'
  <1> DEFINE g == IF s.found THEN cad.ignored ELSE cad.ignored \ {v}
  <1>1. Good(s) /\ FoundOK(s) /\ Trail(s, cad) /\ Stage  BY DEF IInv
  <1>2. /\ pc = "search" /\ pc' = pc /\ v \in Active(s) /\ cad.val[v] = 0
        /\ s' = notify_assignment(s, v, FALSE) /\ cad' = [cad EXCEPT !.ignored = g]
    BY DEF Report
  <1>3. s \in State /\ Sized(s) /\ Marks(s) /\ Levels(s) /\ FixedOK(s)  BY <1>1 DEF Good, Sized
  <1>4. v \in 1 .. Len(s.info) /\ s.info[v].active /\ v \in Var  BY <1>2, <1>3, ActiveVars
  <1>5. s.info[v].fixed  BY <1>1, <1>2, <1>4 DEF Trail
  <1>6. cad \in Cadical /\ g \subseteq Var /\ Len(cad.val) = Len(s.info)
    BY <1>1, CadicalParts DEF Trail
  <1>7. Len(s.ctx) > 0 /\ Len(s.decisions) \in Nat  BY <1>3, LevelNumbers, Lengths
  <1>8. cad' = [cad EXCEPT !.val[v] = 0, !.ignored = g]
    <2>1. [cad.val EXCEPT ![v] = 0] = cad.val  BY <1>2, <1>4, <1>6, CadicalParts
    <2> QED  BY <2>1, <1>2, <1>6 DEF Cadical
  <1>9. ~FixAnywhere => cad' = cad
    <2>1. ~FixAnywhere => v \notin cad.ignored  BY <1>1, <1>2 DEF Trail
    <2>2. ~FixAnywhere => g = cad.ignored  BY <2>1
    <2> HIDE DEF g
    <2> QED  BY <2>2, <1>2, <1>6 DEF Cadical
  <1> HIDE DEF g
  <1>10. cad'.level = cad.level  BY <1>2, <1>6 DEF Cadical
  <1>11. ASSUME FixAnywhere, Len(s'.info) = Len(s.info), Len(s'.decisions) = Len(s.decisions),
                s'.info[v].fixed, \A x \in 1 .. Len(s.info) : x # v => s'.info[x] = s.info[x]
         PROVE  Trail(s', cad')
    <2>1. 0 \in 0 .. Len(s.decisions) /\ (s'.info[v].fixed <=> 0 = 0)  BY <1>7, <1>11
    <2> QED  BY <2>1, <1>1, <1>4, <1>6, <1>8, <1>11, ValueTrail
  <1>12. CASE s.found \/ s.info[v].assigned
    <2>1. s' = s  BY <1>2, <1>12, Zenon DEF notify_assignment
    <2>2. Trail(s', cad')  BY <2>1, <1>1, <1>5, <1>9, <1>11
    <2>3. Stage' /\ FoundOK(s')  BY <2>1, <1>1, <1>2, <1>10 DEF Stage
    <2> QED  BY <2>1, <2>2, <2>3, <1>1 DEF IInv
  <1>13. CASE ~s.found /\ ~s.info[v].assigned
    <2>1. FixAnywhere  BY <1>3, <1>4, <1>5, <1>13 DEF FixedOK
    <2>2. Assigns(s, s', v)
      <3>1. \A b \in BOOLEAN : ~b => Assigns(s, notify_assignment(s, v, b), v)
        BY <1>3, <1>4, <1>7, <1>13, AssignmentFields
      <3> QED  BY <3>1, <1>2, Zenon
    <2>3. Good(s')  BY <2>2, <1>1, <1>4, <1>5, <1>13, AssignsGood
    <2>4. /\ s'.found = s.found /\ s'.renotify = s.renotify /\ Len(s'.decisions) = Len(s.decisions)
          /\ Len(s'.info) = Len(s.info) /\ s'.info[v].fixed
          /\ \A x \in 1 .. Len(s.info) : x # v => s'.info[x] = s.info[x]
      BY <2>2, <1>5 DEF Assigns, SameMade
    <2>5. Trail(s', cad')  BY <2>1, <2>4, <1>11
    <2>6. Stage' /\ FoundOK(s')  BY <2>4, <1>1, <1>2, <1>10, <1>13 DEF Stage, FoundOK
    <2> QED  BY <2>3, <2>5, <2>6 DEF IInv
  <1> QED  BY <1>12, <1>13

(* u and e are cvc5 and CaDiCaL after a step on the trail in a search.     *)
OnTrail(t, u, e) ==
    /\ Good(u) /\ FoundOK(u) /\ Trail(u, e)
    /\ u.renotify = t.renotify /\ Len(u.decisions) = e.level

(* CaDiCaL assigns v above level 0.                                        *)
LEMMA AssignedAbove ==
    ASSUME NEW t, Good(t), FoundOK(t), NEW c, Trail(t, c), c.level = Len(t.decisions), c.level > 0,
           NEW v \in Active(t), c.val[v] = Unassigned, NEW b \in BOOLEAN
    PROVE  OnTrail(t, notify_assignment(t, v, b),
                   [c EXCEPT !.val[v] = c.level, !.ignored = IF t.found THEN @ \cup {v} ELSE @])
  <1> DEFINE u == notify_assignment(t, v, b)
             l == c.level
             e == [c EXCEPT !.val[v] = l, !.ignored = IF t.found THEN @ \cup {v} ELSE @]
  <1>1. t \in State /\ Ready(t) /\ Sized(t) /\ Marks(t) /\ Levels(t) /\ AssertsOK(t)
    BY DEF Good, Sized, Ready
  <1>2. v \in 1 .. Len(t.info) /\ t.info[v].active /\ v \in Var  BY <1>1, ActiveVars
  <1>3. ~FixAnywhere => ~t.info[v].assigned  BY <1>2 DEF Trail
  <1>4. c \in Cadical /\ l \in Nat  BY CadicalParts DEF Trail
  <1>5. Len(t.control) > 0  BY <1>1 DEF Levels
  <1>6. e.level = l  BY <1>4 DEF Cadical
  <1>7. CASE t.found
    <2>1. u = t  BY <1>7, Zenon DEF notify_assignment
    <2>2. e = [c EXCEPT !.val[v] = l, !.ignored = @ \cup {v}]  BY <1>7
    <2>3. Trail(t, e)
      <3> HIDE DEF e, l
      <3>1. l = Len(t.decisions) /\ l > 0  BY DEF l
      <3> QED  BY <3>1, <2>2, <1>1, <1>2, <1>4, IgnoresTrail
    <2> HIDE DEF u, e
    <2> QED  BY <2>1, <2>3, <1>6 DEF OnTrail, u, e
  <1>8. ~t.info[v].fixed
    <2>1. Unassigned # 0  BY DEF Unassigned
    <2> QED  BY <2>1, <1>2 DEF Trail
  <1>9. CASE ~t.found /\ t.info[v].assigned
    <2>1. u = IF b THEN [t EXCEPT !.decisions[Len(t.decisions)] = v] ELSE t
      BY <1>2, <1>9, Zenon DEF notify_assignment
    <2>2. Len(t.decisions) > 0  OBVIOUS
    <2>3. e = [c EXCEPT !.val[v] = l, !.ignored = c.ignored]  BY <1>9
    <2> HIDE DEF u, e
    <2>4. Decided(t, u)  BY <2>1, <2>2, <1>1, <1>2, DecidedFields
    <2>5. Good(u)  BY <2>4, DecidedGood
    <2>6. /\ u.info = t.info /\ Len(u.decisions) = Len(t.decisions) /\ u.found = t.found
          /\ u.renotify = t.renotify
      BY <2>4 DEF Decided, SameVars, SameWork
    <2>7. Trail(u, e)
      <3>1. l \in 0 .. Len(t.decisions) /\ (u.info[v].fixed <=> l = 0) /\ c.ignored \subseteq Var
        BY <2>6, <1>4, <1>8, CadicalParts
      <3> HIDE DEF l
      <3> QED  BY <3>1, <2>3, <2>6, <1>2, <1>3, <1>9, ValueTrail
    <2>8. FoundOK(u)  BY <2>6, <1>9 DEF FoundOK
    <2> QED  BY <2>5, <2>6, <2>7, <2>8, <1>6 DEF OnTrail, u, e
  <1>10. CASE ~t.found /\ ~t.info[v].assigned
    <2>1. Assigns(t, u, v)
      <3>1. Len(t.ctx) > 0  BY <1>1, LevelNumbers
      <3>2. Len(t.decisions) > 0  OBVIOUS
      <3> QED  BY <3>1, <3>2, <1>1, <1>2, <1>10, AssignmentFields
    <2>2. e = [c EXCEPT !.val[v] = l]  BY <1>4, <1>10 DEF Cadical
    <2> HIDE DEF u, e
    <2>3. Trail(u, e)
      <3> HIDE DEF l
      <3>1. l = Len(t.decisions) /\ (t.info[v].fixed <=> l = 0)  BY <1>8 DEF l
      <3>2. Alike(t, t, v)  BY DEF Alike
      <3> QED  BY <3>1, <3>2, <2>1, <2>2, <1>1, <1>2, <1>4, <1>10, AssignsTrail
    <2>4. Good(u)  BY <2>1, <1>2, <1>5, <1>10, AssignsGood
    <2>5. u.found = t.found /\ u.renotify = t.renotify /\ Len(u.decisions) = Len(t.decisions)
      BY <2>1 DEF Assigns
    <2>6. FoundOK(u)  BY <2>5, <1>10 DEF FoundOK
    <2> QED  BY <2>3, <2>4, <2>5, <2>6, <1>6 DEF OnTrail, u, e
  <1> QED  BY <1>7, <1>9, <1>10

LEMMA PropagateStep ==
    ASSUME IInv, NEW v, Propagate(v)
    PROVE  IInv'
  <1>1. Good(s) /\ FoundOK(s) /\ Trail(s, cad) /\ Stage /\ pc = "search" /\ cad.level > 0
        /\ v \in Active(s) /\ cad.val[v] = Unassigned /\ pc' = pc
    BY DEF IInv, Propagate, Free
  <1>2. cad.level = Len(s.decisions) /\ s.renotify = <<>>  BY <1>1 DEF Stage
  <1> DEFINE e == [cad EXCEPT !.val[v] = cad.level, !.ignored = IF s.found THEN @ \cup {v} ELSE @]
  <1>3. \A b \in BOOLEAN : OnTrail(s, notify_assignment(s, v, b), e)
    BY <1>1, <1>2, AssignedAbove
  <1>4. s' = notify_assignment(s, v, FALSE) /\ cad' = e  BY Zenon DEF Propagate, Assigned
  <1> HIDE DEF e
  <1>5. OnTrail(s, s', cad')  BY <1>3, <1>4, Zenon
  <1>6. Stage'  BY <1>1, <1>2, <1>5 DEF Stage, OnTrail
  <1> QED  BY <1>5, <1>6 DEF IInv, OnTrail

(* u is t with one more decision level.                                    *)
Deeper(t, u) ==
    /\ u \in State /\ SameVars(t, u) /\ SameWork(t, u) /\ u.satLiterals = t.satLiterals
    /\ u.assignments = t.assignments
    /\ Len(u.control) = Len(t.control) + 1 /\ u.control[Len(t.control) + 1] = Len(t.assignments)
    /\ \A i \in 1 .. Len(t.control) : u.control[i] = t.control[i]
    /\ Len(u.decisions) = Len(t.decisions) + 1 /\ u.decisions[Len(t.decisions) + 1] = NoVar
    /\ Len(u.ctx) = Len(t.ctx) + 1 /\ u.ctx[Len(t.ctx) + 1] = t.ctx[Len(t.ctx)]
    /\ \A i \in 1 .. Len(t.ctx) : u.ctx[i] = t.ctx[i]

(* notify_new_decision_level.                                              *)
LEMMA DeeperFields ==
    ASSUME NEW t \in State, Len(t.ctx) > 0
    PROVE  Deeper(t, notify_new_decision_level(t))
  <1> DEFINE k == Append(t.ctx, t.ctx[Len(t.ctx)])
             q == Append(t.control, Len(t.assignments))
             d == Append(t.decisions, NoVar)
             u == notify_new_decision_level(t)
  <1>1. /\ t.ctx \in Seq(Snapshot) /\ t.control \in Seq(Nat) /\ t.decisions \in Seq(Var \cup {NoVar})
        /\ Len(t.assignments) \in Nat /\ NoVar \in Var \cup {NoVar} /\ t.ctx[Len(t.ctx)] \in Snapshot
    <2>1. Len(t.ctx) \in 1 .. Len(t.ctx)  BY Lengths
    <2> QED  BY <2>1, Parts, Lengths, Elements
  <1>2. /\ k \in Seq(Snapshot) /\ Len(k) = Len(t.ctx) + 1 /\ k[Len(t.ctx) + 1] = t.ctx[Len(t.ctx)]
        /\ \A i \in 1 .. Len(t.ctx) : k[i] = t.ctx[i]
    BY <1>1, OneMore
  <1>3. /\ q \in Seq(Nat) /\ Len(q) = Len(t.control) + 1
        /\ q[Len(t.control) + 1] = Len(t.assignments)
        /\ \A i \in 1 .. Len(t.control) : q[i] = t.control[i]
    BY <1>1, OneMore
  <1>4. d \in Seq(Var \cup {NoVar}) /\ Len(d) = Len(t.decisions) + 1 /\ d[Len(t.decisions) + 1] = NoVar
    BY <1>1, OneMore
  <1>5. u = [t EXCEPT !.ctx = k, !.control = q, !.decisions = d]
    BY DEF notify_new_decision_level, PushCtx, Top, State
  <1> HIDE DEF k, q, d, u
  <1>6. u \in State /\ u.ctx = k /\ u.control = q /\ u.decisions = d
    BY <1>2, <1>3, <1>4, <1>5 DEF State
  <1>7. SameVars(t, u) /\ SameWork(t, u) /\ u.satLiterals = t.satLiterals
        /\ u.assignments = t.assignments
    BY <1>5 DEF State, SameVars, SameWork
  <1> QED  BY <1>2, <1>3, <1>4, <1>6, <1>7 DEF Deeper, u

(* An atom is preregistered in the present context.                        *)
LEMMA PreregisteredNow ==
    ASSUME NEW t, Good(t), NEW v \in 1 .. Len(t.info), t.info[v].active, t.info[v].atom
    PROVE  v \in t.ctx[Len(t.ctx)].prereg
  <1>0. t \in State /\ Levels(t) /\ Marks(t) /\ Contexts(t) /\ Preregistered(t)  BY DEF Good, Sized
  <1> DEFINE l == Len(t.ctx)
             a == Len(t.activeControl)
  <1>1. l \in Nat /\ l \in 1 .. l /\ l > a /\ a \in Nat /\ t.info[v].intro \in Nat
    BY <1>0, LevelNumbers, Lengths, Elements
  <1>2. t.info[v].intro <= a
    <2>1. \E j \in 1 .. Len(t.active) : t.active[j] = v  BY <1>0 DEF Marks
    <2> QED  BY <2>1, <1>0 DEF Marks, LiveAt
  <1>3. \A j \in 1 .. Len(t.satLiterals) : t.satLiterals[j][2] <= l /\ t.satLiterals[j][2] \in Nat
    BY <1>0, Elements DEF Contexts
  <1> HIDE DEF l, a
  <1>4. t.info[v].intro < l  BY <1>1, <1>2
  <1>5. ~Waits(t, v, l)
    <2>1. \A j \in 1 .. Len(t.satLiterals) : ~(t.satLiterals[j][2] > l)  BY <1>1, <1>3
    <2> QED  BY <2>1 DEF Waits
  <1>6. v \in t.ctx[l].prereg \/ Waits(t, v, l)  BY <1>0, <1>1, <1>4 DEF Preregistered, l
  <1> QED  BY <1>5, <1>6 DEF l

(* The new level repeats the last one.                                     *)
LEMMA DeeperGood ==
    ASSUME NEW t, Good(t), NEW u, Deeper(t, u)
    PROVE  Good(u)
  <1>0. /\ t \in State /\ Sized(t) /\ Levels(t) /\ Marks(t) /\ Recorded(t) /\ Segments(t) /\ FixedOK(t)
        /\ Contexts(t) /\ Preregistered(t) /\ Renotified(t) /\ Sent(t) /\ Clauses(t)
        /\ Inferences(t) /\ AssertsOK(t)
    BY DEF Good, Sized
  <1> DEFINE n == Len(t.assignments)
             l == Len(t.ctx)
             a == Len(t.activeControl)
             d == Len(t.control)
  <1>1. /\ n \in Nat /\ l \in Nat /\ l > 0 /\ l \in 1 .. l /\ a \in Nat /\ l > a /\ d \in Nat
        /\ l = a + 1 + d
    BY <1>0, LevelNumbers, Lengths
  <1>2. /\ u \in State /\ SameVars(t, u) /\ SameWork(t, u) /\ u.satLiterals = t.satLiterals
        /\ u.assignments = t.assignments /\ Len(u.control) = d + 1 /\ u.control[d + 1] = n
        /\ \A i \in 1 .. d : u.control[i] = t.control[i]
        /\ Len(u.decisions) = Len(t.decisions) + 1 /\ Len(u.ctx) = l + 1
        /\ u.ctx[l + 1] = t.ctx[l] /\ \A i \in 1 .. l : u.ctx[i] = t.ctx[i]
    BY DEF Deeper
  <1>3. /\ u.info = t.info /\ u.active = t.active /\ u.activeControl = t.activeControl
        /\ u.acts = t.acts /\ u.pushes = t.pushes /\ u.renotify = t.renotify
        /\ u.propagations = t.propagations /\ u.newClauses = t.newClauses /\ u.root = t.root
        /\ u.asserts = t.asserts
    BY <1>2 DEF SameVars, SameWork
  <1>4. Sized(u) /\ AssertsOK(u)  BY <1>0, <1>2, <1>3 DEF Sized, AssertsOK
  <1>5. Levels(u)
    <2> DEFINE e == Len(t.decisions)
    <2>1. e \in Nat /\ d = e  BY <1>0, Lengths DEF Levels
    <2> HIDE DEF e, d, l, a
    <2>2. Len(u.decisions) = e + 1  BY <1>2 DEF e
    <2>3. l + 1 = 1 + a + (e + 1)  BY <2>1, <1>1
    <2> QED  BY <2>1, <2>2, <2>3, <1>0, <1>2, <1>3 DEF Levels, a
  <1>6. Marks(u)  BY <1>0, <1>3 DEF Marks, LiveAt
  <1>7. Recorded(u)  BY <1>0, <1>2, <1>3 DEF Recorded
  <1>8. \A v, k : LiveAt(t, v, k) <=> LiveAt(u, v, k)  BY <1>3 DEF LiveAt
  <1>9. Clauses(u)  BY <1>0, <1>3, <1>8 DEF Clauses, ClauseOK
  <1>10. \A i \in 1 .. d : t.control[i] \in Nat /\ t.control[i] <= n  BY <1>0, Elements DEF Segments
  <1>11. \A i \in 1 .. d + 1 : i \in 1 .. d \/ i = d + 1  BY <1>1
  <1>12. \A i \in 1 .. l + 1 : i \in 1 .. l \/ i = l + 1
    <2>1. l \in Nat  BY <1>1
    <2> HIDE DEF l
    <2> QED  BY <2>1
  <1>13. \A j \in 1 .. Len(t.satLiterals) : t.satLiterals[j][2] <= l /\ t.satLiterals[j][2] \in Nat
    BY <1>0, Elements DEF Contexts
  <1> HIDE DEF n, l, a, d
  <1>14. Segments(u)
    <2>1. ASSUME NEW i \in 1 .. d + 1
          PROVE  /\ u.control[i] <= n
                 /\ \A k \in 1 .. d + 1 : i <= k => u.control[i] <= u.control[k]
                 /\ \A j, k \in 1 .. n :
                       j <= u.control[i] /\ u.control[i] < k => t.assignments[j] # t.assignments[k]
      <3>1. CASE i = d + 1
        <4>1. u.control[i] = n /\ n <= n  BY <3>1, <1>1, <1>2
        <4>2. \A k \in 1 .. d + 1 : i <= k => k = i  BY <3>1, <1>1
        <4>3. \A k \in 1 .. n : ~(n < k)  BY <1>1
        <4> QED  BY <4>1, <4>2, <4>3
      <3>2. CASE i \in 1 .. d
        <4>1. u.control[i] = t.control[i] /\ t.control[i] <= n  BY <3>2, <1>2, <1>10
        <4>2. \A k \in 1 .. d : i <= k => t.control[i] <= t.control[k]  BY <3>2, <1>0 DEF Segments, d
        <4>3. \A k \in 1 .. d + 1 : i <= k => u.control[i] <= u.control[k]
          BY <4>1, <4>2, <1>2, <1>11
        <4>4. \A j, k \in 1 .. n :
                 j <= t.control[i] /\ t.control[i] < k => t.assignments[j] # t.assignments[k]
          BY <3>2, <1>0 DEF Segments, d, n
        <4> QED  BY <4>1, <4>3, <4>4
      <3> QED  BY <3>1, <3>2, <1>11
    <2> QED  BY <2>1, <1>2 DEF Segments, n
  <1>15. FixedOK(u)
    <2>1. ASSUME NEW j \in 1 .. n
          PROVE  (d > 0 => j <= t.control[1]) <=> j <= u.control[1]
      <3>1. CASE d = 0
        <4>1. u.control[1] = n  BY <3>1, <1>2
        <4>2. j <= n /\ ~(d > 0)  BY <3>1, <1>1
        <4> QED  BY <4>1, <4>2
      <3>2. CASE d # 0
        <4>1. d > 0 /\ 1 \in 1 .. d  BY <3>2, <1>1
        <4> QED  BY <4>1, <1>2
      <3> QED  BY <3>1, <3>2
    <2>2. Len(u.control) > 0  BY <1>1, <1>2
    <2>3. u.info = t.info /\ u.assignments = t.assignments  BY <1>2, <1>3
    <2> QED  BY <2>1, <2>2, <2>3, <1>0 DEF FixedOK, n, d
  <1>16. Contexts(u)
    <2>1. ASSUME NEW i \in 1 .. l + 1, NEW v \in u.ctx[i].queue \cup u.ctx[i].prereg
          PROVE  LiveAt(u, v, i - 1)
      <3>1. CASE i \in 1 .. l
        <4>1. LiveAt(t, v, i - 1)  BY <3>1, <1>0, <1>2 DEF Contexts, l
        <4> QED  BY <4>1, <1>8
      <3>2. CASE i = l + 1
        <4>1. LiveAt(t, v, l - 1)  BY <3>2, <1>0, <1>1, <1>2 DEF Contexts, l
        <4>2. v \in 1 .. Len(t.info) /\ t.info[v].intro \in Nat  BY <4>1, <1>0, Elements DEF LiveAt
        <4>3. LiveAt(t, v, l)  BY <4>1, <4>2, <1>1 DEF LiveAt
        <4>4. i - 1 = l  BY <3>2, <1>1
        <4> QED  BY <4>3, <4>4, <1>8
      <3> QED  BY <3>1, <3>2, <1>12
    <2>2. \A j \in 1 .. Len(t.satLiterals) :
             LiveAt(u, t.satLiterals[j][1], a) /\ t.satLiterals[j][2] <= l + 1
      <3>1. \A j \in 1 .. Len(t.satLiterals) : LiveAt(u, t.satLiterals[j][1], a)
        BY <1>0, <1>8 DEF Contexts, a
      <3> QED  BY <3>1, <1>1, <1>13
    <2>3. \A j, k \in 1 .. Len(t.satLiterals) : j <= k => t.satLiterals[j][2] <= t.satLiterals[k][2]
      BY <1>0 DEF Contexts
    <2> QED  BY <2>1, <2>2, <2>3, <1>2, <1>3 DEF Contexts, a
  <1>17. Preregistered(u)
    <2> SUFFICES ASSUME NEW v \in 1 .. Len(t.info), NEW i \in 1 .. l + 1,
                        t.info[v].active, t.info[v].atom, t.info[v].intro < i
                 PROVE  v \in u.ctx[i].prereg \/ Waits(u, v, i)
      BY <1>2, <1>3 DEF Preregistered
    <2>1. CASE i \in 1 .. l
      <3>1. v \in t.ctx[i].prereg \/ Waits(t, v, i)  BY <2>1, <1>0 DEF Preregistered, l
      <3>2. Waits(t, v, i) => Waits(u, v, i)  BY <1>2, <1>3 DEF Waits
      <3> QED  BY <3>1, <3>2, <2>1, <1>2
    <2>2. CASE i = l + 1
      <3>1. v \in t.ctx[l].prereg  BY PreregisteredNow DEF l
      <3> QED  BY <3>1, <2>2, <1>2
    <2> QED  BY <2>1, <2>2, <1>12
  <1>18. Renotified(u)
    <2>1. ASSUME ~FixAnywhere, NEW v \in 1 .. Len(t.info),
                 t.info[v].active, t.info[v].atom, t.info[v].fixed
          PROVE  \/ Again(u, v)
                 \/ /\ t.info[v].fixedAt <= a
                    /\ \A i \in 1 .. l + 1 : i > t.info[v].fixedAt => v \in u.ctx[i].queue
      <3>1. Again(t, v) => Again(u, v)  BY <1>3 DEF Again
      <3>2. \/ Again(t, v)
            \/ /\ t.info[v].fixedAt <= a
               /\ \A i \in 1 .. l : i > t.info[v].fixedAt => v \in t.ctx[i].queue
        BY <2>1, <1>0 DEF Renotified, l, a
      <3>3. t.info[v].fixedAt \in Nat  BY <1>0, Elements
      <3>4. t.info[v].fixedAt <= a => l > t.info[v].fixedAt  BY <3>3, <1>1
      <3> QED  BY <3>1, <3>2, <3>4, <1>1, <1>2, <1>12
    <2>2. \A j \in 1 .. Len(t.renotify) :
             /\ t.renotify[j] \in 1 .. Len(t.info)
             /\ t.info[t.renotify[j]].active /\ t.info[t.renotify[j]].fixed
      BY <1>0 DEF Renotified
    <2> QED  BY <2>1, <2>2, <1>2, <1>3 DEF Renotified, a
  <1>19. Sent(u)
    <2> SUFFICES ASSUME NEW j \in 1 .. n, NEW e \in 0 .. d + 1,
                        t.info[t.assignments[j]].atom, ~t.info[t.assignments[j]].fixed,
                        e < d + 1 => j <= u.control[e + 1]
                 PROVE  t.assignments[j] \in u.ctx[a + 1 + e].queue
      BY <1>2, <1>3 DEF Sent, n, a
    <2>0. d \in 0 .. d /\ ~(d < d)  BY <1>1
    <2>1. t.assignments[j] \in t.ctx[l].queue  BY <2>0, <1>0, <1>1 DEF Sent, n, a, d
    <2>2. CASE e = d + 1
      <3>1. a + 1 + e = l + 1  BY <2>2, <1>1
      <3> QED  BY <3>1, <2>1, <1>2
    <2>3. CASE e = d
      <3>1. a + 1 + e = l  BY <2>3, <1>1
      <3> QED  BY <3>1, <2>1, <1>1, <1>2
    <2>4. CASE e \in 0 .. d /\ e # d
      <3>1. e < d /\ e < d + 1 /\ e + 1 \in 1 .. d /\ a + 1 + e \in 1 .. l  BY <2>4, <1>1
      <3>2. j <= t.control[e + 1]  BY <3>1, <1>2
      <3>3. t.assignments[j] \in t.ctx[a + 1 + e].queue  BY <3>2, <2>4, <1>0 DEF Sent, n, a, d
      <3> QED  BY <3>1, <3>3, <1>2
    <2> QED  BY <2>2, <2>3, <2>4, <1>1
  <1>20. Inferences(u)
    <2> DEFINE e == Len(t.decisions)
    <2>1. e \in Nat /\ Len(u.decisions) = e + 1  BY <1>0, <1>2, Lengths
    <2> HIDE DEF e
    <2>2. Len(u.decisions) # 0  BY <2>1
    <2>3. \A j \in 1 .. Len(t.propagations) : t.propagations[j][2] <= l + 1
      <3>1. \A j \in 1 .. Len(t.propagations) :
               t.propagations[j][2] \in Nat /\ t.propagations[j][2] <= IF e = 0 THEN 1 ELSE l
        BY <1>0, Elements DEF Inferences, e, l
      <3> QED  BY <3>1, <1>1
    <2> QED  BY <2>2, <2>3, <1>2, <1>3 DEF Inferences
  <1> QED  BY <1>4, <1>5, <1>6, <1>7, <1>9, <1>14, <1>15, <1>16, <1>17, <1>18, <1>19, <1>20 DEF Good

(* Nothing is assigned at the new level yet.                               *)
LEMMA DeeperTrail ==
    ASSUME NEW t, Good(t), NEW u, Deeper(t, u), NEW c, Trail(t, c), NEW e \in Cadical,
           e.val = c.val, e.ignored = c.ignored
    PROVE  Trail(u, e)
  <1>0. t \in State /\ Levels(t) /\ Recorded(t) /\ c \in Cadical /\ Len(c.val) = Len(t.info)
    BY DEF Good, Sized, Trail
  <1> DEFINE n == Len(t.assignments)
             d == Len(t.decisions)
  <1>1. /\ n \in Nat /\ d \in Nat /\ Len(t.control) = d
    BY <1>0, Lengths DEF Levels
  <1>2. /\ u.info = t.info /\ u.assignments = t.assignments /\ Len(u.control) = d + 1
        /\ u.control[d + 1] = n /\ Len(u.decisions) = d + 1
        /\ \A i \in 1 .. d : u.control[i] = t.control[i]
    BY <1>1 DEF Deeper, SameVars
  <1>3. \A v \in 1 .. Len(t.info) : c.val[v] <= d /\ c.val[v] \in Int
    BY <1>0, CadicalParts DEF Trail
  <1>4. \A j \in 1 .. n : t.assignments[j] \in 1 .. Len(t.info)  BY <1>0 DEF Recorded
  <1>5. ~FixAnywhere => \A i \in 1 .. d, j \in 1 .. n : j <= t.control[i] <=> c.val[t.assignments[j]] < i
    BY <1>1 DEF Trail
  <1> HIDE DEF n, d
  <1>6. \A i \in 1 .. d + 1 : i \in 1 .. d \/ i = d + 1  BY <1>1
  <1>7. \A v \in 1 .. Len(t.info) : c.val[v] <= d + 1 /\ c.val[v] < d + 1  BY <1>1, <1>3
  <1>8. ASSUME ~FixAnywhere, NEW i \in 1 .. d + 1, NEW j \in 1 .. n
        PROVE  j <= u.control[i] <=> c.val[t.assignments[j]] < i
    <2>1. CASE i \in 1 .. d  BY <2>1, <1>2, <1>5, <1>8
    <2>2. CASE i = d + 1
      <3>1. u.control[i] = n /\ j <= n  BY <2>2, <1>1, <1>2
      <3>2. c.val[t.assignments[j]] < i  BY <2>2, <1>4, <1>7
      <3> QED  BY <3>1, <3>2
    <2> QED  BY <2>1, <2>2, <1>6
  <1> QED  BY <1>0, <1>2, <1>7, <1>8 DEF Trail, n

(* An accepted partial model stands at the next decision level.            *)
LEMMA DeeperFound ==
    ASSUME NEW t, Good(t), NEW u, Deeper(t, u),
           t.found => t.newClauses = <<>> /\ t.propagations = <<>> /\ Checked(t)
    PROVE  FoundOK(u)
  <1>1. /\ u.info = t.info /\ u.newClauses = t.newClauses /\ u.propagations = t.propagations
        /\ u.found = t.found
    BY DEF Deeper, SameVars, SameWork
  <1> DEFINE d == Len(t.decisions)
  <1>2. d \in Nat /\ Len(u.decisions) = d + 1 /\ u.decisions[d + 1] = NoVar
    BY Lengths DEF Good, Sized, Deeper
  <1>3. u.ctx[Len(u.ctx)] = t.ctx[Len(t.ctx)]  BY DEF Deeper
  <1>4. Checked(t) => Checked(u)  BY <1>1, <1>3 DEF Checked
  <1> HIDE DEF d
  <1>5. Len(u.decisions) > 0 /\ u.decisions[Len(u.decisions)] = NoVar  BY <1>2
  <1> QED  BY <1>1, <1>4, <1>5 DEF FoundOK

(* CaDiCaL opens a decision level.                                         *)
Opens(t, c, u, e) ==
    /\ Good(u) /\ FoundOK(u) /\ Trail(u, e)
    /\ e.level = Len(u.decisions) /\ e.level > 0
    /\ e.val = c.val /\ u.info = t.info /\ u.renotify = t.renotify

(* A new level, and CaDiCaL at it.                                         *)
LEMMA NewLevel ==
    ASSUME NEW t, Good(t), NEW c, Trail(t, c), c.level = Len(t.decisions),
           t.found => t.newClauses = <<>> /\ t.propagations = <<>> /\ Checked(t)
    PROVE  Opens(t, c, notify_new_decision_level(t), [c EXCEPT !.level = @ + 1])
  <1> DEFINE u == notify_new_decision_level(t)
             e == [c EXCEPT !.level = @ + 1]
  <1>0. t \in State /\ Levels(t) /\ c \in Cadical  BY DEF Good, Sized, Trail
  <1>1. Len(t.ctx) > 0  BY <1>0, LevelNumbers
  <1>2. Deeper(t, u)  BY <1>0, <1>1, DeeperFields
  <1>3. Good(u) /\ FoundOK(u)  BY <1>2, DeeperGood, DeeperFound
  <1>4. c.level \in Nat /\ Len(t.decisions) \in Nat  BY <1>0, CadicalParts, Lengths
  <1>5. e \in Cadical /\ e.val = c.val /\ e.ignored = c.ignored /\ e.level = c.level + 1
    BY <1>0, <1>4 DEF Cadical
  <1>6. Trail(u, e)  BY <1>2, <1>5, DeeperTrail
  <1>7. e.level = Len(u.decisions) /\ e.level > 0
    <2> DEFINE l == c.level
    <2>1. Len(u.decisions) = l + 1 /\ l \in Nat  BY <1>2, <1>4 DEF Deeper
    <2> HIDE DEF l
    <2>2. e.level = l + 1  BY <1>5 DEF l
    <2> QED  BY <2>1, <2>2
  <1> HIDE DEF u, e
  <1>8. u.info = t.info /\ u.renotify = t.renotify  BY <1>2 DEF Deeper, SameVars, SameWork
  <1>9. Opens(t, c, u, e)  BY <1>3, <1>5, <1>6, <1>7, <1>8 DEF Opens
  <1> QED  BY <1>9 DEF u, e

(* An assignment in a search.                                              *)
LEMMA TrailStep ==
    ASSUME IInv, NEW t, t.renotify = s.renotify, OnTrail(t, s', cad'), pc = "search", pc' = pc
    PROVE  IInv'
  <1>1. s.renotify = <<>>  BY DEF IInv, Stage
  <1>2. Stage'  BY <1>1 DEF Stage, OnTrail
  <1> QED  BY <1>2 DEF IInv, OnTrail

LEMMA AssumeStep ==
    ASSUME IInv, Assume
    PROVE  IInv'
  <1>1. /\ Good(s) /\ FoundOK(s) /\ Trail(s, cad) /\ Stage /\ pc = "search" /\ pc' = pc
        /\ cad.level < UserLevel(s)
    BY DEF IInv, Assume
  <1>2. s \in State /\ Sized(s) /\ Levels(s) /\ Marks(s) /\ cad \in Cadical  BY <1>1 DEF Good, Sized, Trail
  <1>3. cad.level = Len(s.decisions) /\ cad.level \in Nat  BY <1>1, <1>2, CadicalParts DEF Stage
  <1> DEFINE t == notify_new_decision_level(s)
             c == [cad EXCEPT !.level = @ + 1]
             a == s.acts[c.level]
  <1>4. /\ Good(t) /\ FoundOK(t) /\ Trail(t, c) /\ c.level = Len(t.decisions) /\ c.level > 0
        /\ c.val = cad.val /\ t.info = s.info /\ t.renotify = s.renotify
    <2>1. s.found => s.newClauses = <<>> /\ s.propagations = <<>> /\ Checked(s)
      BY <1>1 DEF FoundOK
    <2>2. Opens(s, cad, t, c)  BY <2>1, <1>1, <1>3, NewLevel
    <2> HIDE DEF t, c
    <2> QED  BY <2>2 DEF Opens
  <1>5. a \in Active(t)
    <2> DEFINE n == Len(s.activeControl)
    <2>1. n \in Nat /\ Len(s.acts) = n /\ cad.level < n  BY <1>1, <1>2, Lengths DEF Levels, UserLevel
    <2>2. c.level = cad.level + 1  BY <1>2 DEF Cadical
    <2> HIDE DEF n
    <2>3. c.level \in 1 .. n  BY <2>1, <2>2, <1>3
    <2>4. LiveAt(s, a, c.level)  BY <2>1, <2>3, <1>2 DEF Marks
    <2>5. Sized(t) /\ Marks(t)  BY <1>4 DEF Good
    <2> HIDE DEF t, a
    <2> QED  BY <2>4, <2>5, <1>4, ActiveVars DEF LiveAt
  <1>6. IF cad.val[a] = Unassigned THEN Assigned(t, c, a, TRUE) ELSE s' = t /\ cad' = c
    BY Zenon DEF Assume
  <1>7. OnTrail(t, s', cad')
    <2>1. CASE cad.val[a] = Unassigned
      <3> DEFINE e == [c EXCEPT !.val[a] = c.level, !.ignored = IF t.found THEN @ \cup {a} ELSE @]
      <3>1. s' = notify_assignment(t, a, TRUE) /\ cad' = e  BY <2>1, <1>6, Zenon DEF Assigned
      <3>2. c.val[a] = Unassigned  BY <2>1, <1>4
      <3>3. \A b \in BOOLEAN : OnTrail(t, notify_assignment(t, a, b), e)
        <4> HIDE DEF t, c, a
        <4> QED  BY <3>2, <1>4, <1>5, AssignedAbove
      <3> QED  BY <3>1, <3>3, Zenon
    <2>2. CASE cad.val[a] # Unassigned
      <3>1. s' = t /\ cad' = c  BY <2>2, <1>6, Zenon
      <3> HIDE DEF t, c
      <3> QED  BY <3>1, <1>4 DEF OnTrail
    <2> QED  BY <2>1, <2>2
  <1> HIDE DEF t
  <1> QED  BY <1>1, <1>4, <1>7, TrailStep

LEMMA DecideStep ==
    ASSUME IInv, Decide
    PROVE  IInv'
  <1>1. /\ Good(s) /\ FoundOK(s) /\ Trail(s, cad) /\ Stage /\ pc = "search" /\ pc' = pc
        /\ s.propagations = <<>>
    BY DEF IInv, Decide
  <1>2. cad.level = Len(s.decisions) /\ s.renotify = <<>>  BY <1>1 DEF Stage
  <1> DEFINE C(z) == [Extended(cad, z) EXCEPT !.level = @ + 1]
  <1>3. PICK t \in cb_decide(s) : \E v \in Free(C(t), t) :
           Assigned(notify_new_decision_level(t), C(t), v, TRUE)
    BY Zenon DEF Decide
  <1>3a. PICK v \in Free(C(t), t) : Assigned(notify_new_decision_level(t), C(t), v, TRUE)
    BY <1>3, Zenon
  <1> DEFINE u == notify_new_decision_level(t)
             x == Extended(cad, t)
             c == [x EXCEPT !.level = @ + 1]
  <1>4. IF s.found THEN t = s ELSE Grown(s, t) /\ t.propagations = s.propagations
                                   /\ (t.found => t.newClauses = <<>> /\ Checked(t))
    BY <1>1, <1>2, DecideGrown
  <1>5. Grown(s, t)  BY <1>1, <1>4, GrownReflexive
  <1>6. t.found => t.newClauses = <<>> /\ t.propagations = <<>> /\ Checked(t)
    BY <1>1, <1>4 DEF FoundOK
  <1>7. Good(t) /\ t.decisions = s.decisions /\ t.renotify = s.renotify  BY <1>5 DEF Grown, SameTrail
  <1>8. Trail(t, x)  BY <1>1, <1>5, GrownTrail
  <1>9. x.level = Len(t.decisions)
    <2>1. cad \in Cadical  BY <1>1 DEF Trail
    <2>2. x.level = cad.level  BY <2>1 DEF Extended, Cadical
    <2> QED  BY <2>2, <1>2, <1>7
  <1> HIDE DEF x
  <1>10. /\ Good(u) /\ FoundOK(u) /\ Trail(u, c) /\ c.level = Len(u.decisions) /\ c.level > 0
         /\ c.val = x.val /\ u.info = t.info /\ u.renotify = t.renotify
    <2>1. Opens(t, x, u, c)  BY <1>6, <1>7, <1>8, <1>9, NewLevel
    <2> HIDE DEF u, c
    <2> QED  BY <2>1 DEF Opens
  <1>11. v \in Active(t) /\ c.val[v] = Unassigned  BY <1>3a DEF Free, x
  <1>12. Assigned(u, c, v, TRUE)  BY <1>3a DEF x
  <1>13. v \in Active(u)  BY <1>10, <1>11 DEF Active, Vars
  <1> DEFINE e == [c EXCEPT !.val[v] = c.level, !.ignored = IF u.found THEN @ \cup {v} ELSE @]
  <1>14. s' = notify_assignment(u, v, TRUE) /\ cad' = e  BY <1>12, Zenon DEF Assigned
  <1> HIDE DEF u, c
  <1>15. \A b \in BOOLEAN : OnTrail(u, notify_assignment(u, v, b), e)
    BY <1>10, <1>11, <1>13, AssignedAbove
  <1>16. OnTrail(u, s', cad')  BY <1>14, <1>15, Zenon
  <1>17. u.renotify = s.renotify  BY <1>7, <1>10
  <1> QED  BY <1>1, <1>16, <1>17, TrailStep

-----------------------------------------------------------------------------
(* Backtracks.                                                             *)

(* x is among the assignments after the first p.                           *)
Past(t, p, x) == \E j \in 1 .. Len(t.assignments) : j > p /\ t.assignments[j] = x

(* u is t without the assignments after the first p, the decision levels   *)
(* above l and the contexts above k.                                       *)
Undoes(t, u, l, p, k) ==
    /\ u \in State /\ SameMade(t, u) /\ SameWork(t, u) /\ u.satLiterals = t.satLiterals
    /\ \A x \in 1 .. Len(t.info) :
          /\ u.info[x].fixed = t.info[x].fixed /\ u.info[x].fixedAt = t.info[x].fixedAt
          /\ u.info[x].assigned <=> t.info[x].assigned /\ ~Past(t, p, x)
    /\ Len(u.assignments) = p /\ \A j \in 1 .. p : u.assignments[j] = t.assignments[j]
    /\ Len(u.decisions) = l /\ Len(u.control) = l /\ \A i \in 1 .. l : u.control[i] = t.control[i]
    /\ Len(u.ctx) = k /\ \A i \in 1 .. k : u.ctx[i] = t.ctx[i]

(* The pop of the contexts and the other changes of a backtrack, as one.   *)
LEMMA UndoneFlat ==
    ASSUME NEW t \in State, NEW X, NEW D, NEW C, NEW A, NEW I, NEW b \in BOOLEAN
    PROVE  [[t EXCEPT !.ctx = X] EXCEPT !.decisions = D, !.control = C, !.assignments = A,
                                        !.info = I, !.asserts = b]
           = [t EXCEPT !.ctx = X, !.decisions = D, !.control = C, !.assignments = A, !.info = I,
                       !.asserts = b]
  BY DEF State

(* The result is a state when its parts have their types.                  *)
LEMMA UndoneIn ==
    ASSUME NEW t \in State, NEW X \in Seq(Snapshot), NEW D \in Seq(Var \cup {NoVar}),
           NEW C \in Seq(Nat), NEW A \in Seq(Var), NEW I \in Seq(VarInfo), NEW b \in BOOLEAN
    PROVE  [t EXCEPT !.ctx = X, !.decisions = D, !.control = C, !.assignments = A, !.info = I,
                     !.asserts = b] \in State
  BY DEF State

(* What a backtrack undoes.                                                *)
LEMMA UndoneFields ==
    ASSUME NEW t, t \in State, Levels(t), Segments(t), NEW l \in Nat, l < Len(t.decisions),
           NEW u, u = Undone(t, l)
    PROVE  Undoes(t, u, l, t.control[l + 1], Len(t.activeControl) + 1 + l)
  <1> DEFINE n == Len(t.assignments)
             d == Len(t.decisions)
             c == Len(t.ctx)
             a == Len(t.activeControl)
             m == Len(t.info)
             p == t.control[l + 1]
             k == a + 1 + l
             gone == Range(After(t.assignments, p))
  <1>1. /\ n \in Nat /\ d \in Nat /\ c \in Nat /\ a \in Nat /\ m \in Nat /\ DOMAIN t.info = 1 .. m
        /\ c = 1 + a + d /\ Len(t.control) = d /\ l < d
    BY Lengths DEF Levels
  <1> HIDE DEF n, d, c, a, m
  <1>2. l + 1 \in 1 .. d /\ k \in 0 .. c /\ c - (d - l) = k /\ l \in 0 .. d /\ c > l
    BY <1>1
  <1>3. p \in 0 .. n
    <2>1. t.control[l + 1] \in Nat /\ t.control[l + 1] <= n
      BY <1>1, <1>2, Elements DEF Segments, n
    <2> QED  BY <2>1, <1>1
  <1> HIDE DEF p, k
  <1> DEFINE D == Upto(t.decisions, l)
             C == Upto(t.control, l)
             A == Upto(t.assignments, p)
             X == Upto(t.ctx, k)
             I == [v \in 1 .. m |-> IF v \in gone THEN [t.info[v] EXCEPT !.assigned = FALSE] ELSE t.info[v]]
             b == t.asserts /\ CtxLevel(t) > l
  <1>4. D \in Seq(Var \cup {NoVar}) /\ Len(D) = l
    <2>1. l \in 0 .. Len(t.decisions)  BY <1>2 DEF d
    <2> DEFINE S == Var \cup {NoVar}
    <2>2. t.decisions \in Seq(S)  BY Parts
    <2> HIDE DEF S, C, A, X, I, b
    <2>3. D \in Seq(S) /\ Len(D) = l  BY <2>1, <2>2, UptoElements
    <2> QED  BY <2>3 DEF S
  <1>5. C \in Seq(Nat) /\ Len(C) = l /\ \A i \in 1 .. l : C[i] = t.control[i]
    <2>1. l \in 0 .. Len(t.control) /\ t.control \in Seq(Nat)  BY <1>1, <1>2, Parts
    <2> HIDE DEF D, A, X, I, b
    <2> QED  BY <2>1, UptoElements
  <1>6. A \in Seq(Var) /\ Len(A) = p /\ \A i \in 1 .. p : A[i] = t.assignments[i]
    <2>1. p \in 0 .. Len(t.assignments) /\ t.assignments \in Seq(Var)  BY <1>3, Parts DEF n
    <2> HIDE DEF D, C, X, I, b
    <2> QED  BY <2>1, UptoElements
  <1>7. X \in Seq(Snapshot) /\ Len(X) = k /\ \A i \in 1 .. k : X[i] = t.ctx[i]
    <2>1. k \in 0 .. Len(t.ctx) /\ t.ctx \in Seq(Snapshot)  BY <1>2, Parts DEF c
    <2> HIDE DEF D, C, A, I, b
    <2> QED  BY <2>1, UptoElements
  <1>8. b = t.asserts
    <2>1. t.asserts \in BOOLEAN  BY Parts
    <2>2. CtxLevel(t) > l  BY <1>2 DEF CtxLevel, c
    <2> QED  BY <2>1, <2>2
  <1>9. \A v : v \in gone <=> Past(t, p, v)
    <2> DEFINE q == After(t.assignments, p)
    <2>1. q \in Seq(Var) /\ Len(q) = n - p /\ \A i \in 1 .. n - p : q[i] = t.assignments[p + i]
      BY <1>3, Parts, AfterElements DEF n
    <2> HIDE DEF q
    <2>2. \A v : v \in Range(q) <=> \E i \in 1 .. n - p : t.assignments[p + i] = v
      BY <2>1, RangeElements
    <2>3. \A i \in 1 .. n - p : p + i \in 1 .. n /\ p + i > p  BY <1>1, <1>3
    <2>4. \A j \in 1 .. n : j > p => j - p \in 1 .. n - p /\ p + (j - p) = j  BY <1>1, <1>3
    <2>5. ASSUME NEW v  PROVE v \in Range(q) <=> \E j \in 1 .. n : j > p /\ t.assignments[j] = v
      <3>1. ASSUME v \in Range(q)  PROVE \E j \in 1 .. n : j > p /\ t.assignments[j] = v
        BY <3>1, <2>2, <2>3
      <3>2. ASSUME NEW j \in 1 .. n, j > p, t.assignments[j] = v  PROVE v \in Range(q)
        BY <3>2, <2>2, <2>4
      <3> QED  BY <3>1, <3>2
    <2> QED  BY <2>5 DEF Past, n, q
  <1> HIDE DEF gone
  <1>10. \A v \in 1 .. m : t.info[v] \in VarInfo  BY Elements DEF m
  <1>11. \A v \in 1 .. m :
            /\ I[v] \in VarInfo /\ I[v].intro = t.info[v].intro /\ I[v].active = t.info[v].active
            /\ I[v].atom = t.info[v].atom /\ I[v].fixed = t.info[v].fixed
            /\ I[v].fixedAt = t.info[v].fixedAt
    BY <1>10 DEF VarInfo
  <1>12. \A v \in 1 .. m : I[v].assigned <=> t.info[v].assigned /\ v \notin gone
    BY <1>10 DEF VarInfo
  <1>13. u = [t EXCEPT !.ctx = X, !.decisions = D, !.control = C, !.assignments = A, !.info = I,
                       !.asserts = b]
    <2>1. Len(t.ctx) - (Len(t.decisions) - l) = k  BY <1>2 DEF c, d
    <2>2. PopCtx(t, Len(t.decisions) - l) = [t EXCEPT !.ctx = X]
      BY <2>1 DEF PopCtx
    <2>3. I = [v \in DOMAIN t.info |->
                   IF v \in gone THEN [t.info[v] EXCEPT !.assigned = FALSE] ELSE t.info[v]]
      BY <1>1
    <2>4. b \in BOOLEAN  BY <1>8, Parts
    <2> DEFINE w == [t EXCEPT !.ctx = X]
    <2>5. u = [w EXCEPT
                  !.decisions = Upto(w.decisions, l), !.control = Upto(w.control, l),
                  !.assignments = Upto(w.assignments, p),
                  !.info = [v \in DOMAIN w.info |->
                               IF v \in gone THEN [w.info[v] EXCEPT !.assigned = FALSE]
                               ELSE w.info[v]],
                  !.asserts = w.asserts /\ CtxLevel(t) > l]
      BY <2>2, Zenon DEF Undone, gone, p
    <2>6. /\ w.decisions = t.decisions /\ w.control = t.control /\ w.assignments = t.assignments
          /\ w.info = t.info /\ w.asserts = t.asserts
      <3> HIDE DEF X, I, b
      <3> QED  BY DEF State
    <2>7. u = [w EXCEPT !.decisions = D, !.control = C, !.assignments = A, !.info = I, !.asserts = b]
      <3> HIDE DEF w, X
      <3>1. D = Upto(w.decisions, l) /\ C = Upto(w.control, l) /\ A = Upto(w.assignments, p)
        BY <2>6, Zenon
      <3>2. I = [v \in DOMAIN w.info |->
                     IF v \in gone THEN [w.info[v] EXCEPT !.assigned = FALSE] ELSE w.info[v]]
        BY <2>3, <2>6, Zenon
      <3>3. b = (w.asserts /\ CtxLevel(t) > l)  BY <2>6, Zenon
      <3> HIDE DEF D, C, A, I, b
      <3> QED  BY <2>5, <3>1, <3>2, <3>3, Zenon
    <2> HIDE DEF X, D, C, A, I, b
    <2> QED  BY <2>4, <2>7, UndoneFlat
  <1>14. I \in Seq(VarInfo) /\ Len(I) = m
    <2>1. I \in [1 .. m -> VarInfo]
      <3>1. I = [v \in 1 .. m |-> I[v]]  OBVIOUS
      <3> HIDE DEF I
      <3> QED  BY <3>1, <1>11
    <2> HIDE DEF I
    <2> QED  BY <2>1, <1>1, FunctionSeq
  <1> HIDE DEF D, C, A, X, I, b
  <1>15. /\ u \in State /\ u.ctx = X /\ u.decisions = D /\ u.control = C /\ u.assignments = A
         /\ u.info = I
    <2>1. b \in BOOLEAN  BY <1>8, Parts
    <2>2. u \in State
      <3>1. [t EXCEPT !.ctx = X, !.decisions = D, !.control = C, !.assignments = A, !.info = I,
                      !.asserts = b] \in State
        BY <2>1, <1>4, <1>5, <1>6, <1>7, <1>14, UndoneIn, Zenon
      <3> QED  BY <3>1, <1>13, Zenon
    <2>3. u.ctx = X /\ u.decisions = D /\ u.control = C /\ u.assignments = A /\ u.info = I
      BY <1>13 DEF State
    <2> QED  BY <2>2, <2>3
  <1>16. /\ u.active = t.active /\ u.activeControl = t.activeControl /\ u.acts = t.acts
         /\ u.pushes = t.pushes /\ u.satLiterals = t.satLiterals /\ SameWork(t, u)
    BY <1>8, <1>13 DEF State, SameWork
  <1>17. SameMade(t, u)  BY <1>11, <1>14, <1>15, <1>16 DEF SameMade, m
  <1>18. Undoes(t, u, l, p, k)
    BY <1>4, <1>5, <1>6, <1>7, <1>9, <1>11, <1>12, <1>15, <1>16, <1>17 DEF Undoes, m
  <1> QED  BY <1>18 DEF p, k, a

(* A bounded set of naturals has a greatest element.                       *)
LEMMA GreatestIndex ==
    ASSUME NEW n \in Nat, NEW S, S \subseteq 1 .. n, S # {}
    PROVE  \E i \in S : \A j \in S : j <= i
  <1> DEFINE R == {n - j : j \in S}
  <1>0. \A j \in S : n - j \in Nat  OBVIOUS
  <1>1. R \subseteq Nat /\ R # {}  BY <1>0
  <1>2. PICK m \in R : \A k \in R : m <= k
    <2> HIDE DEF R
    <2> QED  BY <1>1, LeastIndex
  <1>3. PICK i \in S : m = n - i  OBVIOUS
  <1>4. ASSUME NEW j \in S  PROVE j <= i
    <2>1. n - j \in R  OBVIOUS
    <2>2. n - i <= n - j  BY <2>1, <1>2, <1>3
    <2>3. i \in 1 .. n /\ j \in 1 .. n  OBVIOUS
    <2> HIDE DEF R
    <2> QED  BY <2>2, <2>3
  <1> QED  BY <1>4

(* u is t after the literals registered above the level l were registered  *)
(* at it again.                                                            *)
Reregisters(t, u) ==
    LET l == Len(t.ctx) IN
    /\ u \in State /\ SameVars(t, u) /\ SameTrail(t, u) /\ SameWork(t, u)
    /\ Len(u.ctx) = l
    /\ \A i \in 1 .. l : /\ u.ctx[i].queue = t.ctx[i].queue
                         /\ i # l => u.ctx[i].prereg = t.ctx[i].prereg
    /\ \A x \in t.ctx[l].prereg : x \in u.ctx[l].prereg
    /\ \A x \in u.ctx[l].prereg :
          x \in t.ctx[l].prereg \/ \E j \in 1 .. Len(t.satLiterals) : t.satLiterals[j][1] = x
    /\ Len(u.satLiterals) = Len(t.satLiterals)
    /\ \A j \in 1 .. Len(t.satLiterals) :
          /\ u.satLiterals[j][1] = t.satLiterals[j][1]
          /\ t.satLiterals[j][2] <= l => u.satLiterals[j][2] = t.satLiterals[j][2]
          /\ ~(t.satLiterals[j][2] <= l) => /\ u.satLiterals[j][2] = l
                                            /\ t.satLiterals[j][1] \in u.ctx[l].prereg

(* notifyBacktrack: all literals registered above the level, no others.    *)
LEMMA ReregisterFields ==
    ASSUME NEW t, t \in State, Len(t.ctx) > 0,
           \A j, k \in 1 .. Len(t.satLiterals) : j <= k => t.satLiterals[j][2] <= t.satLiterals[k][2],
           NEW u, u = reregister(t)
    PROVE  Reregisters(t, u)
  <1> DEFINE l == Len(t.ctx)
             q == t.satLiterals
             n == Len(q)
             kept == {i \in DOMAIN q : q[i][2] <= l}
             last == IF kept = {} THEN 0 ELSE CHOOSE i \in kept : \A j \in kept : j <= i
             again == After(q, last)
             m == n - last
             more == [i \in 1 .. m |-> <<again[i][1], l>>]
             r == Upto(q, last) \o more
             x == [t.ctx[l] EXCEPT !.prereg = @ \cup {e[1] : e \in Range(again)}]
             k == [t.ctx EXCEPT ![l] = x]
  <1>1. /\ l \in Nat /\ n \in Nat /\ q \in Seq(Var \X Nat) /\ DOMAIN q = 1 .. n /\ l \in 1 .. l
        /\ t.ctx \in Seq(Snapshot) /\ t.ctx[l] \in Snapshot
    <2>1. l \in Nat /\ l \in 1 .. l /\ n \in Nat  BY Lengths
    <2> QED  BY <2>1, Parts, Elements, LenProperties
  <1>2. \A i \in 1 .. n : q[i] \in Var \X Nat /\ q[i][1] \in Var /\ q[i][2] \in Nat
    BY <1>1, ElementOfSeq
  <1>3. \A i, j \in 1 .. n : i <= j => q[i][2] <= q[j][2]  OBVIOUS
  <1>4. u = [t EXCEPT !.satLiterals = Upto(q, last) \o [i \in DOMAIN again |-> <<again[i][1], l>>],
                      !.ctx[l].prereg = @ \cup {e[1] : e \in Range(again)}]
    BY Zenon DEF reregister, CtxLevel
  <1> HIDE DEF l, q, n
  <1>5. last \in 0 .. n /\ \A j \in 1 .. n : j <= last <=> q[j][2] <= l
    <2>0. kept = {i \in 1 .. n : q[i][2] <= l}  BY <1>1
    <2>1. CASE kept = {}
      <3>1. last = 0  BY <2>1
      <3>2. \A j \in 1 .. n : ~(q[j][2] <= l)  BY <2>0, <2>1
      <3> HIDE DEF last, kept
      <3> QED  BY <3>1, <3>2, <1>1
    <2>2. CASE kept # {}
      <3>1. kept \subseteq 1 .. n  BY <2>0
      <3>2. \E i \in kept : \A j \in kept : j <= i
        <4> HIDE DEF kept
        <4> QED  BY <2>2, <3>1, <1>1, GreatestIndex
      <3>3. last \in kept /\ \A j \in kept : j <= last
        <4> HIDE DEF kept
        <4> QED  BY <2>2, <3>2
      <3> HIDE DEF last
      <3>4. last \in 1 .. n /\ q[last][2] <= l /\ q[last][2] \in Nat  BY <2>0, <3>3, <1>2
      <3>5. ASSUME NEW j \in 1 .. n  PROVE j <= last <=> q[j][2] <= l
        <4>1. j <= last => q[j][2] <= q[last][2] /\ q[j][2] \in Nat  BY <3>4, <1>2, <1>3
        <4>2. q[j][2] <= l => j \in kept  BY <2>0
        <4> HIDE DEF kept
        <4> QED  BY <4>1, <4>2, <3>3, <3>4, <1>1
      <3> QED  BY <3>4, <3>5, <1>1
    <2> QED  BY <2>1, <2>2
  <1> HIDE DEF last, kept
  <1>6. /\ again \in Seq(Var \X Nat) /\ Len(again) = m /\ DOMAIN again = 1 .. m
        /\ \A i \in 1 .. m : again[i] = q[last + i]
    <2>1. last \in 0 .. Len(q)  BY <1>5 DEF n
    <2>2. /\ again \in Seq(Var \X Nat) /\ Len(again) = m
          /\ \A i \in 1 .. m : again[i] = q[last + i]
      BY <2>1, <1>1, AfterElements DEF n
    <2> HIDE DEF again, m
    <2> QED  BY <2>2, LenProperties
  <1>7. m \in Nat /\ last \in Nat /\ last + m = n  BY <1>1, <1>5
  <1> HIDE DEF again
  <1>8. \A i \in 1 .. m : last + i \in 1 .. n /\ ~(last + i <= last)  BY <1>1, <1>5
  <1>9. \A j \in 1 .. n : j <= last \/ (j - last \in 1 .. m /\ last + (j - last) = j)  BY <1>1, <1>5
  <1> HIDE DEF m
  <1>10. /\ more \in Seq(Var \X Nat) /\ Len(more) = m
         /\ \A i \in 1 .. m : more[i] = <<q[last + i][1], l>>
    <2>1. more \in [1 .. m -> Var \X Nat]  BY <1>1, <1>2, <1>6, <1>8
    <2>2. \A i \in 1 .. m : more[i] = <<q[last + i][1], l>>  BY <1>6
    <2> HIDE DEF more
    <2> QED  BY <2>1, <2>2, <1>7, FunctionSeq
  <1>11. Upto(q, last) \in Seq(Var \X Nat) /\ Len(Upto(q, last)) = last
         /\ \A i \in 1 .. last : Upto(q, last)[i] = q[i]
    BY <1>1, <1>5, UptoElements DEF n
  <1>12. u = [t EXCEPT !.satLiterals = r, !.ctx = k]
    <2> HIDE DEF r
    <2>1. u = [t EXCEPT !.satLiterals = r, !.ctx[l].prereg = @ \cup {e[1] : e \in Range(again)}]
      BY <1>4, <1>6 DEF r
    <2> QED  BY <2>1
  <1> HIDE DEF more
  <1>13. /\ r \in Seq(Var \X Nat) /\ Len(r) = n
         /\ \A j \in 1 .. last : r[j] = q[j]
         /\ \A i \in 1 .. m : r[last + i] = <<q[last + i][1], l>>
    <2> DEFINE h == Upto(q, last)
    <2> HIDE DEF h
    <2>1. h \in Seq(Var \X Nat) /\ Len(h) = last /\ \A i \in 1 .. last : h[i] = q[i]  BY <1>11 DEF h
    <2>2. /\ h \o more \in Seq(Var \X Nat) /\ Len(h \o more) = last + m
          /\ \A i \in 1 .. last + m : (h \o more)[i] = IF i <= last THEN h[i] ELSE more[i - last]
      <3> DEFINE S == Var \X Nat
      <3>1. h \in Seq(S) /\ more \in Seq(S) /\ Len(h) = last /\ Len(more) = m  BY <2>1, <1>10
      <3> HIDE DEF S
      <3>2. /\ h \o more \in Seq(S) /\ Len(h \o more) = last + m
            /\ \A i \in 1 .. last + m : (h \o more)[i] = IF i <= last THEN h[i] ELSE more[i - last]
        BY <3>1, ConcatProperties
      <3> QED  BY <3>2 DEF S
    <2>3. \A i \in 1 .. last : i \in 1 .. last + m /\ i <= last  BY <1>7
    <2>4. \A i \in 1 .. m : last + i \in 1 .. last + m /\ ~(last + i <= last) /\ (last + i) - last = i
      BY <1>7
    <2>5. r = h \o more  BY DEF r, h
    <2> HIDE DEF r
    <2>6. \A i \in 1 .. m : r[last + i] = more[i]  BY <2>2, <2>4, <2>5
    <2>7. \A i \in 1 .. last : r[i] = q[i]  BY <2>1, <2>2, <2>3, <2>5
    <2> QED  BY <2>2, <2>5, <2>6, <2>7, <1>7, <1>10
  <1> HIDE DEF r
  <1> DEFINE E == {e[1] : e \in Range(again)}
  <1>14. \A y : y \in E <=> \E i \in 1 .. m : q[last + i][1] = y
    <2>1. Range(again) = {again[i] : i \in 1 .. m}  BY <1>6, RangeElements
    <2> QED  BY <2>1, <1>6
  <1>15. x \in Snapshot /\ x.queue = t.ctx[l].queue /\ x.prereg = t.ctx[l].prereg \cup E
    <2>1. E \subseteq Var  BY <1>2, <1>8, <1>14
    <2> HIDE DEF E
    <2>2. x = [t.ctx[l] EXCEPT !.prereg = @ \cup E]  BY DEF E
    <2> HIDE DEF x
    <2> QED  BY <2>1, <2>2, <1>1 DEF Snapshot
  <1> HIDE DEF x, E
  <1>16. k \in Seq(Snapshot) /\ Len(k) = l /\ k[l] = x /\ \A i \in 1 .. l : i # l => k[i] = t.ctx[i]
    BY <1>1, <1>15, ExceptSeq DEF l
  <1> HIDE DEF k
  <1>17. u \in State /\ u.satLiterals = r /\ u.ctx = k  BY <1>12, <1>13, <1>16 DEF State
  <1>18. SameVars(t, u) /\ SameTrail(t, u) /\ SameWork(t, u)
    BY <1>12 DEF State, SameVars, SameTrail, SameWork
  <1>19. ASSUME NEW j \in 1 .. n
         PROVE  /\ r[j][1] = q[j][1]
                /\ q[j][2] <= l => r[j][2] = q[j][2]
                /\ ~(q[j][2] <= l) => r[j][2] = l /\ q[j][1] \in x.prereg
    <2>1. CASE j <= last
      <3>1. j \in 1 .. last  BY <2>1, <1>5
      <3> QED  BY <3>1, <2>1, <1>5, <1>13
    <2>2. CASE ~(j <= last)
      <3>1. j - last \in 1 .. m /\ last + (j - last) = j  BY <2>2, <1>9
      <3>2. r[j] = <<q[j][1], l>>  BY <3>1, <1>13
      <3>3. q[j][1] \in E  BY <3>1, <1>14
      <3> QED  BY <3>2, <3>3, <2>2, <1>5, <1>15
    <2> QED  BY <2>1, <2>2
  <1>20. \A y \in x.prereg : y \in t.ctx[l].prereg \/ \E j \in 1 .. n : q[j][1] = y
    BY <1>8, <1>14, <1>15
  <1>21. \A i \in 1 .. l : /\ k[i].queue = t.ctx[i].queue
                           /\ i # l => k[i].prereg = t.ctx[i].prereg
    BY <1>15, <1>16
  <1>22. \A y \in t.ctx[l].prereg : y \in k[l].prereg  BY <1>15, <1>16
  <1> QED  BY <1>13, <1>16, <1>17, <1>18, <1>19, <1>20, <1>21, <1>22 DEF Reregisters, l, n, q

(* u is t after a backtrack to decision level l, which keeps p assignments *)
(* and k contexts.                                                         *)
Back(t, u, l, p, k) ==
    /\ u \in State /\ SameMade(t, u)
    /\ u.renotify = t.renotify /\ u.newClauses = t.newClauses /\ u.root = t.root
    /\ u.asserts = t.asserts /\ ~u.found /\ u.propagations = <<>>
    /\ \A x \in 1 .. Len(t.info) :
          /\ u.info[x].fixed = t.info[x].fixed /\ u.info[x].fixedAt = t.info[x].fixedAt
          /\ u.info[x].assigned <=> t.info[x].assigned /\ ~Past(t, p, x)
    /\ Len(u.assignments) = p /\ \A j \in 1 .. p : u.assignments[j] = t.assignments[j]
    /\ Len(u.decisions) = l /\ Len(u.control) = l /\ \A i \in 1 .. l : u.control[i] = t.control[i]
    /\ Len(u.ctx) = k
    /\ \A i \in 1 .. k : /\ u.ctx[i].queue = t.ctx[i].queue
                         /\ i # k => u.ctx[i].prereg = t.ctx[i].prereg
    /\ \A x \in t.ctx[k].prereg : x \in u.ctx[k].prereg
    /\ \A x \in u.ctx[k].prereg :
          x \in t.ctx[k].prereg \/ \E j \in 1 .. Len(t.satLiterals) : t.satLiterals[j][1] = x
    /\ Len(u.satLiterals) = Len(t.satLiterals)
    /\ \A j \in 1 .. Len(t.satLiterals) :
          /\ u.satLiterals[j][1] = t.satLiterals[j][1]
          /\ t.satLiterals[j][2] <= k => u.satLiterals[j][2] = t.satLiterals[j][2]
          /\ ~(t.satLiterals[j][2] <= k) => /\ u.satLiterals[j][2] = k
                                            /\ t.satLiterals[j][1] \in u.ctx[k].prereg

(* notify_backtrack, when it has something to undo.                        *)
LEMMA BackFields ==
    ASSUME NEW t, Good(t), NEW l \in Nat, l < Len(t.decisions), NEW u, u = notify_backtrack(t, l)
    PROVE  Back(t, u, l, t.control[l + 1], Len(t.activeControl) + 1 + l)
  <1>0. t \in State /\ Levels(t) /\ Segments(t) /\ Contexts(t) /\ AssertsOK(t)  BY DEF Good, Sized
  <1> DEFINE p == t.control[l + 1]
             k == Len(t.activeControl) + 1 + l
             w == Undone(t, l)
             r == reregister(w)
  <1>1. Undoes(t, w, l, p, k)  BY <1>0, UndoneFields
  <1>2. u = [r EXCEPT !.found = FALSE, !.propagations = <<>>]
    <2>1. ~(Len(t.decisions) <= l)
      <3>1. Len(t.decisions) \in Nat  BY <1>0, Lengths
      <3> QED  BY <3>1
    <2> QED  BY <2>1, Zenon DEF notify_backtrack
  <1>3. k > 0
    <2>1. Len(t.activeControl) \in Nat  BY <1>0, Lengths
    <2> QED  BY <2>1
  <1> HIDE DEF p, k, w
  <1>4. /\ w \in State /\ SameMade(t, w) /\ SameWork(t, w) /\ w.satLiterals = t.satLiterals
        /\ Len(w.ctx) = k /\ \A i \in 1 .. k : w.ctx[i] = t.ctx[i]
    BY <1>1 DEF Undoes
  <1>5. \A i, j \in 1 .. Len(w.satLiterals) : i <= j => w.satLiterals[i][2] <= w.satLiterals[j][2]
    BY <1>0, <1>4 DEF Contexts
  <1>6. Reregisters(w, r)  BY <1>3, <1>4, <1>5, ReregisterFields
  <1> HIDE DEF r
  <1>7. /\ r \in State /\ SameVars(w, r) /\ SameTrail(w, r) /\ SameWork(w, r) /\ Len(r.ctx) = k
        /\ \A i \in 1 .. k : /\ r.ctx[i].queue = w.ctx[i].queue
                             /\ i # k => r.ctx[i].prereg = w.ctx[i].prereg
        /\ \A x \in w.ctx[k].prereg : x \in r.ctx[k].prereg
        /\ \A x \in r.ctx[k].prereg :
              x \in w.ctx[k].prereg \/ \E j \in 1 .. Len(t.satLiterals) : t.satLiterals[j][1] = x
        /\ Len(r.satLiterals) = Len(t.satLiterals)
        /\ \A j \in 1 .. Len(t.satLiterals) :
              /\ r.satLiterals[j][1] = t.satLiterals[j][1]
              /\ t.satLiterals[j][2] <= k => r.satLiterals[j][2] = t.satLiterals[j][2]
              /\ ~(t.satLiterals[j][2] <= k) => /\ r.satLiterals[j][2] = k
                                                /\ t.satLiterals[j][1] \in r.ctx[k].prereg
    BY <1>4, <1>6 DEF Reregisters
  <1>8. u \in State /\ ~u.found /\ u.propagations = <<>>
    <2>1. <<>> \in Seq(Var \X Nat)  BY EmptySeq
    <2>2. r \in State  BY <1>7
    <2>3. u \in State  BY <2>1, <2>2, <1>2 DEF State
    <2> QED  BY <2>2, <2>3, <1>2 DEF State
  <1>9. /\ SameVars(r, u) /\ SameTrail(r, u) /\ u.renotify = r.renotify /\ u.newClauses = r.newClauses
        /\ u.root = r.root /\ u.asserts = r.asserts /\ u.ctx = r.ctx /\ u.satLiterals = r.satLiterals
    BY <1>2, <1>7 DEF State, SameVars, SameTrail
  <1>10. /\ u.info = w.info /\ u.active = w.active /\ u.activeControl = w.activeControl
         /\ u.acts = w.acts /\ u.pushes = w.pushes /\ u.assignments = w.assignments
         /\ u.control = w.control /\ u.decisions = w.decisions
    BY <1>7, <1>9 DEF SameVars, SameTrail
  <1>11. SameMade(t, u)  BY <1>4, <1>10 DEF SameMade
  <1>12. /\ u.renotify = t.renotify /\ u.newClauses = t.newClauses /\ u.root = t.root
         /\ u.asserts = t.asserts
    BY <1>4, <1>7, <1>9 DEF SameWork
  <1>13. k \in 1 .. k
    <2>1. k \in Nat  BY <1>4, Lengths
    <2> QED  BY <2>1, <1>3
  <1>14. /\ \A x \in 1 .. Len(t.info) :
               /\ u.info[x].fixed = t.info[x].fixed /\ u.info[x].fixedAt = t.info[x].fixedAt
               /\ u.info[x].assigned <=> t.info[x].assigned /\ ~Past(t, p, x)
         /\ Len(u.assignments) = p /\ \A j \in 1 .. p : u.assignments[j] = t.assignments[j]
    BY <1>1, <1>10 DEF Undoes
  <1>15. /\ Len(u.decisions) = l /\ Len(u.control) = l
         /\ \A i \in 1 .. l : u.control[i] = t.control[i]
    BY <1>1, <1>10 DEF Undoes
  <1>16. /\ Len(u.ctx) = k
         /\ \A i \in 1 .. k : /\ u.ctx[i].queue = t.ctx[i].queue
                              /\ i # k => u.ctx[i].prereg = t.ctx[i].prereg
         /\ \A x \in t.ctx[k].prereg : x \in u.ctx[k].prereg
         /\ \A x \in u.ctx[k].prereg :
               x \in t.ctx[k].prereg \/ \E j \in 1 .. Len(t.satLiterals) : t.satLiterals[j][1] = x
    BY <1>4, <1>7, <1>9, <1>13
  <1>17. Back(t, u, l, p, k)
    BY <1>7, <1>8, <1>9, <1>11, <1>12, <1>14, <1>15, <1>16 DEF Back
  <1> QED  BY <1>17 DEF p, k

(* The state after a backtrack is a state of cvc5.                         *)
LEMMA BackGood ==
    ASSUME NEW t, Good(t), NEW l \in Nat, l < Len(t.decisions), NEW p, p = t.control[l + 1],
           NEW k, k = Len(t.activeControl) + 1 + l, NEW u, Back(t, u, l, p, k)
    PROVE  Good(u)
  <1>0. /\ t \in State /\ Sized(t) /\ Levels(t) /\ Marks(t) /\ Recorded(t) /\ Segments(t) /\ FixedOK(t)
        /\ Contexts(t) /\ Preregistered(t) /\ Renotified(t) /\ Sent(t) /\ Clauses(t) /\ AssertsOK(t)
    BY DEF Good, Sized
  <1> DEFINE n == Len(t.assignments)
             a == Len(t.activeControl)
             d == Len(t.control)
             c == Len(t.ctx)
             z == Len(t.satLiterals)
  <1>1. n \in Nat /\ a \in Nat /\ d \in Nat /\ c \in Nat /\ z \in Nat /\ l < d /\ c = a + 1 + d /\ k = a + 1 + l
    <2>1. l < d  BY <1>0 DEF Levels
    <2>2. c = a + 1 + d  BY <1>0, LevelNumbers
    <2>3. n \in Nat /\ a \in Nat /\ d \in Nat /\ c \in Nat /\ z \in Nat  BY <1>0, Lengths
    <2> QED  BY <2>1, <2>2, <2>3
  <1>2. u \in State /\ SameMade(t, u) /\ u.root = t.root /\ u.newClauses = t.newClauses
        /\ u.propagations = <<>> /\ u.asserts = t.asserts /\ u.renotify = t.renotify
    BY DEF Back
  <1>3. /\ Len(u.info) = Len(t.info) /\ u.activeControl = t.activeControl /\ u.acts = t.acts
        /\ u.pushes = t.pushes
        /\ \A v \in 1 .. Len(t.info) : /\ u.info[v].intro = t.info[v].intro
                                       /\ u.info[v].active = t.info[v].active
                                       /\ u.info[v].atom = t.info[v].atom
    BY <1>2 DEF SameMade
  <1>4. \A x \in 1 .. Len(t.info) :
           /\ u.info[x].fixed = t.info[x].fixed /\ u.info[x].fixedAt = t.info[x].fixedAt
           /\ u.info[x].assigned <=> t.info[x].assigned /\ ~Past(t, p, x)
    BY DEF Back
  <1>5. /\ Len(u.assignments) = p /\ \A j \in 1 .. p : u.assignments[j] = t.assignments[j]
        /\ Len(u.control) = l /\ \A i \in 1 .. l : u.control[i] = t.control[i]
        /\ Len(u.decisions) = l /\ Len(u.ctx) = k
    BY DEF Back
  <1>6. \A i \in 1 .. k : u.ctx[i].queue = t.ctx[i].queue  BY DEF Back
  <1>7. Marks(u) /\ \A x, i : LiveAt(t, x, i) <=> LiveAt(u, x, i)  BY <1>0, <1>2, SameMadeMarks
  <1>8. Clauses(u)  BY <1>0, <1>2, SameMadeClauses
  <1>9. Sized(u) /\ AssertsOK(u)  BY <1>0, <1>2, <1>3 DEF Sized, AssertsOK
  <1>10. Inferences(u)
    <2>1. Len(u.propagations) = 0  BY <1>2
    <2>2. \A j \in 1 .. Len(u.propagations) : FALSE  BY <2>1
    <2> QED  BY <2>2 DEF Inferences
  <1>11. /\ \A i \in 1 .. d : t.control[i] \in Nat /\ t.control[i] <= n
         /\ \A i, j \in 1 .. d : i <= j => t.control[i] <= t.control[j]
         /\ \A i \in 1 .. d : \A x, y \in 1 .. n :
               x <= t.control[i] /\ t.control[i] < y => t.assignments[x] # t.assignments[y]
    BY <1>0, Elements DEF Segments
  <1>12. \A j \in 1 .. n : /\ t.assignments[j] \in 1 .. Len(t.info)
                           /\ t.info[t.assignments[j]].active /\ t.info[t.assignments[j]].assigned
    BY <1>0 DEF Recorded
  <1>13. \A x : Past(t, p, x) <=> \E j \in 1 .. n : j > p /\ t.assignments[j] = x  BY DEF Past
  <1> HIDE DEF n, a, d, c, z
  <1>14. Levels(u)
    <2>1. k = 1 + a + l  BY <1>1
    <2> QED  BY <2>1, <1>0, <1>3, <1>5 DEF Levels, a
  <1>15. l + 1 \in 1 .. d /\ 1 \in 1 .. d /\ k \in 1 .. c /\ k \in Nat /\ a < k /\ k - 1 >= a
    BY <1>1
  <1>16. p \in Nat /\ p <= n /\ \A j \in 1 .. p : j \in 1 .. n  BY <1>1, <1>11, <1>15
  <1>17. \A i \in 1 .. l : i \in 1 .. d /\ t.control[i] <= p
    <2>1. \A i \in 1 .. l : i \in 1 .. d /\ i <= l + 1  BY <1>1
    <2> QED  BY <2>1, <1>11, <1>15
  <1>18. \A i \in 1 .. k : i \in 1 .. c  BY <1>1, <1>15
  <1>19. \A j \in 1 .. p : ~Past(t, p, t.assignments[j])
    <2>1. ASSUME NEW j \in 1 .. p, NEW y \in 1 .. n, y > p  PROVE t.assignments[y] # t.assignments[j]
      <3>1. j \in 1 .. n /\ j <= t.control[l + 1] /\ t.control[l + 1] < y  BY <2>1, <1>16
      <3> QED  BY <3>1, <1>11, <1>15
    <2> QED  BY <2>1, <1>13
  <1>20. Recorded(u)
    <2>1. ASSUME NEW j \in 1 .. p
          PROVE  /\ u.assignments[j] \in 1 .. Len(u.info)
                 /\ u.info[u.assignments[j]].active /\ u.info[u.assignments[j]].assigned
      BY <1>3, <1>4, <1>5, <1>12, <1>16, <1>19
    <2>2. ASSUME NEW v \in 1 .. Len(t.info), u.info[v].active, u.info[v].assigned
          PROVE  \E j \in 1 .. p : u.assignments[j] = v
      <3>1. t.info[v].active /\ t.info[v].assigned /\ ~Past(t, p, v)  BY <2>2, <1>3, <1>4
      <3>2. PICK j \in 1 .. n : t.assignments[j] = v  BY <3>1, <1>0 DEF Recorded, n
      <3>3. ~(j > p)  BY <3>1, <3>2, <1>13
      <3>4. j \in 1 .. p  BY <3>3, <1>16
      <3> QED  BY <3>2, <3>4, <1>5
    <2> QED  BY <2>1, <2>2, <1>3, <1>5 DEF Recorded
  <1>21. Segments(u)
    <2>1. ASSUME NEW i \in 1 .. l
          PROVE  /\ t.control[i] <= p
                 /\ \A j \in 1 .. l : i <= j => t.control[i] <= t.control[j]
                 /\ \A x, y \in 1 .. p :
                       x <= t.control[i] /\ t.control[i] < y => t.assignments[x] # t.assignments[y]
      BY <1>11, <1>16, <1>17
    <2>2. ASSUME NEW i \in 1 .. l
          PROVE  /\ u.control[i] <= p
                 /\ \A j \in 1 .. l : i <= j => u.control[i] <= u.control[j]
                 /\ \A x, y \in 1 .. p :
                       x <= u.control[i] /\ u.control[i] < y => u.assignments[x] # u.assignments[y]
      BY <2>1, <1>5, SMTT(30)
    <2>3. Len(u.control) = l /\ Len(u.assignments) = p  BY <1>5
    <2> QED  BY <2>2, <2>3 DEF Segments
  <1>22. FixedOK(u)
    <2>1. /\ \A j \in 1 .. n : j <= t.control[1] => t.info[t.assignments[j]].fixed
          /\ ~FixAnywhere => \A j \in 1 .. n : t.info[t.assignments[j]].fixed => j <= t.control[1]
      <3>1. d > 0  BY <1>1
      <3> QED  BY <3>1, <1>0 DEF FixedOK, n, d
    <2>2. t.control[1] <= p /\ t.control[1] \in Nat
      <3>1. 1 <= l + 1  BY <1>1
      <3> QED  BY <3>1, <1>11, <1>15
    <2>3. ASSUME ~FixAnywhere, NEW v \in 1 .. Len(t.info), t.info[v].fixed, t.info[v].active
          PROVE  u.info[v].assigned
      <3>1. t.info[v].assigned  BY <2>3, <1>0 DEF FixedOK
      <3>2. ~Past(t, p, v)
        <4>1. ASSUME NEW j \in 1 .. n, j > p, t.assignments[j] = v  PROVE FALSE
          <5>1. j <= t.control[1]  BY <4>1, <2>1, <2>3
          <5> QED  BY <5>1, <4>1, <2>2, <1>16
        <4> QED  BY <4>1, <1>13
      <3> QED  BY <3>1, <3>2, <1>4
    <2>4. ASSUME NEW j \in 1 .. p
          PROVE  /\ (l > 0 => j <= u.control[1]) <=> j <= t.control[1]
                 /\ u.info[u.assignments[j]].fixed = t.info[t.assignments[j]].fixed
      <3>1. u.info[u.assignments[j]].fixed = t.info[t.assignments[j]].fixed
        BY <1>4, <1>5, <1>12, <1>16
      <3>2. CASE l = 0  BY <3>1, <3>2, <1>16
      <3>3. CASE l # 0
        <4>1. l > 0 /\ 1 \in 1 .. l  BY <3>3
        <4> QED  BY <3>1, <4>1, <1>5
      <3> QED  BY <3>2, <3>3
    <2>5. \A j \in 1 .. p : (l > 0 => j <= u.control[1]) => u.info[u.assignments[j]].fixed
      BY <2>1, <2>4, <1>16
    <2>6. ~FixAnywhere =>
             \A j \in 1 .. p : u.info[u.assignments[j]].fixed => (l > 0 => j <= u.control[1])
      BY <2>1, <2>4, <1>16
    <2>7. \A v \in 1 .. Len(t.info) : u.info[v].fixed => u.info[v].intro = 0
      BY <1>0, <1>3, <1>4 DEF FixedOK
    <2> QED  BY <2>3, <2>5, <2>6, <2>7, <1>3, <1>4, <1>5 DEF FixedOK
  <1>23. /\ Len(u.satLiterals) = z
         /\ \A j \in 1 .. z :
               /\ u.satLiterals[j][1] = t.satLiterals[j][1]
               /\ t.satLiterals[j][2] <= k => u.satLiterals[j][2] = t.satLiterals[j][2]
               /\ ~(t.satLiterals[j][2] <= k) => /\ u.satLiterals[j][2] = k
                                                 /\ t.satLiterals[j][1] \in u.ctx[k].prereg
    BY DEF Back, z
  <1>24. \A j \in 1 .. z : LiveAt(t, t.satLiterals[j][1], a) /\ t.satLiterals[j][2] \in Nat
    BY <1>0, Elements DEF Contexts, a, z
  <1>25. Contexts(u)
    <2>1. ASSUME NEW i \in 1 .. k, NEW x \in u.ctx[i].queue \cup u.ctx[i].prereg
          PROVE  LiveAt(t, x, i - 1)
      <3>1. CASE x \in t.ctx[i].queue \cup t.ctx[i].prereg
        BY <3>1, <1>0, <1>18 DEF Contexts, c
      <3>2. CASE x \notin t.ctx[i].queue \cup t.ctx[i].prereg
        <4>1. i = k  BY <2>1, <3>2 DEF Back
        <4>2. PICK j \in 1 .. z : t.satLiterals[j][1] = x  BY <2>1, <3>2, <4>1, <1>6 DEF Back, z
        <4>3. LiveAt(t, x, a)  BY <4>2, <1>24
        <4>4. t.info[x].intro \in Nat  BY <4>3, <1>0, Elements DEF LiveAt
        <4>5. a <= i - 1 /\ i - 1 \in Nat  BY <4>1, <1>1, <1>15
        <4> QED  BY <4>3, <4>4, <4>5, <1>1, SMTT(30) DEF LiveAt
      <3> QED  BY <3>1, <3>2
    <2>2. \A j \in 1 .. z : LiveAt(u, u.satLiterals[j][1], a) /\ u.satLiterals[j][2] <= k
      BY <1>7, <1>15, <1>23, <1>24
    <2>3. ASSUME NEW i \in 1 .. z, NEW j \in 1 .. z, i <= j
          PROVE  u.satLiterals[i][2] <= u.satLiterals[j][2]
      <3>1. t.satLiterals[i][2] <= t.satLiterals[j][2]  BY <2>3, <1>0 DEF Contexts, z
      <3>2. t.satLiterals[i][2] \in Nat /\ t.satLiterals[j][2] \in Nat
        <4>1. \A y \in 1 .. z : t.satLiterals[y][2] \in Nat  BY <1>24
        <4> QED  BY <4>1
      <3>3. CASE t.satLiterals[j][2] <= k
        <4>1. t.satLiterals[i][2] <= k
          <5>1. k \in Nat  BY <1>15
          <5>2. \A x, y \in Nat : x <= y /\ y <= k => x <= k  BY <5>1
          <5> QED  BY <3>1, <3>2, <3>3, <5>2, Zenon
        <4> QED  BY <3>1, <3>3, <4>1, <1>23
      <3>4. CASE ~(t.satLiterals[j][2] <= k)
        <4>1. u.satLiterals[j][2] = k  BY <3>4, <1>23
        <4>2. u.satLiterals[i][2] <= k  BY <2>2
        <4> QED  BY <4>1, <4>2
      <3> QED  BY <3>3, <3>4
    <2> QED  BY <2>1, <2>2, <2>3, <1>3, <1>5, <1>7, <1>23 DEF Contexts, a
  <1>26. Preregistered(u)
    <2> SUFFICES ASSUME NEW v \in 1 .. Len(t.info), NEW i \in 1 .. k,
                        t.info[v].active, t.info[v].atom, t.info[v].intro < i
                 PROVE  v \in u.ctx[i].prereg \/ Waits(u, v, i)
      BY <1>3, <1>5 DEF Preregistered
    <2>1. v \in t.ctx[i].prereg \/ Waits(t, v, i)  BY <1>0, <1>18 DEF Preregistered, c
    <2>2. CASE v \in t.ctx[i].prereg
      <3>1. v \in u.ctx[i].prereg  BY <2>2 DEF Back
      <3> QED  BY <3>1
    <2>3. CASE Waits(t, v, i)
      <3>1. i > a /\ i \in Nat  BY <2>3 DEF Waits, a
      <3>2. PICK j \in 1 .. z : t.satLiterals[j][1] = v /\ t.satLiterals[j][2] > i
        BY <2>3 DEF Waits, z
      <3>3. CASE i = k
        <4>1. ~(t.satLiterals[j][2] <= k)  BY <3>2, <3>3, <1>15, <1>24
        <4> QED  BY <4>1, <3>2, <3>3, <1>23
      <3>4. CASE i # k
        <4>1. i < k  BY <3>4, <1>15
        <4>2. u.satLiterals[j][2] > i /\ u.satLiterals[j][1] = v  BY <4>1, <3>2, <1>23
        <4>3. Waits(u, v, i)  BY <4>2, <3>1, <1>3, <1>23 DEF Waits, a
        <4> QED  BY <4>3
      <3> QED  BY <3>3, <3>4
    <2> QED  BY <2>1, <2>2, <2>3
  <1>27. Renotified(u)
    <2>1. \A j \in 1 .. Len(t.renotify) :
             /\ t.renotify[j] \in 1 .. Len(t.info)
             /\ t.info[t.renotify[j]].active /\ t.info[t.renotify[j]].fixed
      BY <1>0 DEF Renotified
    <2>2. \A j \in 1 .. Len(t.renotify) : u.info[t.renotify[j]].active /\ u.info[t.renotify[j]].fixed
      BY <2>1, <1>3, <1>4
    <2>3. ASSUME ~FixAnywhere, NEW x \in 1 .. Len(t.info),
                 u.info[x].active, u.info[x].atom, u.info[x].fixed
          PROVE  \/ Again(u, x)
                 \/ /\ u.info[x].fixedAt <= a
                    /\ \A i \in 1 .. k : i > u.info[x].fixedAt => x \in u.ctx[i].queue
      <3>1. t.info[x].active /\ t.info[x].atom /\ t.info[x].fixed /\ u.info[x].fixedAt = t.info[x].fixedAt
        BY <2>3, <1>3, <1>4
      <3>2. Again(t, x) => Again(u, x)  BY <1>2 DEF Again
      <3>3. \/ Again(t, x)
            \/ /\ t.info[x].fixedAt <= a
               /\ \A i \in 1 .. c : i > t.info[x].fixedAt => x \in t.ctx[i].queue
        BY <3>1, <2>3, <1>0 DEF Renotified, c, a
      <3> QED  BY <3>1, <3>2, <3>3, <1>6, <1>18
    <2> QED  BY <2>1, <2>2, <2>3, <1>2, <1>3, <1>5 DEF Renotified, a
  <1>28. Sent(u)
    <2> SUFFICES ASSUME NEW j \in 1 .. p, NEW e \in 0 .. l,
                        u.info[t.assignments[j]].atom, ~u.info[t.assignments[j]].fixed,
                        e < l => j <= t.control[e + 1]
                 PROVE  t.assignments[j] \in u.ctx[a + 1 + e].queue
      <3>1. \A e \in 0 .. l : e < l => e + 1 \in 1 .. l  OBVIOUS
      <3> QED  BY <3>1, <1>3, <1>5 DEF Sent, a
    <2>1. e \in 0 .. d /\ a + 1 + e \in 1 .. k  BY <1>1
    <2>2. t.info[t.assignments[j]].atom /\ ~t.info[t.assignments[j]].fixed  BY <1>3, <1>4, <1>12, <1>16
    <2>3. j <= t.control[e + 1]
      <3>1. e < l \/ e = l  OBVIOUS
      <3>2. j <= p  BY <1>16
      <3> QED  BY <3>1, <3>2
    <2>4. t.assignments[j] \in t.ctx[a + 1 + e].queue
      BY <2>1, <2>2, <2>3, <1>0, <1>16 DEF Sent, n, a, d
    <2> QED  BY <2>1, <2>4, <1>6
  <1> QED
    BY <1>7, <1>8, <1>9, <1>10, <1>14, <1>20, <1>21, <1>22, <1>25, <1>26, <1>27, <1>28 DEF Good

(* What CaDiCaL keeps in a backtrack to level l.                           *)
LEMMA BacktrackedFields ==
    ASSUME NEW c \in Cadical, NEW l \in Nat, NEW e, e = Backtracked(c, l)
    PROVE  /\ e \in Cadical /\ e.level = l /\ Len(e.val) = Len(c.val)
           /\ \A v \in 1 .. Len(c.val) : e.val[v] = IF c.val[v] > l THEN Unassigned ELSE c.val[v]
           /\ e.ignored = {v \in c.ignored : e.val[v] # Unassigned}
  <1> DEFINE n == Len(c.val)
             f == [v \in 1 .. n |-> IF c.val[v] > l THEN Unassigned ELSE c.val[v]]
             g == {v \in c.ignored : f[v] # Unassigned}
  <1>1. DOMAIN c.val = 1 .. n /\ n \in Nat /\ \A v \in 1 .. n : c.val[v] \in Nat \cup {Unassigned}
    BY CadicalParts
  <1>2. f \in [1 .. n -> Nat \cup {Unassigned}]  BY <1>1
  <1>3. f \in Seq(Nat \cup {Unassigned}) /\ Len(f) = n
    <2> HIDE DEF f, n
    <2> QED  BY <1>1, <1>2, FunctionSeq
  <1>4. e = [c EXCEPT !.level = l, !.val = f, !.ignored = g]  BY <1>1 DEF Backtracked
  <1>5. \A v \in 1 .. n : f[v] = IF c.val[v] > l THEN Unassigned ELSE c.val[v]  OBVIOUS
  <1>6. g \subseteq Var  BY CadicalParts
  <1> HIDE DEF f
  <1>7. e \in Cadical /\ e.level = l /\ e.val = f /\ e.ignored = g
    <2> HIDE DEF g
    <2> QED  BY <1>3, <1>4, <1>6 DEF Cadical
  <1> QED  BY <1>3, <1>5, <1>7

(* The trail after a backtrack that cvc5 made.                             *)
LEMMA BackTrail ==
    ASSUME NEW t, Good(t), NEW c, Trail(t, c), NEW l \in Nat, l < Len(t.decisions),
           NEW p, p = t.control[l + 1], NEW k, NEW u, Back(t, u, l, p, k),
           NEW e, e = Backtracked(c, l)
    PROVE  Trail(u, e)
  <1>0. t \in State /\ Levels(t) /\ Recorded(t) /\ Segments(t) /\ c \in Cadical /\ Len(c.val) = Len(t.info)
    BY DEF Good, Sized, Trail
  <1> DEFINE n == Len(t.assignments)
             m == Len(t.info)
             d == Len(t.control)
  <1>1. n \in Nat /\ m \in Nat /\ d \in Nat /\ l < d  BY <1>0, Lengths DEF Levels
  <1>2. /\ e \in Cadical /\ Len(e.val) = m
        /\ \A v \in 1 .. m : e.val[v] = IF c.val[v] > l THEN Unassigned ELSE c.val[v]
        /\ e.ignored = {v \in c.ignored : e.val[v] # Unassigned}
    BY <1>0, BacktrackedFields
  <1>3. \A v \in 1 .. m : c.val[v] \in Int  BY <1>0, CadicalParts
  <1>4. /\ Len(u.info) = m /\ \A v \in 1 .. m : u.info[v].active = t.info[v].active
        /\ \A v \in 1 .. m : u.info[v].assigned <=> t.info[v].assigned /\ ~Past(t, p, v)
        /\ \A v \in 1 .. m : u.info[v].fixed = t.info[v].fixed
    BY DEF Back, SameMade
  <1>5. /\ Len(u.assignments) = p /\ \A j \in 1 .. p : u.assignments[j] = t.assignments[j]
        /\ Len(u.control) = l /\ \A i \in 1 .. l : u.control[i] = t.control[i]
        /\ Len(u.decisions) = l
    BY DEF Back
  <1>6. ~FixAnywhere => \A i \in 1 .. d, j \in 1 .. n :
                           j <= t.control[i] <=> c.val[t.assignments[j]] < i
    BY DEF Trail
  <1>7. \A j \in 1 .. n : t.assignments[j] \in 1 .. m  BY <1>0 DEF Recorded
  <1>8. \A x : Past(t, p, x) <=> \E j \in 1 .. n : j > p /\ t.assignments[j] = x  BY DEF Past
  <1>9. \A i \in 1 .. d : t.control[i] \in Nat /\ t.control[i] <= n  BY <1>0, Elements DEF Segments
  <1>10. ~FixAnywhere => \A v \in c.ignored : v \in 1 .. m /\ c.val[v] > 0  BY DEF Trail
  <1>11. ~FixAnywhere => \A v \in 1 .. m : t.info[v].active =>
            (t.info[v].assigned <=> c.val[v] # Unassigned /\ v \notin c.ignored)
    BY DEF Trail
  <1>12. \A v \in 1 .. m : t.info[v].active /\ t.info[v].assigned => \E j \in 1 .. n : t.assignments[j] = v
    BY <1>0 DEF Recorded
  <1> HIDE DEF n, m, d
  <1>13. l + 1 \in 1 .. d /\ \A i \in 1 .. l : i \in 1 .. d  BY <1>1
  <1>14. p \in Nat /\ p <= n /\ \A j \in 1 .. p : j \in 1 .. n  BY <1>1, <1>9, <1>13
  <1>15. ~FixAnywhere => \A j \in 1 .. n : j <= p <=> ~(c.val[t.assignments[j]] > l)
    <2>1. ~FixAnywhere => \A j \in 1 .. n : j <= p <=> c.val[t.assignments[j]] < l + 1  BY <1>6, <1>13
    <2>2. \A j \in 1 .. n : c.val[t.assignments[j]] \in Int  BY <1>3, <1>7
    <2> QED  BY <2>1, <2>2
  <1>16. \A v \in 1 .. m : e.val[v] <= l
    <2>1. Unassigned <= l  BY DEF Unassigned
    <2> QED  BY <2>1, <1>2, <1>3
  <1>17. ~FixAnywhere => \A v \in e.ignored : v \in 1 .. m /\ e.val[v] > 0  BY <1>2, <1>10
  <1>18. ASSUME ~FixAnywhere, NEW v \in 1 .. m, u.info[v].active
         PROVE  u.info[v].assigned <=> e.val[v] # Unassigned /\ v \notin e.ignored
    <2>1. t.info[v].active  BY <1>18, <1>4
    <2>2. CASE ~t.info[v].assigned
      <3>1. ~u.info[v].assigned  BY <2>2, <1>4
      <3>2. c.val[v] = Unassigned \/ v \in c.ignored  BY <2>1, <2>2, <1>11, <1>18
      <3>3. e.val[v] = Unassigned \/ v \in e.ignored  BY <3>2, <1>2
      <3> QED  BY <3>1, <3>3
    <2>3. CASE t.info[v].assigned
      <3>1. c.val[v] # Unassigned /\ v \notin c.ignored  BY <2>1, <2>3, <1>11, <1>18
      <3>2. PICK j \in 1 .. n : t.assignments[j] = v  BY <2>1, <2>3, <1>12
      <3>3. Past(t, p, v) <=> c.val[v] > l
        <4>1. ASSUME c.val[v] > l  PROVE Past(t, p, v)
          <5>1. ~(j <= p)  BY <4>1, <3>2, <1>15, <1>18
          <5>2. j > p  BY <5>1, <1>14
          <5> QED  BY <5>2, <3>2, <1>8
        <4>2. ASSUME Past(t, p, v)  PROVE c.val[v] > l
          <5>1. PICK i \in 1 .. n : i > p /\ t.assignments[i] = v  BY <4>2, <1>8
          <5>2. ~(i <= p)  BY <5>1, <1>14
          <5> QED  BY <5>1, <5>2, <1>15, <1>18
        <4> QED  BY <4>1, <4>2
      <3>4. u.info[v].assigned <=> ~(c.val[v] > l)  BY <3>3, <2>3, <1>4
      <3> QED  BY <3>1, <3>4, <1>2
    <2> QED  BY <2>2, <2>3
  <1>19. ASSUME ~FixAnywhere, NEW i \in 1 .. l, NEW j \in 1 .. p
         PROVE  j <= u.control[i] <=> e.val[u.assignments[j]] < i
    <2>1. u.control[i] = t.control[i] /\ u.assignments[j] = t.assignments[j]  BY <1>5
    <2>2. ~(c.val[t.assignments[j]] > l)  BY <1>14, <1>15, <1>19
    <2>3. e.val[t.assignments[j]] = c.val[t.assignments[j]]  BY <2>2, <1>2, <1>7, <1>14
    <2> QED  BY <2>1, <2>3, <1>6, <1>13, <1>14, <1>19
  <1>20. ASSUME NEW v \in 1 .. m, u.info[v].active
         PROVE  u.info[v].fixed <=> e.val[v] = 0
    <2>1. t.info[v].fixed <=> c.val[v] = 0  BY <1>4, <1>20 DEF Trail, m
    <2>2. e.val[v] = 0 <=> c.val[v] = 0
      <3>1. Unassigned # 0 /\ ~(0 > l)  BY DEF Unassigned
      <3> QED  BY <3>1, <1>2, <1>3
    <2> QED  BY <2>1, <2>2, <1>4
  <1> QED  BY <1>2, <1>4, <1>5, <1>16, <1>17, <1>18, <1>19, <1>20 DEF Trail, m

(* The trail after a backtrack that cvc5 had made already.                 *)
LEMMA EmptyTrail ==
    ASSUME NEW t, t \in State, Len(t.decisions) = 0, NEW c, Trail(t, c), NEW e, e = Backtracked(c, 0)
    PROVE  Trail(t, e)
  <1> DEFINE m == Len(t.info)
  <1>1. c \in Cadical /\ Len(c.val) = m  BY DEF Trail
  <1>2. /\ e \in Cadical /\ Len(e.val) = m
        /\ \A v \in 1 .. m : e.val[v] = IF c.val[v] > 0 THEN Unassigned ELSE c.val[v]
        /\ e.ignored = {v \in c.ignored : e.val[v] # Unassigned}
    BY <1>1, BacktrackedFields
  <1>3. \A v \in 1 .. m : c.val[v] \in Int  BY <1>1, CadicalParts
  <1>4. \A v \in 1 .. m : c.val[v] <= 0  BY DEF Trail
  <1>5. \A v \in 1 .. m : ~(c.val[v] > 0)
    <2> HIDE DEF m
    <2> QED  BY <1>3, <1>4
  <1>6. e.val = c.val
    <2>1. \A v \in 1 .. m : e.val[v] = c.val[v]  BY <1>2, <1>5
    <2>2. /\ e.val \in Seq(Nat \cup {Unassigned}) /\ c.val \in Seq(Nat \cup {Unassigned})
      BY <1>1, <1>2, CadicalParts
    <2> QED  BY <2>1, <2>2, <1>1, <1>2, SeqEqual
  <1>7. ~FixAnywhere => e.ignored = c.ignored
    <2>1. ~FixAnywhere => c.ignored = {}  BY <1>5 DEF Trail
    <2> QED  BY <2>1, <1>2
  <1> QED  BY <1>2, <1>6, <1>7 DEF Trail

(* notify_backtrack with level 0, and CaDiCaL at level 0.                  *)
LEMMA BacktrackToZero ==
    ASSUME NEW t, Good(t), FoundOK(t), NEW c, Trail(t, c)
    PROVE  LET u == notify_backtrack(t, 0) IN
           Good(u) /\ FoundOK(u) /\ Len(u.decisions) = 0 /\ Trail(u, Backtracked(c, 0))
  <1> DEFINE u == notify_backtrack(t, 0)
             e == Backtracked(c, 0)
             d == Len(t.decisions)
  <1>1. t \in State /\ d \in Nat /\ t.decisions \in Seq(Var \cup {NoVar}) /\ AssertsOK(t)
    BY Lengths, Parts DEF Good, Sized
  <1>2. CASE d = 0
    <2>1. t.decisions = <<>>  BY <1>1, <1>2, EmptySeq
    <2> DEFINE b == t.asserts /\ t.decisions = <<>>
    <2>2. b = t.asserts
      <3>1. t.asserts \in BOOLEAN  BY <1>1, Parts
      <3> QED  BY <3>1, <2>1, <1>1
    <2> HIDE DEF b
    <2>3. u = [t EXCEPT !.asserts = b]
      <3>1. Len(t.decisions) <= 0  BY <1>2
      <3> QED  BY <3>1 DEF notify_backtrack, b
    <2>4. u = t  BY <2>2, <2>3, <1>1 DEF State
    <2> HIDE DEF u, e
    <2>5. Trail(t, e)  BY <1>1, <1>2, EmptyTrail DEF e
    <2> QED  BY <2>4, <2>5, <1>2 DEF u, e
  <1>3. CASE d # 0
    <2>1. 0 < d /\ 0 \in Nat  BY <1>1, <1>3
    <2>2. Back(t, u, 0, t.control[0 + 1], Len(t.activeControl) + 1 + 0)  BY <2>1, BackFields
    <2> HIDE DEF u, e
    <2>3. Good(u)  BY <2>1, <2>2, BackGood
    <2>4. Trail(u, e)  BY <2>1, <2>2, BackTrail DEF e
    <2>5. ~u.found /\ Len(u.decisions) = 0  BY <2>2 DEF Back
    <2> QED  BY <2>3, <2>4, <2>5 DEF FoundOK, u, e
  <1> QED  BY <1>2, <1>3

(* After a search the level of CaDiCaL is of no interest.                  *)
LEMMA EndedTrail ==
    ASSUME NEW u, NEW c, c \in Cadical, Trail(u, Backtracked(c, 0))
    PROVE  Trail(u, Ended(c))
  <1> DEFINE b == Backtracked(c, 0)
             e == Ended(c)
  <1>1. b \in Cadical  BY DEF Trail
  <1>2. e = [b EXCEPT !.level = IF c.level > 0 THEN 1 ELSE 0]  BY DEF Ended
  <1> HIDE DEF b, e
  <1>3. e \in Cadical /\ e.val = b.val /\ e.ignored = b.ignored  BY <1>1, <1>2 DEF Cadical
  <1>4. Trail(u, b)  BY DEF b
  <1>5. Trail(u, e)  BY <1>3, <1>4 DEF Trail
  <1> QED  BY <1>5 DEF e

LEMMA EndStep ==
    ASSUME IInv, ResetTrail \/ Stop
    PROVE  IInv'
  <1>1. s' = notify_backtrack(s, 0) /\ cad' = Ended(cad) /\ pc' = "idle"  BY DEF ResetTrail, Stop
  <1>2. Good(s) /\ FoundOK(s) /\ Trail(s, cad) /\ cad \in Cadical  BY DEF IInv, Trail
  <1>3. Good(s') /\ FoundOK(s') /\ Len(s'.decisions) = 0 /\ Trail(s', Backtracked(cad, 0))
    BY <1>1, <1>2, BacktrackToZero
  <1>4. Trail(s', cad')  BY <1>1, <1>2, <1>3, EndedTrail
  <1>5. Stage'  BY <1>1, <1>3 DEF Stage
  <1> QED  BY <1>3, <1>4, <1>5 DEF IInv

LEMMA LateBacktrackStep ==
    ASSUME IInv, LateBacktrack
    PROVE  IInv'
  <1>1. s' = notify_backtrack(s, 0) /\ cad' = Backtracked(cad, 0) /\ pc' = "idle"  BY DEF LateBacktrack
  <1>2. Good(s) /\ FoundOK(s) /\ Trail(s, cad)  BY DEF IInv
  <1>3. Good(s') /\ FoundOK(s') /\ Len(s'.decisions) = 0 /\ Trail(s', cad')
    BY <1>1, <1>2, BacktrackToZero
  <1>4. Stage'  BY <1>1, <1>3 DEF Stage
  <1> QED  BY <1>3, <1>4 DEF IInv

LEMMA BacktrackStep ==
    ASSUME IInv, NEW l \in Nat, Backtrack(l)
    PROVE  IInv'
  <1>1. /\ s' = notify_backtrack(s, l) /\ cad' = Backtracked(cad, l) /\ pc = "search" /\ pc' = pc
        /\ l < cad.level
    BY DEF Backtrack
  <1>2. Good(s) /\ Trail(s, cad) /\ Stage /\ cad \in Cadical  BY DEF IInv, Trail
  <1>3. l < Len(s.decisions) /\ s.renotify = <<>>  BY <1>1, <1>2 DEF Stage
  <1>4. Back(s, s', l, s.control[l + 1], Len(s.activeControl) + 1 + l)  BY <1>1, <1>2, <1>3, BackFields
  <1>5. Good(s')  BY <1>2, <1>3, <1>4, BackGood
  <1>6. Trail(s', cad')  BY <1>1, <1>2, <1>3, <1>4, BackTrail
  <1>7. ~s'.found /\ Len(s'.decisions) = l /\ s'.renotify = s.renotify  BY <1>4 DEF Back
  <1>8. cad'.level = l  BY <1>1, <1>2, BacktrackedFields
  <1>9. Stage'  BY <1>1, <1>3, <1>7, <1>8 DEF Stage
  <1> QED  BY <1>5, <1>6, <1>7, <1>9 DEF IInv, FoundOK

-----------------------------------------------------------------------------
(* The start of a search.                                                  *)

(* u is t after the fixed literals of closed user levels were sent again.  *)
Resends(t, u) ==
    LET l == Len(t.ctx) IN
    /\ u \in State /\ SameMade(t, u) /\ SameTrail(t, u) /\ u.satLiterals = t.satLiterals
    /\ u.propagations = t.propagations /\ u.newClauses = t.newClauses /\ u.found = t.found
    /\ u.root = t.root /\ u.asserts = t.asserts /\ u.renotify = <<>>
    /\ \A x \in 1 .. Len(t.info) :
          /\ u.info[x].assigned = t.info[x].assigned /\ u.info[x].fixed = t.info[x].fixed
          /\ Again(t, x) => u.info[x].fixedAt = Len(t.activeControl)
          /\ ~Again(t, x) => u.info[x].fixedAt = t.info[x].fixedAt
    /\ Len(u.ctx) = l
    /\ \A i \in 1 .. l : /\ u.ctx[i].prereg = t.ctx[i].prereg
                         /\ i # l => u.ctx[i].queue = t.ctx[i].queue
    /\ \A x : x \in u.ctx[l].queue <=> x \in t.ctx[l].queue \/ Again(t, x)

(* renotify_fixed.                                                         *)
LEMMA RenotifyFields ==
    ASSUME NEW t, t \in State, Levels(t), Renotified(t), NEW u, u = renotify_fixed(t)
    PROVE  Resends(t, u)
  <1> DEFINE l == Len(t.ctx)
             m == Len(t.info)
             a == Len(t.activeControl)
             again == Range(t.renotify)
             x == [t.ctx[l] EXCEPT !.queue = @ \cup again]
             k == [t.ctx EXCEPT ![l] = x]
             I == [v \in 1 .. m |-> IF v \in again THEN [t.info[v] EXCEPT !.fixedAt = a] ELSE t.info[v]]
             b == t.asserts /\ \A v \in again : t.info[v].active
  <1>1. /\ l \in Nat /\ l \in 1 .. l /\ m \in Nat /\ a \in Nat /\ DOMAIN t.info = 1 .. m
        /\ t.ctx \in Seq(Snapshot) /\ t.ctx[l] \in Snapshot /\ t.renotify \in Seq(Var)
    BY LevelNumbers, Lengths, Parts, Elements
  <1>2. again \subseteq Var /\ \A y : y \in again <=> Again(t, y)
    BY <1>1, RangeElements DEF Again
  <1>3. u = [t EXCEPT !.ctx = k, !.info = I, !.renotify = <<>>, !.asserts = b]
    <2>1. u = [t EXCEPT !.ctx[l].queue = @ \cup again,
                        !.info = [v \in DOMAIN @ |->
                                     IF v \in again THEN [@[v] EXCEPT !.fixedAt = a] ELSE @[v]],
                        !.renotify = <<>>,
                        !.asserts = @ /\ \A v \in again : t.info[v].active]
      BY Zenon DEF renotify_fixed, CtxLevel, UserLevel
    <2>2. I = [v \in DOMAIN t.info |->
                  IF v \in again THEN [t.info[v] EXCEPT !.fixedAt = a] ELSE t.info[v]]
      BY <1>1
    <2> HIDE DEF again, I, l, m, a
    <2> QED  BY <2>1, <2>2
  <1>4. b = t.asserts
    <2>1. \A v \in again : t.info[v].active  BY <1>2 DEF Renotified, Again
    <2>2. t.asserts \in BOOLEAN  BY Parts
    <2> QED  BY <2>1, <2>2
  <1> HIDE DEF again, b
  <1>5. x \in Snapshot /\ x.queue = t.ctx[l].queue \cup again /\ x.prereg = t.ctx[l].prereg
    BY <1>1, <1>2 DEF Snapshot
  <1> HIDE DEF x
  <1>6. k \in Seq(Snapshot) /\ Len(k) = l /\ k[l] = x /\ \A i \in 1 .. l : i # l => k[i] = t.ctx[i]
    BY <1>1, <1>5, ExceptSeq
  <1> HIDE DEF k
  <1>7. \A v \in 1 .. m : t.info[v] \in VarInfo  BY Elements
  <1>8. \A v \in 1 .. m :
           /\ I[v] \in VarInfo /\ I[v].intro = t.info[v].intro /\ I[v].active = t.info[v].active
           /\ I[v].atom = t.info[v].atom /\ I[v].fixed = t.info[v].fixed
           /\ I[v].assigned = t.info[v].assigned
           /\ v \in again => I[v].fixedAt = a
           /\ v \notin again => I[v].fixedAt = t.info[v].fixedAt
    <2> HIDE DEF m, a
    <2> QED  BY <1>1, <1>7 DEF VarInfo
  <1>9. I \in Seq(VarInfo) /\ Len(I) = m
    <2>1. I \in [1 .. m -> VarInfo]
      <3>1. I = [v \in 1 .. m |-> I[v]]  OBVIOUS
      <3> HIDE DEF I
      <3> QED  BY <3>1, <1>8
    <2> HIDE DEF I
    <2> QED  BY <2>1, <1>1, FunctionSeq
  <1> HIDE DEF I
  <1>10. u \in State /\ u.ctx = k /\ u.info = I /\ u.renotify = <<>>
    <2>1. <<>> \in Seq(Var)  BY EmptySeq
    <2> QED  BY <2>1, <1>3, <1>4, <1>6, <1>9, ZenonT(60) DEF State
  <1>11. /\ SameTrail(t, u) /\ u.active = t.active /\ u.activeControl = t.activeControl
         /\ u.acts = t.acts /\ u.pushes = t.pushes /\ u.satLiterals = t.satLiterals
         /\ u.propagations = t.propagations /\ u.newClauses = t.newClauses /\ u.found = t.found
         /\ u.root = t.root /\ u.asserts = t.asserts
    BY <1>3, <1>4 DEF State, SameTrail
  <1>12. SameMade(t, u)  BY <1>8, <1>9, <1>10, <1>11 DEF SameMade
  <1>13. \A i \in 1 .. l : /\ k[i].prereg = t.ctx[i].prereg
                           /\ i # l => k[i].queue = t.ctx[i].queue
    BY <1>5, <1>6
  <1>14. \A y : y \in k[l].queue <=> y \in t.ctx[l].queue \/ Again(t, y)  BY <1>2, <1>5, <1>6
  <1> QED  BY <1>2, <1>6, <1>8, <1>10, <1>11, <1>12, <1>13, <1>14 DEF Resends

(* All fixed atoms are sent after it.                                      *)
LEMMA ResendsGood ==
    ASSUME NEW t, Good(t), Len(t.decisions) = 0, NEW u, Resends(t, u)
    PROVE  Good(u)
  <1>0. /\ t \in State /\ Sized(t) /\ Levels(t) /\ Marks(t) /\ Recorded(t) /\ Segments(t) /\ FixedOK(t)
        /\ Contexts(t) /\ Preregistered(t) /\ Renotified(t) /\ Sent(t) /\ Clauses(t)
        /\ Inferences(t) /\ AssertsOK(t)
    BY DEF Good, Sized
  <1> DEFINE l == Len(t.ctx)
             a == Len(t.activeControl)
  <1>1. l \in Nat /\ a \in Nat /\ l \in 1 .. l /\ l = a + 1
    <2>1. Len(t.control) = 0  BY <1>0 DEF Levels
    <2>2. l = a + 1 + Len(t.control)  BY <1>0, LevelNumbers
    <2>3. l \in Nat /\ a \in Nat /\ l \in 1 .. l  BY <1>0, Lengths, LevelNumbers
    <2> QED  BY <2>1, <2>2, <2>3
  <1>2. /\ u \in State /\ SameMade(t, u) /\ SameTrail(t, u) /\ u.satLiterals = t.satLiterals
        /\ u.propagations = t.propagations /\ u.newClauses = t.newClauses /\ u.root = t.root
        /\ u.asserts = t.asserts /\ u.renotify = <<>> /\ Len(u.ctx) = l
    BY DEF Resends
  <1>3. /\ Len(u.info) = Len(t.info) /\ u.activeControl = t.activeControl /\ u.acts = t.acts
        /\ u.pushes = t.pushes /\ u.assignments = t.assignments /\ u.control = t.control
        /\ u.decisions = t.decisions
    BY <1>2 DEF SameMade, SameTrail
  <1>4. \A x \in 1 .. Len(t.info) :
           /\ u.info[x].intro = t.info[x].intro /\ u.info[x].active = t.info[x].active
           /\ u.info[x].atom = t.info[x].atom /\ u.info[x].assigned = t.info[x].assigned
           /\ u.info[x].fixed = t.info[x].fixed
           /\ Again(t, x) => u.info[x].fixedAt = a
           /\ ~Again(t, x) => u.info[x].fixedAt = t.info[x].fixedAt
    BY <1>2 DEF Resends, SameMade
  <1>5. \A i \in 1 .. l : /\ u.ctx[i].prereg = t.ctx[i].prereg
                          /\ i # l => u.ctx[i].queue = t.ctx[i].queue
    BY DEF Resends
  <1>6. \A x : x \in u.ctx[l].queue <=> x \in t.ctx[l].queue \/ Again(t, x)  BY DEF Resends
  <1>7. Marks(u) /\ \A x, i : LiveAt(t, x, i) <=> LiveAt(u, x, i)  BY <1>0, <1>2, SameMadeMarks
  <1>8. Clauses(u)  BY <1>0, <1>2, SameMadeClauses
  <1>9. Sized(u) /\ Levels(u) /\ AssertsOK(u)  BY <1>0, <1>2, <1>3 DEF Sized, Levels, AssertsOK
  <1>10. Inferences(u)  BY <1>0, <1>2, <1>3 DEF Inferences
  <1>11. Segments(u)  BY <1>0, <1>3 DEF Segments
  <1>12. \A j \in 1 .. Len(t.assignments) : t.assignments[j] \in 1 .. Len(t.info)
    BY <1>0 DEF Recorded
  <1>13. Recorded(u)
    <2>1. \A j \in 1 .. Len(t.assignments) :
             u.info[t.assignments[j]].active /\ u.info[t.assignments[j]].assigned
      BY <1>0, <1>4 DEF Recorded
    <2>2. \A x \in 1 .. Len(t.info) : u.info[x].active /\ u.info[x].assigned =>
             \E j \in 1 .. Len(t.assignments) : t.assignments[j] = x
      BY <1>0, <1>4 DEF Recorded
    <2> QED  BY <2>1, <2>2, <1>3, <1>12 DEF Recorded
  <1>14. FixedOK(u)
    <2>1. \A x \in 1 .. Len(t.info) : u.info[x].fixed => u.info[x].intro = 0  BY <1>0, <1>4 DEF FixedOK
    <2>2. ~FixAnywhere => \A x \in 1 .. Len(t.info) :
             u.info[x].fixed /\ u.info[x].active => u.info[x].assigned
      BY <1>0, <1>4 DEF FixedOK
    <2>3. \A j \in 1 .. Len(t.assignments) :
             u.info[t.assignments[j]].fixed = t.info[t.assignments[j]].fixed
      BY <1>4, <1>12
    <2>4. /\ \A j \in 1 .. Len(t.assignments) :
                (Len(t.control) > 0 => j <= t.control[1]) => u.info[t.assignments[j]].fixed
          /\ ~FixAnywhere => \A j \in 1 .. Len(t.assignments) :
                u.info[t.assignments[j]].fixed => (Len(t.control) > 0 => j <= t.control[1])
      BY <2>3, <1>0 DEF FixedOK
    <2> QED  BY <2>1, <2>2, <2>4, <1>3 DEF FixedOK
  <1>15. \A i \in 1 .. l : \A x \in t.ctx[i].queue : x \in u.ctx[i].queue  BY <1>5, <1>6
  <1>16. \A x : Again(t, x) => LiveAt(t, x, a)
    <2>1. ASSUME NEW x, Again(t, x)  PROVE LiveAt(t, x, a)
      <3>1. x \in 1 .. Len(t.info) /\ t.info[x].active  BY <2>1, <1>0 DEF Renotified, Again
      <3> QED  BY <3>1, <1>0 DEF Marks
    <2> QED  BY <2>1
  <1>17. Preregistered(u)
    <2>1. \A x, i : Waits(t, x, i) => Waits(u, x, i)  BY <1>2, <1>3 DEF Waits
    <2> SUFFICES ASSUME NEW x \in 1 .. Len(t.info), NEW i \in 1 .. l,
                        u.info[x].active, u.info[x].atom, u.info[x].intro < i
                 PROVE  x \in u.ctx[i].prereg \/ Waits(u, x, i)
      BY <1>2, <1>3 DEF Preregistered
    <2>2. t.info[x].active /\ t.info[x].atom /\ t.info[x].intro < i  BY <1>4
    <2>3. x \in t.ctx[i].prereg \/ Waits(t, x, i)  BY <2>2, <1>0 DEF Preregistered
    <2> QED  BY <2>1, <2>3, <1>5
  <1>18. Sent(u)
    <2>1. ~(Len(u.control) > 0)  BY <1>0, <1>3 DEF Levels
    <2>2. \A j \in 1 .. Len(u.assignments) : u.info[u.assignments[j]].fixed  BY <2>1, <1>14 DEF FixedOK
    <2> QED  BY <2>2 DEF Sent
  <1> HIDE DEF l, a
  <1>19. Contexts(u)
    <2>1. ASSUME NEW i \in 1 .. l, NEW x \in u.ctx[i].queue \cup u.ctx[i].prereg
          PROVE  LiveAt(u, x, i - 1)
      <3>1. CASE x \in t.ctx[i].queue \cup t.ctx[i].prereg
        <4>1. LiveAt(t, x, i - 1)  BY <3>1, <1>0 DEF Contexts, l
        <4> QED  BY <4>1, <1>7
      <3>2. CASE x \notin t.ctx[i].queue \cup t.ctx[i].prereg
        <4>1. i = l /\ Again(t, x)  BY <2>1, <3>2, <1>5, <1>6
        <4>2. i - 1 = a  BY <4>1, <1>1
        <4> QED  BY <4>1, <4>2, <1>7, <1>16
      <3> QED  BY <3>1, <3>2
    <2>2. \A j \in 1 .. Len(t.satLiterals) :
             LiveAt(u, t.satLiterals[j][1], a) /\ t.satLiterals[j][2] <= l
      BY <1>0, <1>7 DEF Contexts, l, a
    <2>3. \A i, j \in 1 .. Len(t.satLiterals) : i <= j => t.satLiterals[i][2] <= t.satLiterals[j][2]
      BY <1>0 DEF Contexts
    <2> QED  BY <2>1, <2>2, <2>3, <1>2, <1>3 DEF Contexts, a
  <1>20. Renotified(u)
    <2>1. Len(u.renotify) = 0  BY <1>2
    <2>2. \A j \in 1 .. Len(u.renotify) : FALSE  BY <2>1
    <2>3. ASSUME ~FixAnywhere, NEW x \in 1 .. Len(t.info),
                 u.info[x].active, u.info[x].atom, u.info[x].fixed
          PROVE  /\ u.info[x].fixedAt <= a
                 /\ \A i \in 1 .. l : i > u.info[x].fixedAt => x \in u.ctx[i].queue
      <3>1. t.info[x].active /\ t.info[x].atom /\ t.info[x].fixed  BY <2>3, <1>4
      <3>2. CASE Again(t, x)
        <4>1. u.info[x].fixedAt = a  BY <3>2, <1>4
        <4>2. \A i \in 1 .. l : i > a => i = l  BY <1>1
        <4>3. a <= a  BY <1>1
        <4> QED  BY <4>1, <4>2, <4>3, <3>2, <1>6
      <3>3. CASE ~Again(t, x)
        <4>1. u.info[x].fixedAt = t.info[x].fixedAt  BY <3>3, <1>4
        <4>2. /\ t.info[x].fixedAt <= a
              /\ \A i \in 1 .. l : i > t.info[x].fixedAt => x \in t.ctx[i].queue
          BY <3>1, <3>3, <2>3, <1>0 DEF Renotified, l, a
        <4> QED  BY <4>1, <4>2, <1>15
      <3> QED  BY <3>2, <3>3
    <2> QED  BY <2>2, <2>3, <1>2, <1>3 DEF Renotified, a
  <1> QED
    BY <1>7, <1>8, <1>9, <1>10, <1>11, <1>13, <1>14, <1>17, <1>18, <1>19, <1>20 DEF Good

LEMMA SolveStep ==
    ASSUME IInv, Solve
    PROVE  IInv'
  <1>1. /\ Good(s) /\ Trail(s, cad) /\ Stage /\ pc = "idle" /\ cad.level = 0
        /\ s' = renotify_fixed(s) /\ pc' = "search" /\ cad' = cad
    BY DEF IInv, Solve
  <1>2. s \in State /\ Levels(s) /\ Renotified(s) /\ Len(s.decisions) = 0
    BY <1>1 DEF Good, Sized, Stage
  <1>3. ~s.found  BY <1>2, IdleNotFound
  <1>4. Resends(s, s')  BY <1>1, <1>2, RenotifyFields
  <1>5. Good(s')  BY <1>1, <1>2, <1>4, ResendsGood
  <1>6. Trail(s', cad')
    <2>1. /\ Len(s'.info) = Len(s.info) /\ s'.decisions = s.decisions /\ s'.control = s.control
          /\ s'.assignments = s.assignments
          /\ \A x \in 1 .. Len(s.info) : s'.info[x].active = s.info[x].active
                                         /\ s'.info[x].assigned = s.info[x].assigned
                                         /\ s'.info[x].fixed = s.info[x].fixed
      BY <1>4 DEF Resends, SameMade, SameTrail
    <2> QED  BY <2>1, <1>1 DEF Trail
  <1>7. ~s'.found /\ s'.renotify = <<>> /\ s'.decisions = s.decisions
    BY <1>3, <1>4 DEF Resends, SameTrail
  <1>8. Stage'  BY <1>1, <1>2, <1>7 DEF Stage
  <1> QED  BY <1>5, <1>6, <1>7, <1>8 DEF IInv, FoundOK

-----------------------------------------------------------------------------
(* User levels.                                                            *)

(* u is t with one more user level.                                        *)
Pushes(t, u) ==
    /\ u \in State /\ SameTrail(t, u) /\ SameWork(t, u) /\ u.satLiterals = t.satLiterals
    /\ \E b \in BOOLEAN : ~b /\ Extends(t, u, Len(t.activeControl) + 1, b)
    /\ Len(u.activeControl) = Len(t.activeControl) + 1
    /\ u.activeControl[Len(t.activeControl) + 1] = Len(t.active)
    /\ \A k \in 1 .. Len(t.activeControl) : u.activeControl[k] = t.activeControl[k]
    /\ Len(u.acts) = Len(t.acts) + 1 /\ u.acts[Len(t.acts) + 1] = Len(t.info) + 1
    /\ \A k \in 1 .. Len(t.acts) : u.acts[k] = t.acts[k]
    /\ u.pushes = t.pushes + 1
    /\ Len(u.ctx) = Len(t.ctx) + 1 /\ u.ctx[Len(t.ctx) + 1] = t.ctx[Len(t.ctx)]
    /\ \A i \in 1 .. Len(t.ctx) : u.ctx[i] = t.ctx[i]

(* CadicalSolver::push.                                                    *)
LEMMA PushFields ==
    ASSUME NEW t \in State, Len(t.ctx) > 0, Len(t.info) + 1 \in Var, NEW u, u = push(t)
    PROVE  Pushes(t, u)
  <1> DEFINE k == Append(t.ctx, t.ctx[Len(t.ctx)])
             a == Append(t.activeControl, Len(t.active))
             w == [t EXCEPT !.ctx = k, !.activeControl = a]
             n == add_new_var(w, FALSE)
             c == Append(t.acts, Len(t.info) + 1)
             x == Len(t.info) + 1
  <1>1. /\ t.ctx \in Seq(Snapshot) /\ t.activeControl \in Seq(Nat) /\ t.acts \in Seq(Var)
        /\ Len(t.active) \in Nat /\ t.ctx[Len(t.ctx)] \in Snapshot /\ t.pushes \in Nat
    <2>1. Len(t.ctx) \in 1 .. Len(t.ctx)  BY Lengths
    <2> QED  BY <2>1, Parts, Lengths, Elements
  <1>2. /\ k \in Seq(Snapshot) /\ Len(k) = Len(t.ctx) + 1 /\ k[Len(t.ctx) + 1] = t.ctx[Len(t.ctx)]
        /\ \A i \in 1 .. Len(t.ctx) : k[i] = t.ctx[i]
    BY <1>1, OneMore
  <1>3. /\ a \in Seq(Nat) /\ Len(a) = Len(t.activeControl) + 1
        /\ a[Len(t.activeControl) + 1] = Len(t.active)
        /\ \A i \in 1 .. Len(t.activeControl) : a[i] = t.activeControl[i]
    BY <1>1, OneMore
  <1>4. /\ c \in Seq(Var) /\ Len(c) = Len(t.acts) + 1 /\ c[Len(t.acts) + 1] = x
        /\ \A i \in 1 .. Len(t.acts) : c[i] = t.acts[i]
    <2> HIDE DEF x
    <2>1. x \in Var  BY DEF x
    <2>2. c = Append(t.acts, x)  BY DEF x
    <2> HIDE DEF c
    <2> QED  BY <2>1, <2>2, <1>1, OneMore
  <1>5. u = [n EXCEPT !.acts = Append(@, Len(n.info)), !.pushes = @ + 1]
    <2>1. [PushCtx(t) EXCEPT !.activeControl = Append(@, Len(t.active))] = w
      BY DEF PushCtx, Top, State
    <2> HIDE DEF w
    <2> QED  BY <2>1, Zenon DEF push
  <1> HIDE DEF k, a, c
  <1>6. w \in State /\ w.ctx = k /\ w.activeControl = a /\ w.info = t.info
    BY <1>2, <1>3 DEF State
  <1>7. /\ w.active = t.active /\ w.acts = t.acts /\ w.pushes = t.pushes
        /\ SameTrail(t, w) /\ SameWork(t, w) /\ w.satLiterals = t.satLiterals
    BY DEF State, SameTrail, SameWork
  <1> HIDE DEF w
  <1> DEFINE Added(z, b) == /\ z \in State /\ Extends(w, z, Len(w.activeControl), b)
                            /\ SameTrail(w, z) /\ SameWork(w, z)
                            /\ z.activeControl = w.activeControl /\ z.acts = w.acts /\ z.pushes = w.pushes
                            /\ z.ctx = w.ctx /\ z.satLiterals = w.satLiterals
  <1>8. \E b \in BOOLEAN : ~b /\ Added(n, b)
    <2>1. Len(w.info) + 1 \in Var  BY <1>6
    <2>2. \A b \in BOOLEAN : Added(add_new_var(w, b), b)  BY <1>6, <2>1, AddNewVarFields
    <2> HIDE DEF Added
    <2> QED  BY <2>2, Zenon
  <1> HIDE DEF n
  <1>9. PICK b \in BOOLEAN : ~b /\ Added(n, b)  BY <1>8
  <1>10. Len(n.info) = x /\ n.acts = t.acts /\ n \in State /\ n.pushes = t.pushes
    BY <1>6, <1>7, <1>9 DEF Extends
  <1>11. u = [n EXCEPT !.acts = c, !.pushes = t.pushes + 1]
    <2>1. Append(n.acts, Len(n.info)) = c  BY <1>10 DEF c
    <2> QED  BY <2>1, <1>5, <1>10
  <1>12. u \in State /\ u.acts = c /\ u.pushes = t.pushes + 1
    <2>1. t.pushes + 1 \in Nat  BY <1>1
    <2> QED  BY <2>1, <1>4, <1>10, <1>11, ZenonT(60) DEF State
  <1>13. /\ SameTrail(n, u) /\ SameWork(n, u) /\ u.satLiterals = n.satLiterals /\ u.info = n.info
         /\ u.active = n.active /\ u.activeControl = n.activeControl /\ u.ctx = n.ctx
    BY <1>10, <1>11 DEF State, SameTrail, SameWork
  <1>14. SameTrail(t, u) /\ SameWork(t, u) /\ u.satLiterals = t.satLiterals
    BY <1>7, <1>9, <1>13 DEF SameTrail, SameWork
  <1>15. Extends(t, u, Len(t.activeControl) + 1, b)
    <2>1. Extends(w, n, Len(w.activeControl), b) /\ Len(w.activeControl) = Len(t.activeControl) + 1
      BY <1>3, <1>6, <1>9
    <2> QED  BY <2>1, <1>6, <1>7, <1>13 DEF Extends
  <1>16. u.activeControl = a /\ u.ctx = k  BY <1>6, <1>9, <1>13
  <1> HIDE DEF Added
  <1> QED  BY <1>2, <1>3, <1>4, <1>9, <1>12, <1>14, <1>15, <1>16 DEF Pushes, x

(* The activation literal is of the new level.                             *)
LEMMA PushesMarks ==
    ASSUME NEW t, Good(t), NEW u, Pushes(t, u)
    PROVE  Marks(u)
  <1>0. t \in State /\ Levels(t) /\ Marks(t) /\ u \in State  BY DEF Good, Sized, Pushes
  <1> DEFINE n == Len(t.info) + 1
             m == Len(t.active)
             l == Len(t.activeControl)
             x == u.info[n]
  <1>1. l \in Nat /\ m \in Nat /\ Len(t.acts) = l  BY <1>0, Lengths DEF Levels
  <1>2. PICK b \in BOOLEAN : ~b /\ Extends(t, u, l + 1, b)  BY DEF Pushes
  <1>3. /\ \A v \in 1 .. Len(u.info) : v \in 1 .. Len(t.info) \/ v = n
        /\ \A v \in 1 .. Len(t.info) : v \in 1 .. Len(u.info) /\ u.info[v] = t.info[v]
        /\ x.intro = l + 1 /\ x.active
        /\ \A v, k : LiveAt(t, v, k) => LiveAt(u, v, k)
        /\ LiveAt(u, n, l + 1)
        /\ \A j \in 1 .. Len(u.active) : j \in 1 .. m \/ j = m + 1
        /\ \A j \in 1 .. m : j \in 1 .. Len(u.active) /\ u.active[j] = t.active[j]
        /\ m + 1 \in 1 .. Len(u.active) /\ u.active[m + 1] = n
    <2> DEFINE h == l + 1
    <2>1. h \in Nat /\ Extends(t, u, h, b)  BY <1>1, <1>2
    <2> HIDE DEF h
    <2>2. /\ \A v \in 1 .. Len(u.info) : v \in 1 .. Len(t.info) \/ v = n
          /\ \A v \in 1 .. Len(t.info) : v \in 1 .. Len(u.info) /\ u.info[v] = t.info[v]
          /\ x.intro = h /\ x.active
          /\ \A v, k : LiveAt(t, v, k) => LiveAt(u, v, k)
          /\ LiveAt(u, n, h)
          /\ \A j \in 1 .. Len(u.active) : j \in 1 .. m \/ j = m + 1
          /\ \A j \in 1 .. m : j \in 1 .. Len(u.active) /\ u.active[j] = t.active[j]
          /\ m + 1 \in 1 .. Len(u.active) /\ u.active[m + 1] = n
      BY <1>0, <1>2, <2>1, ExtendsFacts
    <2> QED  BY <2>2 DEF h
  <1>4. \A j \in 1 .. m : /\ t.active[j] \in 1 .. Len(t.info) /\ t.info[t.active[j]].intro \in Nat
                          /\ t.info[t.active[j]].intro <= l
    BY <1>0, Elements DEF Marks, LiveAt
  <1>5. /\ Len(u.activeControl) = l + 1 /\ u.activeControl[l + 1] = m
        /\ \A k \in 1 .. l : u.activeControl[k] = t.activeControl[k]
        /\ Len(u.acts) = l + 1 /\ u.acts[l + 1] = n /\ \A k \in 1 .. l : u.acts[k] = t.acts[k]
    BY <1>1 DEF Pushes
  <1>6. \A k \in 1 .. l :
           /\ t.activeControl[k] \in Nat /\ t.activeControl[k] <= m
           /\ \A j \in 1 .. m : j <= t.activeControl[k] <=> t.info[t.active[j]].intro < k
    BY <1>0, Elements DEF Marks
  <1>7. \A k \in 1 .. l : LiveAt(t, t.acts[k], k) /\ t.info[t.acts[k]].intro = k
    BY <1>0, <1>1 DEF Marks
  <1>8. Len(u.active) = m + 1  BY <1>2 DEF Extends
  <1>9. \A j \in 1 .. m : LiveAt(t, t.active[j], l)  BY <1>0 DEF Marks
  <1>10. \A v \in 1 .. Len(t.info) : t.info[v].active => \E j \in 1 .. m : t.active[j] = v
    BY <1>0 DEF Marks
  <1> HIDE DEF n, x, m, l
  <1>11. \A k \in 1 .. l + 1 : k \in 1 .. l \/ k = l + 1  BY <1>1
  <1>12. ASSUME NEW v \in 1 .. Len(u.info), u.info[v].active
         PROVE  \E j \in 1 .. Len(u.active) : u.active[j] = v
    <2>1. CASE v = n  BY <1>3, <2>1
    <2>2. CASE v \in 1 .. Len(t.info)
      <3>1. u.info[v] = t.info[v]  BY <1>3, <2>2
      <3>2. PICK j \in 1 .. m : t.active[j] = v  BY <1>10, <1>12, <2>2, <3>1
      <3> QED  BY <3>2, <1>3
    <2> QED  BY <1>3, <2>1, <2>2
  <1>13. ASSUME NEW j \in 1 .. Len(u.active)  PROVE LiveAt(u, u.active[j], l + 1)
    <2>1. CASE j = m + 1  BY <1>3, <2>1
    <2>2. CASE j \in 1 .. m
      <3>1. LiveAt(t, t.active[j], l + 1)  BY <2>2, <1>1, <1>4, <1>9, SMTT(30) DEF LiveAt
      <3> QED  BY <3>1, <2>2, <1>3
    <2> QED  BY <1>3, <2>1, <2>2
  <1>14. ASSUME NEW k \in 1 .. l + 1
         PROVE  /\ u.activeControl[k] <= Len(u.active)
                /\ \A j \in 1 .. Len(u.active) : j <= u.activeControl[k] <=> u.info[u.active[j]].intro < k
    <2>1. \A j \in 1 .. m : u.info[u.active[j]].intro = t.info[t.active[j]].intro  BY <1>3, <1>4
    <2>2. u.info[u.active[m + 1]].intro = l + 1  BY <1>3 DEF x
    <2>3. CASE k \in 1 .. l
      <3>1. u.activeControl[k] = t.activeControl[k] /\ t.activeControl[k] <= m + 1
            /\ ~(m + 1 <= t.activeControl[k]) /\ ~(l + 1 < k)
        BY <2>3, <1>1, <1>5, <1>6
      <3> QED  BY <3>1, <2>1, <2>2, <2>3, <1>3, <1>6, <1>8, SMTT(30)
    <2>4. CASE k = l + 1
      <3>1. u.activeControl[k] = m /\ m <= m + 1 /\ ~(m + 1 <= m) /\ ~(l + 1 < k)  BY <2>4, <1>1, <1>5
      <3>2. \A j \in 1 .. m : j <= m /\ t.info[t.active[j]].intro < k  BY <2>4, <1>1, <1>4
      <3> QED  BY <3>1, <3>2, <2>1, <2>2, <1>3, <1>8
    <2> QED  BY <2>3, <2>4, <1>11
  <1>15. ASSUME NEW k \in 1 .. l + 1
         PROVE  LiveAt(u, u.acts[k], k) /\ u.info[u.acts[k]].intro = k
    <2>1. CASE k \in 1 .. l
      <3>1. LiveAt(t, t.acts[k], k) /\ t.info[t.acts[k]].intro = k /\ u.acts[k] = t.acts[k]
        BY <2>1, <1>5, <1>7
      <3>2. t.acts[k] \in 1 .. Len(t.info)  BY <3>1 DEF LiveAt
      <3>3. u.info[t.acts[k]] = t.info[t.acts[k]] /\ LiveAt(u, t.acts[k], k)  BY <3>1, <3>2, <1>3
      <3> QED  BY <3>1, <3>3
    <2>2. CASE k = l + 1  BY <2>2, <1>3, <1>5 DEF x
    <2> QED  BY <2>1, <2>2, <1>11
  <1> QED  BY <1>5, <1>12, <1>13, <1>14, <1>15 DEF Marks

(* The new user level repeats the last context.                            *)
LEMMA PushesGood ==
    ASSUME NEW t, Good(t), Len(t.decisions) = 0, t.pushes < MaxPushes, NEW u, Pushes(t, u)
    PROVE  Good(u)
  <1>0. /\ t \in State /\ Sized(t) /\ Levels(t) /\ Marks(t) /\ Recorded(t) /\ FixedOK(t) /\ Contexts(t)
        /\ Preregistered(t) /\ Renotified(t) /\ Inferences(t) /\ AssertsOK(t)
    BY DEF Good, Sized
  <1> DEFINE l == Len(t.ctx)
             a == Len(t.activeControl)
             n == Len(t.info) + 1
             h == a + 1
  <1>1. l \in Nat /\ a \in Nat /\ l \in 1 .. l /\ l = a + 1 /\ Len(t.info) \in Nat /\ h \in Nat
        /\ Len(t.control) = 0 /\ Len(t.acts) = a /\ t.pushes \in Nat
    <2>1. Len(t.control) = 0  BY <1>0 DEF Levels
    <2>2. l = a + 1 + Len(t.control)  BY <1>0, LevelNumbers
    <2>3. l \in Nat /\ a \in Nat /\ l \in 1 .. l  BY <1>0, Lengths, LevelNumbers
    <2>4. Len(t.info) \in Nat /\ Len(t.acts) = a /\ t.pushes \in Nat  BY <1>0, Lengths DEF Levels
    <2> QED  BY <2>1, <2>2, <2>3, <2>4
  <1>2. /\ u \in State /\ SameTrail(t, u) /\ SameWork(t, u) /\ u.satLiterals = t.satLiterals
        /\ Len(u.activeControl) = h /\ Len(u.acts) = h /\ u.pushes = t.pushes + 1
        /\ u.acts[h] = n /\ \A k \in 1 .. a : u.acts[k] = t.acts[k]
        /\ Len(u.ctx) = l + 1 /\ u.ctx[l + 1] = t.ctx[l] /\ \A i \in 1 .. l : u.ctx[i] = t.ctx[i]
    BY <1>1 DEF Pushes
  <1>3. PICK b \in BOOLEAN : ~b /\ Extends(t, u, h, b)  BY DEF Pushes
  <1>4. /\ u.assignments = t.assignments /\ u.control = t.control /\ u.decisions = t.decisions
        /\ u.renotify = t.renotify /\ u.propagations = t.propagations /\ u.newClauses = t.newClauses
        /\ u.root = t.root /\ u.asserts = t.asserts
    BY <1>2 DEF SameTrail, SameWork
  <1>5. Marks(u)  BY PushesMarks
  <1>6. Recorded(u) /\ Segments(u) /\ FixedOK(u)
    <2> HIDE DEF h
    <2> QED  BY <1>1, <1>2, <1>3, ExtendsTrail
  <1>7. /\ \A v \in 1 .. Len(u.info) : v \in 1 .. Len(t.info) \/ v = n
        /\ \A v \in 1 .. Len(t.info) : v \in 1 .. Len(u.info) /\ u.info[v] = t.info[v]
        /\ n \notin 1 .. Len(t.info)
        /\ ~u.info[n].atom /\ ~u.info[n].fixed
        /\ \A v, k : LiveAt(t, v, k) => LiveAt(u, v, k)
    <2>1. h \in Nat /\ Extends(t, u, h, b) /\ u \in State  BY <1>1, <1>2, <1>3
    <2> HIDE DEF h
    <2>2. /\ \A v \in 1 .. Len(u.info) : v \in 1 .. Len(t.info) \/ v = n
          /\ \A v \in 1 .. Len(t.info) : v \in 1 .. Len(u.info) /\ u.info[v] = t.info[v]
          /\ n \notin 1 .. Len(t.info)
          /\ u.info[n].atom = b /\ ~u.info[n].fixed
          /\ \A v, k : LiveAt(t, v, k) => LiveAt(u, v, k)
      BY <2>1, <1>0, ExtendsFacts
    <2> QED  BY <2>2, <1>3
  <1>8. Clauses(u)
    <2> HIDE DEF h, n
    <2>1. \A k \in 1 .. h : k \in 1 .. a \/ k = h  BY <1>1 DEF h
    <2>2. \A k \in 1 .. h : u.acts[k] \in 1 .. Len(t.info) => k \in 1 .. a /\ u.acts[k] = t.acts[k]
      BY <2>1, <1>2, <1>7
    <2> QED  BY <2>2, <1>1, <1>2, <1>3, <1>4, ExtendsClauses
  <1>9. Sized(u)
    <2> DEFINE m == Len(t.info)
    <2>1. m \in Nat /\ m <= MaxLiterals + t.pushes /\ Len(u.info) = m + 1
      BY <1>0, <1>1, <1>3 DEF Sized, Extends
    <2> HIDE DEF m
    <2>2. m + 1 <= MaxLiterals + (t.pushes + 1) /\ t.pushes + 1 <= MaxPushes
      BY <2>1, <1>1, BoundsAssumption
    <2> QED  BY <2>1, <2>2, <1>2 DEF Sized
  <1>10. Inferences(u)  BY <1>0, <1>4 DEF Inferences
  <1>11. Sent(u)
    <2>1. \A j \in 1 .. Len(u.assignments) : u.info[u.assignments[j]].fixed
      <3>1. ~(Len(u.control) > 0)  BY <1>1, <1>4
      <3> QED  BY <3>1, <1>6 DEF FixedOK
    <2> QED  BY <2>1 DEF Sent
  <1>12. \A j \in 1 .. Len(t.satLiterals) :
            /\ t.satLiterals[j][2] <= l /\ t.satLiterals[j][2] \in Nat
            /\ LiveAt(t, t.satLiterals[j][1], a)
    BY <1>0, Elements DEF Contexts
  <1> HIDE DEF l, a, n, h
  <1>13. h = a + 1  BY DEF h
  <1>14. Levels(u)
    <2>1. l + 1 = 1 + h + 0  BY <1>1, <1>13
    <2> QED  BY <2>1, <1>1, <1>2, <1>4 DEF Levels
  <1>15. \A v, k : LiveAt(t, v, k) /\ k \in Nat => LiveAt(u, v, k + 1)
    <2>1. ASSUME NEW v, NEW k \in Nat, LiveAt(t, v, k)  PROVE LiveAt(t, v, k + 1)
      <3>1. t.info[v].intro \in Nat /\ t.info[v].intro <= k  BY <2>1, <1>0, Elements DEF LiveAt
      <3> QED  BY <3>1, <2>1 DEF LiveAt
    <2> QED  BY <2>1, <1>7
  <1>16. \A i \in 1 .. l + 1 : i \in 1 .. l \/ i = l + 1  BY <1>1
  <1>17. Contexts(u)
    <2>1. ASSUME NEW i \in 1 .. l + 1, NEW v \in u.ctx[i].queue \cup u.ctx[i].prereg
          PROVE  LiveAt(u, v, i - 1)
      <3>1. CASE i \in 1 .. l
        <4>1. LiveAt(t, v, i - 1)  BY <3>1, <1>0, <1>2 DEF Contexts, l
        <4> QED  BY <4>1, <1>7
      <3>2. CASE i = l + 1
        <4>1. LiveAt(t, v, l - 1)  BY <3>2, <1>0, <1>1, <1>2 DEF Contexts, l
        <4>2. l - 1 \in Nat /\ (l - 1) + 1 = i - 1  BY <3>2, <1>1
        <4> QED  BY <4>1, <4>2, <1>15
      <3> QED  BY <3>1, <3>2, <1>16
    <2>2. \A j \in 1 .. Len(t.satLiterals) :
             LiveAt(u, t.satLiterals[j][1], h) /\ t.satLiterals[j][2] <= l + 1
      <3>1. \A j \in 1 .. Len(t.satLiterals) : LiveAt(u, t.satLiterals[j][1], a + 1)
        BY <1>1, <1>12, <1>15
      <3> QED  BY <3>1, <1>1, <1>12, <1>13
    <2>3. \A j, k \in 1 .. Len(t.satLiterals) : j <= k => t.satLiterals[j][2] <= t.satLiterals[k][2]
      BY <1>0 DEF Contexts
    <2> QED  BY <2>1, <2>2, <2>3, <1>2 DEF Contexts
  <1>18. Preregistered(u)
    <2> SUFFICES ASSUME NEW v \in 1 .. Len(u.info), NEW i \in 1 .. l + 1,
                        u.info[v].active, u.info[v].atom, u.info[v].intro < i
                 PROVE  v \in u.ctx[i].prereg
      BY <1>2 DEF Preregistered
    <2>1. v \in 1 .. Len(t.info) /\ u.info[v] = t.info[v]  BY <1>7
    <2>2. v \in t.ctx[l].prereg  BY <2>1, PreregisteredNow DEF l
    <2>3. CASE i = l + 1  BY <2>2, <2>3, <1>2
    <2>4. CASE i = l  BY <2>2, <2>4, <1>1, <1>2
    <2>5. CASE i \in 1 .. l /\ i # l
      <3>1. ~(i > a)  BY <2>5, <1>1
      <3>2. v \in t.ctx[i].prereg \/ Waits(t, v, i)  BY <2>1, <2>5, <1>0 DEF Preregistered, l
      <3>3. v \in t.ctx[i].prereg  BY <3>1, <3>2 DEF Waits, a
      <3> QED  BY <3>3, <2>5, <1>2
    <2> QED  BY <2>3, <2>4, <2>5, <1>16
  <1>19. Renotified(u)
    <2>1. \A j \in 1 .. Len(t.renotify) :
             /\ t.renotify[j] \in 1 .. Len(t.info)
             /\ t.info[t.renotify[j]].active /\ t.info[t.renotify[j]].fixed
      BY <1>0 DEF Renotified
    <2>2. \A j \in 1 .. Len(t.renotify) :
             /\ t.renotify[j] \in 1 .. Len(u.info)
             /\ u.info[t.renotify[j]].active /\ u.info[t.renotify[j]].fixed
      BY <2>1, <1>7
    <2>3. ASSUME ~FixAnywhere, NEW v \in 1 .. Len(u.info),
                 u.info[v].active, u.info[v].atom, u.info[v].fixed
          PROVE  \/ Again(u, v)
                 \/ /\ u.info[v].fixedAt <= h
                    /\ \A i \in 1 .. l + 1 : i > u.info[v].fixedAt => v \in u.ctx[i].queue
      <3>1. v \in 1 .. Len(t.info) /\ u.info[v] = t.info[v]  BY <2>3, <1>7
      <3>2. Again(t, v) => Again(u, v)  BY <1>4 DEF Again
      <3>3. \/ Again(t, v)
            \/ /\ t.info[v].fixedAt <= a
               /\ \A i \in 1 .. l : i > t.info[v].fixedAt => v \in t.ctx[i].queue
        BY <3>1, <2>3, <1>0 DEF Renotified, l, a
      <3>4. t.info[v].fixedAt \in Nat  BY <3>1, <1>0, Elements
      <3>5. t.info[v].fixedAt <= a => l > t.info[v].fixedAt /\ t.info[v].fixedAt <= h
        BY <3>4, <1>1, <1>13
      <3> QED  BY <3>1, <3>2, <3>3, <3>5, <1>1, <1>2, <1>16
    <2> QED  BY <2>2, <2>3, <1>2, <1>4 DEF Renotified
  <1>20. AssertsOK(u)  BY <1>0, <1>4 DEF AssertsOK
  <1> QED
    BY <1>5, <1>6, <1>8, <1>9, <1>10, <1>11, <1>14, <1>17, <1>18, <1>19, <1>20 DEF Good

LEMMA PushStep ==
    ASSUME IInv, Push
    PROVE  IInv'
  <1>1. /\ Good(s) /\ Trail(s, cad) /\ Stage /\ pc = "idle" /\ s.pushes < MaxPushes
        /\ s' = push(s) /\ pc' = pc /\ cad' = Extended(cad, s')
    BY DEF IInv, Push
  <1>2. s \in State /\ Sized(s) /\ Levels(s) /\ Len(s.decisions) = 0  BY <1>1 DEF Good, Sized, Stage
  <1>3. Len(s.ctx) > 0  BY <1>2, LevelNumbers
  <1>4. Len(s.info) + 1 \in Var
    <2> DEFINE m == Len(s.info)
    <2>1. m \in Nat /\ m <= MaxLiterals + s.pushes /\ s.pushes \in Nat  BY <1>2, Lengths DEF Sized
    <2> HIDE DEF m
    <2>2. m + 1 \in Var  BY <2>1, <1>1, BoundsAssumption DEF Var
    <2> QED  BY <2>2 DEF m
  <1>5. Pushes(s, s')  BY <1>1, <1>2, <1>3, <1>4, PushFields
  <1>6. Good(s')  BY <1>1, <1>2, <1>5, PushesGood
  <1>7. ~s.found  BY <1>2, IdleNotFound
  <1>8. ~s'.found /\ s'.decisions = s.decisions /\ SameTrail(s, s') /\ s' \in State
    BY <1>5, <1>7 DEF Pushes, SameTrail, SameWork
  <1>9. Trail(s', cad')
    <2> DEFINE m == Len(s.info)
    <2>1. PICK b \in BOOLEAN : Extends(s, s', Len(s.activeControl) + 1, b)  BY <1>5 DEF Pushes
    <2>2. m \in Nat /\ Len(s'.info) = m + 1 /\ s'.info[m + 1] = Fresh(Len(s.activeControl) + 1, b)
          /\ \A v \in 1 .. m : s'.info[v] = s.info[v]
      BY <2>1, <1>2, Lengths DEF Extends
    <2> HIDE DEF m
    <2>3. \A v \in m + 1 .. m + 1 : v = m + 1  BY <2>2
    <2>4. ~s'.info[m + 1].assigned /\ ~s'.info[m + 1].fixed  BY <2>2 DEF Fresh
    <2>5. m + 1 >= m  BY <2>2
    <2> QED  BY <2>2, <2>3, <2>4, <2>5, <1>1, <1>8, ExtendedTrail DEF m
  <1>10. Stage'  BY <1>1, <1>2, <1>8 DEF Stage
  <1> QED  BY <1>6, <1>8, <1>9, <1>10 DEF IInv, FoundOK

(* u is t without its last user level, but for the contexts.               *)
PopsUser(t, u) ==
    LET a == Len(t.activeControl) IN
    /\ u \in State /\ u.control = t.control /\ u.decisions = t.decisions /\ u.pushes = t.pushes
    /\ u.propagations = t.propagations /\ u.newClauses = t.newClauses /\ u.found = t.found
    /\ u.asserts = t.asserts /\ u.root \subseteq t.root
    /\ Len(u.info) = Len(t.info)
    /\ \A v \in 1 .. Len(t.info) :
          /\ u.info[v].intro = t.info[v].intro /\ u.info[v].fixedAt = t.info[v].fixedAt
          /\ u.info[v].assigned = t.info[v].assigned /\ u.info[v].atom = t.info[v].atom
          /\ u.info[v].fixed = t.info[v].fixed
          /\ u.info[v].active <=> t.info[v].active /\ t.info[v].intro < a
    /\ Len(u.activeControl) = a - 1 /\ \A k \in 1 .. a - 1 : u.activeControl[k] = t.activeControl[k]
    /\ Len(u.acts) = a - 1 /\ \A k \in 1 .. a - 1 : u.acts[k] = t.acts[k]
    /\ Len(u.active) = t.activeControl[a]
    /\ \A j \in 1 .. t.activeControl[a] : u.active[j] = t.active[j]
    /\ \A x : Holds(u.assignments, x) <=> Holds(t.assignments, x)
    /\ \A x : Holds(u.renotify, x) <=>
          Holds(t.renotify, x) \/ (Holds(t.assignments, x) /\ t.info[x].atom /\ t.info[x].fixedAt > a - 1)

(* A sequence that holds nothing is empty.                                 *)
LEMMA HoldsNothing ==
    ASSUME NEW S, NEW q \in Seq(S), \A x : ~Holds(q, x)
    PROVE  q = <<>>
  <1> DEFINE n == Len(q)
  <1>1. n \in Nat  BY LenProperties
  <1>2. ~Holds(q, q[1])  OBVIOUS
  <1>3. 1 \notin 1 .. n  BY <1>2 DEF Holds
  <1> HIDE DEF n
  <1>4. n = 0  BY <1>1, <1>3
  <1> QED  BY <1>4, EmptySeq DEF n

(* Two sequences hold what the one or the other holds.                     *)
LEMMA HoldsConcat ==
    ASSUME NEW S, NEW q \in Seq(S), NEW r \in Seq(S)
    PROVE  q \o r \in Seq(S) /\ \A x : Holds(q \o r, x) <=> Holds(q, x) \/ Holds(r, x)
  <1> DEFINE n == Len(q)
             m == Len(r)
             c == q \o r
  <1>1. n \in Nat /\ m \in Nat  BY LenProperties
  <1>2. /\ c \in Seq(S) /\ Len(c) = n + m
        /\ \A i \in 1 .. n + m : c[i] = IF i <= n THEN q[i] ELSE r[i - n]
    BY ConcatProperties
  <1>3. \A x : Holds(q, x) <=> \E i \in 1 .. n : q[i] = x  BY DEF Holds
  <1>4. \A x : Holds(r, x) <=> \E i \in 1 .. m : r[i] = x  BY DEF Holds
  <1>5. \A x : Holds(c, x) <=> \E i \in 1 .. n + m : c[i] = x
    <2> HIDE DEF c, n, m
    <2> QED  BY <1>2 DEF Holds
  <1> HIDE DEF n, m, c
  <1>6. \A i \in 1 .. n : i \in 1 .. n + m /\ i <= n  BY <1>1
  <1>7. \A i \in 1 .. m : n + i \in 1 .. n + m /\ ~(n + i <= n) /\ (n + i) - n = i  BY <1>1
  <1>8. \A i \in 1 .. n + m : (i <= n => i \in 1 .. n) /\ (~(i <= n) => i - n \in 1 .. m)  BY <1>1
  <1>9. ASSUME NEW x  PROVE Holds(c, x) <=> Holds(q, x) \/ Holds(r, x)
    <2>1. Holds(q, x) => Holds(c, x)  BY <1>2, <1>3, <1>5, <1>6
    <2>2. Holds(r, x) => Holds(c, x)
      <3> SUFFICES ASSUME NEW i \in 1 .. m, r[i] = x  PROVE Holds(c, x)  BY <1>4
      <3>1. c[n + i] = x /\ n + i \in 1 .. n + m  BY <1>2, <1>7
      <3> QED  BY <3>1, <1>5
    <2>3. ASSUME NEW i \in 1 .. n + m, c[i] = x  PROVE Holds(q, x) \/ Holds(r, x)
      <3>1. CASE i <= n  BY <3>1, <2>3, <1>2, <1>3, <1>8
      <3>2. CASE ~(i <= n)
        <4>1. r[i - n] = x /\ i - n \in 1 .. m  BY <3>2, <2>3, <1>2, <1>8
        <4> QED  BY <4>1, <1>4
      <3> QED  BY <3>1, <3>2
    <2> QED  BY <2>1, <2>2, <2>3, <1>5
  <1> QED  BY <1>2, <1>9 DEF c

(* t with the fields replaced that user_pop changes.                       *)
Replaced(t, R, C, A, X, I, L, N, b) ==
    [t EXCEPT !.root = R, !.activeControl = C, !.acts = A, !.active = X, !.info = I,
              !.assignments = L, !.renotify = N, !.asserts = b]

(* u is t but for those fields.                                            *)
Replaces(t, u, R, C, A, X, I, L, N, b) ==
    /\ u \in State /\ u.root = R /\ u.activeControl = C /\ u.acts = A /\ u.active = X
    /\ u.info = I /\ u.assignments = L /\ u.renotify = N /\ u.asserts = b
    /\ u.control = t.control /\ u.decisions = t.decisions /\ u.pushes = t.pushes
    /\ u.propagations = t.propagations /\ u.newClauses = t.newClauses /\ u.found = t.found
    /\ u.ctx = t.ctx /\ u.satLiterals = t.satLiterals

LEMMA ReplacedFields ==
    ASSUME NEW t \in State, NEW R \in SUBSET Var, NEW C \in Seq(Nat), NEW A \in Seq(Var),
           NEW X \in Seq(Var), NEW I \in Seq(VarInfo), NEW L \in Seq(Var), NEW N \in Seq(Var),
           NEW b \in BOOLEAN
    PROVE  Replaces(t, Replaced(t, R, C, A, X, I, L, N, b), R, C, A, X, I, L, N, b)
  <1> DEFINE u == Replaced(t, R, C, A, X, I, L, N, b)
  <1>1. u \in State  BY DEF State, Replaced
  <1>2. /\ u.root = R /\ u.activeControl = C /\ u.acts = A /\ u.active = X
        /\ u.info = I /\ u.assignments = L /\ u.renotify = N /\ u.asserts = b
        /\ u.control = t.control /\ u.decisions = t.decisions /\ u.pushes = t.pushes
        /\ u.propagations = t.propagations /\ u.newClauses = t.newClauses /\ u.found = t.found
        /\ u.ctx = t.ctx /\ u.satLiterals = t.satLiterals
    BY DEF State, Replaced
  <1> HIDE DEF u
  <1>3. Replaces(t, u, R, C, A, X, I, L, N, b)  BY <1>1, <1>2 DEF Replaces
  <1> QED  BY <1>3 DEF u

(* user_pop: its assertions hold, and no fixed literal is lost.            *)
LEMMA UserPopFields ==
    ASSUME NEW t \in State, Marks(t), Recorded(t), FixedOK(t), Len(t.control) = 0,
           Len(t.decisions) = 0, Len(t.activeControl) > 0, Len(t.acts) = Len(t.activeControl),
           NEW u, u = user_pop(t)
    PROVE  PopsUser(t, u) /\ u.ctx = t.ctx /\ u.satLiterals = t.satLiterals
  <1> DEFINE a == Len(t.activeControl)
             m == Len(t.info)
             n == Len(t.active)
             level == a - 1
             popTo == t.activeControl[a]
             popped == After(t.active, popTo)
             kept == {v \in Range(popped) : /\ t.info[v].fixed
                                            /\ t.info[v].atom
                                            /\ t.info[v].intro <= level}
             gone == Range(popped) \ kept
             left == Only(t.assignments, Active(t) \ gone)
             late == {v \in Range(left) : t.info[v].atom /\ t.info[v].fixedAt > level}
             R == t.root \ gone
             C == Upto(t.activeControl, level)
             A == Upto(t.acts, level)
             X == Upto(t.active, popTo) \o Only(popped, kept)
             I == [v \in DOMAIN t.info |->
                      IF v \in gone THEN [t.info[v] EXCEPT !.active = FALSE] ELSE t.info[v]]
             N == t.renotify \o Only(left, late)
             b == /\ t.asserts
                  /\ \A v \in gone : t.info[v].intro > level
                  /\ t.decisions = <<>> /\ t.control = <<>>
                  /\ \A v \in Range(t.assignments) : t.info[v].fixed
  <1>1. u = Replaced(t, R, C, A, X, I, left, N, b)  BY Zenon DEF user_pop, UserLevel, Replaced
  <1>2. /\ a \in Nat /\ m \in Nat /\ n \in Nat /\ a > 0 /\ DOMAIN t.info = 1 .. m
        /\ t.active \in Seq(Var) /\ t.activeControl \in Seq(Nat) /\ t.acts \in Seq(Var)
        /\ t.assignments \in Seq(Var) /\ t.renotify \in Seq(Var) /\ t.root \subseteq Var
        /\ t.asserts \in BOOLEAN
    BY Lengths, Parts
  <1>3. t.decisions = <<>> /\ t.control = <<>>
    <2>1. t.decisions \in Seq(Var \cup {NoVar}) /\ t.control \in Seq(Nat)  BY Parts
    <2> QED  BY <2>1, EmptySeq
  <1>4. /\ \A k \in 1 .. a : /\ t.activeControl[k] <= n /\ t.activeControl[k] \in Nat
                             /\ \A j \in 1 .. n : j <= t.activeControl[k] <=> t.info[t.active[j]].intro < k
        /\ \A j \in 1 .. n : LiveAt(t, t.active[j], a)
        /\ \A v \in 1 .. m : t.info[v].active => \E j \in 1 .. n : t.active[j] = v
    BY Elements DEF Marks
  <1>5. \A v \in 1 .. m : t.info[v].intro \in Nat /\ t.info[v] \in VarInfo  BY Elements
  <1>6. Len(t.acts) = a  OBVIOUS
  <1>7. \A v : v \in Active(t) <=> v \in 1 .. m /\ t.info[v].active  BY <1>2 DEF Active, Vars
  <1>8. \A v : Holds(t.assignments, v) => v \in 1 .. m /\ t.info[v].active /\ t.info[v].fixed
                                         /\ t.info[v].intro = 0
    <2>1. ~(Len(t.control) > 0)  OBVIOUS
    <2>2. \A j \in 1 .. Len(t.assignments) :
             t.assignments[j] \in 1 .. m /\ t.info[t.assignments[j]].active /\ t.info[t.assignments[j]].fixed
      BY <2>1 DEF Recorded, FixedOK
    <2>3. \A v \in 1 .. m : t.info[v].fixed => t.info[v].intro = 0  BY DEF FixedOK
    <2> QED  BY <2>2, <2>3 DEF Holds
  <1> HIDE DEF a, m, n
  <1>9. level \in Nat /\ a \in 1 .. a /\ level \in 0 .. a  BY <1>2
  <1>10. popTo \in 0 .. n  BY <1>2, <1>4, <1>9
  <1> HIDE DEF popTo, level
  <1>11. /\ popped \in Seq(Var) /\ Len(popped) = n - popTo
         /\ \A i \in 1 .. n - popTo : popped[i] = t.active[popTo + i]
    BY <1>2, <1>10, AfterElements DEF n
  <1>12. \A v : v \in Range(popped) <=> v \in 1 .. m /\ t.info[v].active /\ ~(t.info[v].intro < a)
    <2>1. \A v : v \in Range(popped) <=> \E i \in 1 .. n - popTo : t.active[popTo + i] = v
      <3> HIDE DEF popped
      <3> QED  BY <1>11, RangeElements
    <2>2. \A i \in 1 .. n - popTo : popTo + i \in 1 .. n /\ ~(popTo + i <= popTo)  BY <1>2, <1>10
    <2>3. \A j \in 1 .. n : ~(j <= popTo) => j - popTo \in 1 .. n - popTo /\ popTo + (j - popTo) = j
      BY <1>2, <1>10
    <2>4. \A j \in 1 .. n : j <= popTo <=> t.info[t.active[j]].intro < a  BY <1>4, <1>9 DEF popTo
    <2> HIDE DEF popped
    <2>5. ASSUME NEW v, v \in Range(popped)
          PROVE  v \in 1 .. m /\ t.info[v].active /\ ~(t.info[v].intro < a)
      <3>1. PICK i \in 1 .. n - popTo : t.active[popTo + i] = v  BY <2>1, <2>5
      <3>2. LiveAt(t, v, a) /\ ~(t.info[v].intro < a)  BY <3>1, <2>2, <2>4, <1>4
      <3> QED  BY <3>2 DEF LiveAt, m
    <2>6. ASSUME NEW v \in 1 .. m, t.info[v].active, ~(t.info[v].intro < a)  PROVE v \in Range(popped)
      <3>1. PICK j \in 1 .. n : t.active[j] = v  BY <2>6, <1>4
      <3>2. ~(j <= popTo)  BY <3>1, <2>4, <2>6
      <3> QED  BY <3>1, <3>2, <2>1, <2>3
    <2> QED  BY <2>5, <2>6
  <1> HIDE DEF popped
  <1>13. kept = {}
    <2>1. \A v \in 1 .. m : t.info[v].intro <= level => t.info[v].intro < a  BY <1>2, <1>5 DEF level
    <2> QED  BY <2>1, <1>12
  <1>14. gone = Range(popped)  BY <1>13
  <1>15. X = Upto(t.active, popTo)
    <2> DEFINE o == Only(popped, kept)
    <2> HIDE DEF kept
    <2>1. o \in Seq(Var) /\ \A x : ~Holds(o, x)  BY <1>11, <1>13, OnlyElements
    <2>2. o = <<>>
      <3> HIDE DEF o
      <3> QED  BY <2>1, HoldsNothing
    <2>3. Upto(t.active, popTo) \in Seq(Var)  BY <1>2, <1>10, UptoElements DEF n
    <2>4. X = Upto(t.active, popTo) \o <<>>  BY <2>2
    <2> QED  BY <2>3, <2>4, ConcatEmptySeq
  <1>16. X \in Seq(Var) /\ Len(X) = popTo /\ \A j \in 1 .. popTo : X[j] = t.active[j]
    <2> HIDE DEF X
    <2> QED  BY <1>2, <1>10, <1>15, UptoElements DEF n
  <1> HIDE DEF X, kept
  <1>17. C \in Seq(Nat) /\ Len(C) = level /\ \A k \in 1 .. level : C[k] = t.activeControl[k]
    BY <1>2, <1>9, UptoElements DEF a
  <1>18. A \in Seq(Var) /\ Len(A) = level /\ \A k \in 1 .. level : A[k] = t.acts[k]
    <2>1. level \in 0 .. Len(t.acts)  BY <1>6, <1>9
    <2> QED  BY <2>1, <1>2, UptoElements
  <1> HIDE DEF gone
  <1>19. \A v : v \in gone <=> v \in 1 .. m /\ t.info[v].active /\ ~(t.info[v].intro < a)  BY <1>12, <1>14
  <1>20. left \in Seq(Var) /\ \A x : Holds(left, x) <=> Holds(t.assignments, x)
    <2>1. \A x : Holds(t.assignments, x) => x \in Active(t) \ gone
      <3>1. 0 < a  BY <1>2
      <3> QED  BY <3>1, <1>7, <1>8, <1>19
    <2>2. left \in Seq(Var) /\ \A x : Holds(left, x) <=> x \in Active(t) \ gone /\ Holds(t.assignments, x)
      BY <1>2, OnlyElements
    <2> QED  BY <2>1, <2>2
  <1> HIDE DEF left
  <1>21. \A x : x \in late <=> Holds(t.assignments, x) /\ t.info[x].atom /\ t.info[x].fixedAt > level
    <2>1. \A x : x \in Range(left) <=> Holds(left, x)  BY <1>20, RangeElements DEF Holds
    <2> QED  BY <2>1, <1>20
  <1> HIDE DEF late
  <1>22. /\ N \in Seq(Var)
         /\ \A x : Holds(N, x) <=> Holds(t.renotify, x)
                                   \/ (Holds(t.assignments, x) /\ t.info[x].atom /\ t.info[x].fixedAt > level)
    <2> DEFINE o == Only(left, late)
    <2>1. o \in Seq(Var) /\ \A x : Holds(o, x) <=> x \in late /\ Holds(left, x)  BY <1>20, OnlyElements
    <2> HIDE DEF o
    <2>2. t.renotify \o o \in Seq(Var)
          /\ \A x : Holds(t.renotify \o o, x) <=> Holds(t.renotify, x) \/ Holds(o, x)
      BY <2>1, <1>2, HoldsConcat
    <2>3. N = t.renotify \o o  BY DEF o
    <2> HIDE DEF N
    <2> QED  BY <2>1, <2>2, <2>3, <1>20, <1>21
  <1> HIDE DEF N
  <1>23. b = t.asserts
    <2>1. \A v \in gone : t.info[v].intro > level  BY <1>2, <1>5, <1>19 DEF level
    <2>2. \A v \in Range(t.assignments) : t.info[v].fixed
      <3>1. \A v : v \in Range(t.assignments) => Holds(t.assignments, v)
        BY <1>2, RangeElements DEF Holds
      <3> QED  BY <3>1, <1>8
    <2> QED  BY <2>1, <2>2, <1>2, <1>3
  <1> HIDE DEF b
  <1>24. \A v \in 1 .. m :
            /\ I[v] \in VarInfo /\ I[v].intro = t.info[v].intro /\ I[v].fixedAt = t.info[v].fixedAt
            /\ I[v].assigned = t.info[v].assigned /\ I[v].atom = t.info[v].atom
            /\ I[v].fixed = t.info[v].fixed
            /\ I[v].active <=> t.info[v].active /\ v \notin gone
    BY <1>2, <1>5 DEF VarInfo
  <1>25. \A v \in 1 .. m : I[v].active <=> t.info[v].active /\ t.info[v].intro < a
    <2> HIDE DEF I
    <2> QED  BY <1>19, <1>24
  <1>26. I \in Seq(VarInfo) /\ Len(I) = m
    <2>1. I \in [1 .. m -> VarInfo]
      <3>1. I = [v \in 1 .. m |-> I[v]]  BY <1>2
      <3> HIDE DEF I
      <3> QED  BY <3>1, <1>24
    <2> HIDE DEF I
    <2> QED  BY <2>1, <1>2, FunctionSeq
  <1> HIDE DEF I, C, A
  <1>27. R \subseteq t.root /\ R \subseteq Var  BY <1>2
  <1> HIDE DEF R
  <1>28. /\ u \in State /\ u.root = R /\ u.activeControl = C /\ u.acts = A /\ u.active = X
         /\ u.info = I /\ u.assignments = left /\ u.renotify = N /\ u.asserts = b
         /\ u.control = t.control /\ u.decisions = t.decisions /\ u.pushes = t.pushes
         /\ u.propagations = t.propagations /\ u.newClauses = t.newClauses /\ u.found = t.found
         /\ u.ctx = t.ctx /\ u.satLiterals = t.satLiterals
    <2>1. b \in BOOLEAN  BY <1>2, <1>23
    <2>2. /\ R \in SUBSET Var /\ C \in Seq(Nat) /\ A \in Seq(Var) /\ X \in Seq(Var) /\ I \in Seq(VarInfo)
          /\ left \in Seq(Var) /\ N \in Seq(Var)
      BY <1>16, <1>17, <1>18, <1>20, <1>22, <1>26, <1>27
    <2> HIDE DEF level, popTo
    <2>3. Replaces(t, u, R, C, A, X, I, left, N, b)  BY <2>1, <2>2, <1>1, ReplacedFields
    <2> QED  BY <2>3 DEF Replaces
  <1>29. PopsUser(t, u)
    <2>1. level = a - 1 /\ popTo = t.activeControl[a]  BY DEF level, popTo
    <2> HIDE DEF level, popTo
    <2> QED
      BY <2>1, <1>16, <1>17, <1>18, <1>20, <1>22, <1>23, <1>24, <1>25, <1>26, <1>27, <1>28
      DEF PopsUser, a, m
  <1> QED  BY <1>28, <1>29

(* u is t without its last user level.                                     *)
Pops(t, u) ==
    LET a == Len(t.activeControl) IN
    /\ PopsUser(t, u) /\ Len(u.satLiterals) = 0
    /\ Len(u.ctx) = a /\ \A i \in 1 .. a : u.ctx[i] = t.ctx[i]

(* CadicalSolver::pop.                                                     *)
LEMMA PopFields ==
    ASSUME NEW t, Good(t), Len(t.decisions) = 0, Len(t.activeControl) > 0, NEW u, u = pop(t)
    PROVE  Pops(t, u)
  <1>0. t \in State /\ Levels(t) /\ Marks(t) /\ Recorded(t) /\ FixedOK(t) /\ AssertsOK(t)
    BY DEF Good, Sized
  <1> DEFINE a == Len(t.activeControl)
             l == Len(t.ctx)
             X == Upto(t.ctx, l - 1)
             w == [t EXCEPT !.ctx = X]
             r == user_pop(w)
  <1>1. a \in Nat /\ l = a + 1 + Len(t.control) /\ Len(t.control) = 0 /\ Len(t.acts) = a
    BY <1>0, Lengths, LevelNumbers DEF Levels
  <1>2. u = [r EXCEPT !.satLiterals = <<>>]  BY Zenon DEF pop, PopCtx
  <1> HIDE DEF a, l
  <1>3. l - 1 = a /\ a \in 0 .. l  BY <1>1
  <1>4. X \in Seq(Snapshot) /\ Len(X) = a /\ \A i \in 1 .. a : X[i] = t.ctx[i]
    <2>1. t.ctx \in Seq(Snapshot) /\ l - 1 \in 0 .. l  BY <1>0, <1>3, Parts
    <2> QED  BY <2>1, <1>3, UptoElements DEF l
  <1> HIDE DEF X
  <1>5. /\ w \in State /\ SameVars(t, w) /\ SameTrail(t, w) /\ SameWork(t, w)
        /\ w.ctx = X
    BY <1>0, <1>4 DEF State, SameVars, SameTrail, SameWork
  <1> HIDE DEF w
  <1>6. Marks(w) /\ Recorded(w) /\ FixedOK(w)
    <2>1. /\ w.info = t.info /\ w.active = t.active /\ w.activeControl = t.activeControl /\ w.acts = t.acts
          /\ w.assignments = t.assignments /\ w.control = t.control
      BY <1>5 DEF SameVars, SameTrail
    <2>2. Marks(w)  BY <2>1, <1>0 DEF Marks, LiveAt
    <2>3. Recorded(w)  BY <2>1, <1>0 DEF Recorded
    <2>4. FixedOK(w)  BY <2>1, <1>0 DEF FixedOK
    <2> QED  BY <2>2, <2>3, <2>4
  <1>7. PopsUser(w, r) /\ r.ctx = w.ctx
    <2>1. /\ Len(w.control) = 0 /\ Len(w.decisions) = 0
          /\ Len(w.activeControl) > 0 /\ Len(w.acts) = Len(w.activeControl)
      BY <1>0, <1>1, <1>5 DEF SameVars, SameTrail, SameWork, a
    <2> QED  BY <2>1, <1>5, <1>6, UserPopFields
  <1> HIDE DEF r
  <1>8. PopsUser(t, r)
    <2>1. /\ w.info = t.info /\ w.active = t.active /\ w.activeControl = t.activeControl /\ w.acts = t.acts
          /\ w.pushes = t.pushes /\ w.assignments = t.assignments /\ w.control = t.control
          /\ w.decisions = t.decisions /\ w.renotify = t.renotify /\ w.propagations = t.propagations
          /\ w.newClauses = t.newClauses /\ w.found = t.found /\ w.root = t.root /\ w.asserts = t.asserts
      BY <1>5 DEF SameVars, SameTrail, SameWork
    <2> QED  BY <2>1, <1>7 DEF PopsUser
  <1>9. r \in State  BY <1>8 DEF PopsUser
  <1>10. u \in State /\ u.satLiterals = <<>>
    <2>1. <<>> \in Seq(Var \X Nat)  BY EmptySeq
    <2> QED  BY <2>1, <1>2, <1>9 DEF State
  <1>11. /\ SameVars(r, u) /\ SameTrail(r, u) /\ SameWork(r, u) /\ u.ctx = r.ctx
    BY <1>2, <1>9 DEF State, SameVars, SameTrail, SameWork
  <1>12. PopsUser(t, u)
    <2>1. /\ u.info = r.info /\ u.active = r.active /\ u.activeControl = r.activeControl /\ u.acts = r.acts
          /\ u.pushes = r.pushes /\ u.assignments = r.assignments /\ u.control = r.control
          /\ u.decisions = r.decisions /\ u.renotify = r.renotify /\ u.propagations = r.propagations
          /\ u.newClauses = r.newClauses /\ u.found = r.found /\ u.root = r.root /\ u.asserts = r.asserts
      BY <1>11 DEF SameVars, SameTrail, SameWork
    <2> QED  BY <2>1, <1>8, <1>10 DEF PopsUser
  <1>13. Len(u.satLiterals) = 0  BY <1>10, EmptySeq
  <1> QED  BY <1>4, <1>5, <1>7, <1>11, <1>12, <1>13 DEF Pops, a

(* The state after the pop of a user level is a state of cvc5.             *)
LEMMA PopsGood ==
    ASSUME NEW t, Good(t), Len(t.decisions) = 0, Len(t.activeControl) > 0, NEW u, Pops(t, u)
    PROVE  Good(u)
  <1>0. /\ t \in State /\ Sized(t) /\ Levels(t) /\ Marks(t) /\ Recorded(t) /\ FixedOK(t) /\ Contexts(t)
        /\ Preregistered(t) /\ Renotified(t) /\ Clauses(t) /\ Inferences(t) /\ AssertsOK(t)
    BY DEF Good, Sized
  <1> DEFINE a == Len(t.activeControl)
             l == Len(t.ctx)
             m == Len(t.info)
             n == Len(t.active)
             p == t.activeControl[a]
  <1>1. a \in Nat /\ a > 0 /\ l \in Nat /\ m \in Nat /\ n \in Nat /\ l = a + 1 + Len(t.control)
        /\ Len(t.control) = 0 /\ Len(t.acts) = a
    BY <1>0, Lengths, LevelNumbers DEF Levels
  <1>2. /\ u \in State /\ u.control = t.control /\ u.decisions = t.decisions /\ u.pushes = t.pushes
        /\ u.propagations = t.propagations /\ u.newClauses = t.newClauses
        /\ u.asserts = t.asserts /\ u.root \subseteq t.root /\ Len(u.info) = m
        /\ Len(u.satLiterals) = 0 /\ Len(u.ctx) = a /\ \A i \in 1 .. a : u.ctx[i] = t.ctx[i]
    BY DEF Pops, PopsUser
  <1>3. \A v \in 1 .. m :
           /\ u.info[v].intro = t.info[v].intro /\ u.info[v].fixedAt = t.info[v].fixedAt
           /\ u.info[v].assigned = t.info[v].assigned /\ u.info[v].atom = t.info[v].atom
           /\ u.info[v].fixed = t.info[v].fixed
           /\ u.info[v].active <=> t.info[v].active /\ t.info[v].intro < a
    BY DEF Pops, PopsUser
  <1>4. /\ Len(u.activeControl) = a - 1 /\ \A k \in 1 .. a - 1 : u.activeControl[k] = t.activeControl[k]
        /\ Len(u.acts) = a - 1 /\ \A k \in 1 .. a - 1 : u.acts[k] = t.acts[k]
        /\ Len(u.active) = p /\ \A j \in 1 .. p : u.active[j] = t.active[j]
    BY DEF Pops, PopsUser
  <1>5. /\ \A x : Holds(u.assignments, x) <=> Holds(t.assignments, x)
        /\ \A x : Holds(u.renotify, x) <=>
              Holds(t.renotify, x) \/ (Holds(t.assignments, x) /\ t.info[x].atom /\ t.info[x].fixedAt > a - 1)
    BY DEF Pops, PopsUser
  <1>6. \A v \in 1 .. m : t.info[v].intro \in Nat /\ t.info[v].fixedAt \in Nat  BY <1>0, Elements
  <1>7. \A x : Holds(t.assignments, x) => /\ x \in 1 .. m /\ t.info[x].active /\ t.info[x].assigned
                                          /\ t.info[x].fixed /\ t.info[x].intro = 0
    <2>1. ~(Len(t.control) > 0)  BY <1>1
    <2>2. \A j \in 1 .. Len(t.assignments) :
             /\ t.assignments[j] \in 1 .. m /\ t.info[t.assignments[j]].active
             /\ t.info[t.assignments[j]].assigned /\ t.info[t.assignments[j]].fixed
      BY <2>1, <1>0 DEF Recorded, FixedOK
    <2>3. \A v \in 1 .. m : t.info[v].fixed => t.info[v].intro = 0  BY <1>0 DEF FixedOK
    <2> QED  BY <2>2, <2>3 DEF Holds
  <1>8. \A v \in 1 .. m : t.info[v].active /\ t.info[v].assigned => Holds(t.assignments, v)
    BY <1>0 DEF Recorded, Holds
  <1>9. \A k \in 1 .. a : /\ t.activeControl[k] <= n /\ t.activeControl[k] \in Nat
                          /\ \A j \in 1 .. n : j <= t.activeControl[k] <=> t.info[t.active[j]].intro < k
    BY <1>0, Elements DEF Marks
  <1>10. /\ \A v \in 1 .. m : t.info[v].active => \E j \in 1 .. n : t.active[j] = v
         /\ \A j \in 1 .. n : t.active[j] \in 1 .. m /\ t.info[t.active[j]].active
    BY <1>0 DEF Marks, LiveAt
  <1>11. \A k \in 1 .. a : t.acts[k] \in 1 .. m /\ t.info[t.acts[k]].active /\ t.info[t.acts[k]].intro = k
    BY <1>0, <1>1 DEF Marks, LiveAt
  <1> HIDE DEF a, l, m, n
  <1>12. a \in 1 .. a /\ l = a + 1 /\ a - 1 \in Nat /\ 0 < a  BY <1>1
  <1>13. \A k \in 1 .. a - 1 : k \in 1 .. a /\ k < a /\ k <= a - 1  BY <1>1
  <1>14. \A i \in 1 .. a : i \in 1 .. l /\ ~(i > a) /\ i - 1 \in Nat /\ i - 1 < a  BY <1>1, <1>12
  <1>15. p \in Nat /\ p <= n  BY <1>9, <1>12
  <1>16. \A j \in 1 .. n : j <= p <=> t.info[t.active[j]].intro < a  BY <1>9, <1>12
  <1> HIDE DEF p
  <1>17. \A j \in 1 .. p : j \in 1 .. n /\ j <= p  BY <1>1, <1>15
  <1>18. \A j \in 1 .. n : j <= p => j \in 1 .. p  BY <1>1, <1>15
  <1>19. \A v, k : LiveAt(t, v, k) /\ k \in Nat /\ k < a => LiveAt(u, v, k)
    <2> SUFFICES ASSUME NEW v, NEW k \in Nat, LiveAt(t, v, k), k < a  PROVE LiveAt(u, v, k)  OBVIOUS
    <2>1. v \in 1 .. m /\ t.info[v].active /\ t.info[v].intro <= k  BY DEF LiveAt, m
    <2>2. t.info[v].intro < a  BY <2>1, <1>1, <1>6
    <2> QED  BY <2>1, <2>2, <1>2, <1>3 DEF LiveAt
  <1>20. Sized(u)  BY <1>0, <1>2 DEF Sized, m
  <1>21. Levels(u)
    <2>1. a = 1 + (a - 1) + 0  BY <1>1
    <2> QED  BY <2>1, <1>1, <1>2, <1>4 DEF Levels
  <1>22. Marks(u)
    <2>1. ASSUME NEW v \in 1 .. m, u.info[v].active  PROVE \E j \in 1 .. p : u.active[j] = v
      <3>1. t.info[v].active /\ t.info[v].intro < a  BY <2>1, <1>3
      <3>2. PICK j \in 1 .. n : t.active[j] = v  BY <3>1, <1>10
      <3>3. j \in 1 .. p  BY <3>1, <3>2, <1>16, <1>18
      <3> QED  BY <3>2, <3>3, <1>4
    <2>2. ASSUME NEW j \in 1 .. p  PROVE LiveAt(u, u.active[j], a - 1)
      <3> DEFINE v == t.active[j]
      <3>1. u.active[j] = v /\ v \in 1 .. m /\ t.info[v].active /\ t.info[v].intro < a
        BY <1>4, <1>10, <1>16, <1>17
      <3> HIDE DEF v
      <3>2. t.info[v].intro <= a - 1  BY <3>1, <1>1, <1>6
      <3> QED  BY <3>1, <3>2, <1>2, <1>3 DEF LiveAt
    <2>3. ASSUME NEW k \in 1 .. a - 1
          PROVE  /\ u.activeControl[k] <= p
                 /\ \A j \in 1 .. p : j <= u.activeControl[k] <=> u.info[u.active[j]].intro < k
      <3> DEFINE q == t.activeControl[k]
      <3>1. /\ u.activeControl[k] = q /\ q \in Nat /\ q <= n /\ k \in 1 .. a /\ k < a
            /\ \A j \in 1 .. n : j <= q <=> t.info[t.active[j]].intro < k
        BY <1>4, <1>9, <1>13
      <3> HIDE DEF q
      <3>2. q <= p
        <4> SUFFICES ASSUME ~(q <= p)  PROVE FALSE  OBVIOUS
        <4>1. q \in 1 .. n /\ q <= q  BY <3>1, <1>1, <1>15
        <4>2. t.info[t.active[q]].intro < k /\ t.info[t.active[q]].intro \in Nat
          <5>1. t.active[q] \in 1 .. m  BY <4>1, <1>10
          <5> QED  BY <5>1, <4>1, <3>1, <1>6
        <4>3. t.info[t.active[q]].intro < a  BY <4>2, <3>1, <1>1
        <4> QED  BY <4>1, <4>3, <1>16
      <3>3. \A j \in 1 .. p : u.info[u.active[j]].intro = t.info[t.active[j]].intro
        <4>1. \A j \in 1 .. p : t.active[j] \in 1 .. m /\ u.active[j] = t.active[j]  BY <1>4, <1>10, <1>17
        <4> QED  BY <4>1, <1>3
      <3> QED  BY <3>1, <3>2, <3>3, <1>17
    <2>4. ASSUME NEW k \in 1 .. a - 1  PROVE LiveAt(u, u.acts[k], k) /\ u.info[u.acts[k]].intro = k
      <3>1. /\ u.acts[k] = t.acts[k] /\ t.acts[k] \in 1 .. m /\ t.info[t.acts[k]].active
            /\ t.info[t.acts[k]].intro = k /\ k < a /\ k <= k
        BY <1>4, <1>11, <1>13
      <3> QED  BY <3>1, <1>2, <1>3 DEF LiveAt
    <2> QED  BY <2>1, <2>2, <2>3, <2>4, <1>2, <1>4 DEF Marks
  <1>23. \A x : Holds(t.assignments, x) => /\ x \in 1 .. m /\ u.info[x].active /\ u.info[x].assigned
                                           /\ u.info[x].fixed
    BY <1>3, <1>7, <1>12
  <1>24. \A j \in 1 .. Len(u.assignments) : Holds(t.assignments, u.assignments[j])
    <2>1. \A j \in 1 .. Len(u.assignments) : Holds(u.assignments, u.assignments[j])  BY DEF Holds
    <2> QED  BY <2>1, <1>5
  <1>25. \A v \in 1 .. m : u.info[v].active /\ u.info[v].assigned => Holds(u.assignments, v)
    BY <1>3, <1>5, <1>8
  <1>26. Recorded(u)  BY <1>2, <1>23, <1>24, <1>25 DEF Recorded, Holds
  <1>27. Segments(u)
    <2>1. Len(u.control) = 0  BY <1>1, <1>2
    <2>2. \A i \in 1 .. 0 : FALSE  OBVIOUS
    <2> QED  BY <2>1, <2>2 DEF Segments
  <1>28. FixedOK(u)
    <2>1. \A v \in 1 .. m : u.info[v].fixed => u.info[v].intro = 0  BY <1>0, <1>3 DEF FixedOK, m
    <2>2. ~FixAnywhere => \A v \in 1 .. m : u.info[v].fixed /\ u.info[v].active => u.info[v].assigned
      BY <1>0, <1>3 DEF FixedOK, m
    <2>3. \A j \in 1 .. Len(u.assignments) : u.info[u.assignments[j]].fixed  BY <1>23, <1>24
    <2>4. ~(Len(u.control) > 0)  BY <1>1, <1>2
    <2> QED  BY <2>1, <2>2, <2>3, <2>4, <1>2 DEF FixedOK
  <1>29. Contexts(u)
    <2>1. ASSUME NEW i \in 1 .. a, NEW v \in u.ctx[i].queue \cup u.ctx[i].prereg  PROVE LiveAt(u, v, i - 1)
      <3>1. LiveAt(t, v, i - 1)  BY <2>1, <1>0, <1>2, <1>14 DEF Contexts, l
      <3> QED  BY <3>1, <1>14, <1>19
    <2>2. \A i \in 1 .. 0 : FALSE  OBVIOUS
    <2> QED  BY <2>1, <2>2, <1>2 DEF Contexts
  <1>30. Preregistered(u)
    <2> SUFFICES ASSUME NEW v \in 1 .. m, NEW i \in 1 .. a,
                        u.info[v].active, u.info[v].atom, u.info[v].intro < i
                 PROVE  v \in u.ctx[i].prereg
      BY <1>2 DEF Preregistered
    <2>1. t.info[v].active /\ t.info[v].atom /\ t.info[v].intro < i /\ i \in 1 .. l  BY <1>3, <1>14
    <2>2. v \in t.ctx[i].prereg \/ Waits(t, v, i)  BY <2>1, <1>0 DEF Preregistered, l, m
    <2>3. v \in t.ctx[i].prereg  BY <2>2, <1>14 DEF Waits, a
    <2> QED  BY <2>3, <1>2
  <1>31. Renotified(u)
    <2>1. \A x : Holds(t.renotify, x) => x \in 1 .. m /\ t.info[x].active /\ t.info[x].fixed
      BY <1>0 DEF Renotified, Holds, m
    <2>2. \A x : Holds(t.renotify, x) => x \in 1 .. m /\ u.info[x].active /\ u.info[x].fixed
      <3>1. \A v \in 1 .. m : t.info[v].fixed => t.info[v].intro = 0  BY <1>0 DEF FixedOK, m
      <3> QED  BY <3>1, <2>1, <1>3, <1>12
    <2>3. \A x : Holds(u.renotify, x) => x \in 1 .. m /\ u.info[x].active /\ u.info[x].fixed
      BY <2>2, <1>5, <1>23
    <2>4. \A j \in 1 .. Len(u.renotify) : Holds(u.renotify, u.renotify[j])  BY DEF Holds
    <2>5. ASSUME ~FixAnywhere, NEW v \in 1 .. m, u.info[v].active, u.info[v].atom, u.info[v].fixed
          PROVE  \/ Again(u, v)
                 \/ /\ u.info[v].fixedAt <= a - 1
                    /\ \A i \in 1 .. a : i > u.info[v].fixedAt => v \in u.ctx[i].queue
      <3>1. /\ t.info[v].active /\ t.info[v].atom /\ t.info[v].fixed
            /\ u.info[v].fixedAt = t.info[v].fixedAt /\ t.info[v].fixedAt \in Nat
        BY <2>5, <1>3, <1>6
      <3>2. \A x : Again(u, x) <=> Holds(u.renotify, x)  BY DEF Again, Holds
      <3>3. CASE t.info[v].fixedAt > a - 1
        <4>1. t.info[v].assigned  BY <3>1, <2>5, <1>0 DEF FixedOK, m
        <4> QED  BY <4>1, <3>1, <3>2, <3>3, <1>5, <1>8
      <3>4. CASE ~(t.info[v].fixedAt > a - 1)
        <4>1. t.info[v].fixedAt <= a - 1  BY <3>1, <3>4, <1>1
        <4>2. \/ Again(t, v)
              \/ \A i \in 1 .. l : i > t.info[v].fixedAt => v \in t.ctx[i].queue
          BY <3>1, <2>5, <1>0 DEF Renotified, l, m
        <4>3. Again(t, v) => Again(u, v)  BY <3>2, <1>5 DEF Again, Holds
        <4> QED  BY <4>1, <4>2, <4>3, <3>1, <1>2, <1>14
      <3> QED  BY <3>3, <3>4
    <2> QED  BY <2>3, <2>4, <2>5, <1>2, <1>4 DEF Renotified
  <1>32. Sent(u)
    <2>1. \A j \in 1 .. Len(u.assignments) : u.info[u.assignments[j]].fixed  BY <1>23, <1>24
    <2> QED  BY <2>1 DEF Sent
  <1>33. Clauses(u)
    <2>1. \A v \in u.root : v \in 1 .. m /\ u.info[v].intro = 0  BY <1>0, <1>2, <1>3 DEF Clauses, m
    <2>2. ASSUME NEW j \in 1 .. Len(t.newClauses)  PROVE ClauseOK(u, t.newClauses[j])
      <3> DEFINE c == t.newClauses[j]
      <3>1. ClauseOK(t, c)  BY <1>0 DEF Clauses
      <3> HIDE DEF c
      <3>2. ASSUME c.act = NoVar, NEW v \in c.vars  PROVE LiveAt(u, v, 0)
        <4>1. LiveAt(t, v, 0)  BY <3>1, <3>2 DEF ClauseOK
        <4> QED  BY <4>1, <1>12, <1>19
      <3>3. ASSUME c.act # NoVar  PROVE c.act \in 1 .. m  BY <3>1, <3>3 DEF ClauseOK, m
      <3>4. ASSUME c.act # NoVar, NEW k \in 1 .. a - 1, u.acts[k] = c.act, NEW v \in c.vars
            PROVE  LiveAt(u, v, k)
        <4>1. t.acts[k] = c.act /\ k \in 1 .. Len(t.acts) /\ k \in Nat /\ k < a
          BY <3>4, <1>1, <1>4, <1>13
        <4>2. LiveAt(t, v, k)  BY <4>1, <3>1, <3>4 DEF ClauseOK
        <4> QED  BY <4>1, <4>2, <1>19
      <3>5. ClauseOK(u, c)  BY <3>2, <3>3, <3>4, <1>2, <1>4 DEF ClauseOK
      <3> QED  BY <3>5 DEF c
    <2> QED  BY <2>1, <2>2, <1>2 DEF Clauses
  <1>34. Inferences(u)  BY <1>0, <1>2 DEF Inferences
  <1>35. AssertsOK(u)  BY <1>0, <1>2 DEF AssertsOK
  <1> QED
    BY <1>20, <1>21, <1>22, <1>26, <1>27, <1>28, <1>29, <1>30, <1>31, <1>32, <1>33, <1>34, <1>35 DEF Good

(* CaDiCaL gets a unit clause for each variable that is gone.              *)
LEMMA PopTrail ==
    ASSUME NEW t, Good(t), Len(t.decisions) = 0, NEW u, Pops(t, u), NEW c, Trail(t, c), NEW e,
           e = [c EXCEPT !.val = [v \in DOMAIN @ |-> IF u.info[v].active THEN @[v] ELSE 0]]
    PROVE  Trail(u, e)
  <1> DEFINE m == Len(t.info)
             f == [v \in 1 .. m |-> IF u.info[v].active THEN c.val[v] ELSE 0]
  <1>1. t \in State /\ Levels(t) /\ c \in Cadical /\ Len(c.val) = m  BY DEF Good, Sized, Trail
  <1>2. m \in Nat /\ DOMAIN c.val = 1 .. m  BY <1>1, Lengths, CadicalParts
  <1>3. e = [c EXCEPT !.val = f]  BY <1>2
  <1>4. \A v \in 1 .. m : c.val[v] \in Nat \cup {Unassigned} /\ c.val[v] \in Int /\ c.val[v] <= 0
    BY <1>1, CadicalParts DEF Trail
  <1>5. ~FixAnywhere => \A v \in c.ignored : v \in 1 .. m /\ c.val[v] > 0  BY DEF Trail
  <1>6. ~FixAnywhere => \A v \in 1 .. m : t.info[v].active =>
           (t.info[v].assigned <=> c.val[v] # Unassigned /\ v \notin c.ignored)
    BY DEF Trail
  <1>7. /\ u.decisions = t.decisions /\ u.control = t.control /\ Len(u.info) = m
        /\ \A v \in 1 .. m : /\ u.info[v].assigned = t.info[v].assigned
                             /\ u.info[v].fixed = t.info[v].fixed
                             /\ u.info[v].active => t.info[v].active
    BY DEF Pops, PopsUser
  <1>8. Len(t.control) = 0  BY <1>1 DEF Levels
  <1> HIDE DEF m
  <1>9. f \in [1 .. m -> Nat \cup {Unassigned}]  BY <1>4
  <1>10. \A v \in 1 .. m : f[v] <= 0 /\ (u.info[v].active => f[v] = c.val[v])  BY <1>4
  <1> HIDE DEF f
  <1>11. f \in Seq(Nat \cup {Unassigned}) /\ Len(f) = m  BY <1>2, <1>9, FunctionSeq
  <1>12. e \in Cadical /\ e.val = f /\ e.ignored = c.ignored  BY <1>1, <1>3, <1>11 DEF Cadical
  <1>13. ~FixAnywhere => c.ignored = {}  BY <1>4, <1>5
  <1>14. ~FixAnywhere => \A v \in 1 .. m : u.info[v].active =>
            (u.info[v].assigned <=> f[v] # Unassigned /\ v \notin c.ignored)
    BY <1>6, <1>7, <1>10
  <1>15. \A i \in 1 .. 0 : FALSE  OBVIOUS
  <1>16. \A v \in 1 .. m : u.info[v].active => (u.info[v].fixed <=> f[v] = 0)
    BY <1>7, <1>10 DEF Trail, m
  <1> QED  BY <1>7, <1>8, <1>10, <1>11, <1>12, <1>13, <1>14, <1>15, <1>16 DEF Trail

LEMMA PopStep ==
    ASSUME IInv, Pop
    PROVE  IInv'
  <1>1. /\ Good(s) /\ Trail(s, cad) /\ Stage /\ pc = "idle" /\ pc' = pc /\ s' = pop(s)
        /\ Len(s.activeControl) > 0 /\ Len(s.decisions) = 0
        /\ cad' = [cad EXCEPT !.val = [v \in DOMAIN @ |-> IF s'.info[v].active THEN @[v] ELSE 0]]
    BY DEF IInv, Pop, UserLevel, Stage
  <1>2. Pops(s, s')  BY <1>1, PopFields
  <1>3. Good(s')  BY <1>1, <1>2, PopsGood
  <1>4. Trail(s', cad')  BY <1>1, <1>2, PopTrail
  <1>5. s'.decisions = s.decisions /\ s'.found = s.found  BY <1>2 DEF Pops, PopsUser
  <1>6. FoundOK(s')  BY <1>1, <1>5, IdleNotFound DEF FoundOK
  <1>7. Stage'  BY <1>1, <1>5 DEF Stage
  <1> QED  BY <1>3, <1>4, <1>6, <1>7 DEF IInv

-----------------------------------------------------------------------------
(* The invariant holds.                                                    *)

(* The initial state.                                                      *)
LEMMA InitHolds ==
    ASSUME Init
    PROVE  IInv
  <1> DEFINE top == [queue |-> {}, seen |-> {}, prereg |-> {}]
             one == <<top>>
  <1>1. /\ \A S : <<>> \in Seq(S)
        /\ Len(<<>>) = 0
    BY EmptySeq
  <1>2. top \in Snapshot  BY DEF Snapshot
  <1>3. top.queue = {} /\ top.prereg = {}  OBVIOUS
  <1> HIDE DEF top
  <1>4. one \in Seq(Snapshot) /\ Len(one) = 1 /\ one[1] = top  BY <1>2
  <1> HIDE DEF one
  <1>5. /\ s.info = <<>> /\ s.active = <<>> /\ s.activeControl = <<>> /\ s.acts = <<>> /\ s.pushes = 0
        /\ s.renotify = <<>> /\ s.assignments = <<>> /\ s.control = <<>> /\ s.decisions = <<>>
        /\ s.propagations = <<>> /\ s.newClauses = <<>> /\ s.ctx = one
        /\ s.satLiterals = <<>> /\ s.root = {}
    BY DEF Init, one, top
  <1>6. ~s.found /\ AssertsOK(s)  BY DEF Init, AssertsOK
  <1>7. s \in State
    <2>1. s = [info |-> <<>>, active |-> <<>>, activeControl |-> <<>>,
               acts |-> <<>>, pushes |-> 0, renotify |-> <<>>, assignments |-> <<>>,
               control |-> <<>>, decisions |-> <<>>, propagations |-> <<>>,
               newClauses |-> <<>>, found |-> FALSE, ctx |-> one,
               satLiterals |-> <<>>, root |-> {}, asserts |-> TRUE]
      BY DEF Init, one, top
    <2> QED  BY <2>1, <1>1, <1>4 DEF State
  <1>8. cad \in Cadical /\ cad.val = <<>> /\ cad.ignored = {} /\ pc = "idle"
    BY <1>1 DEF Init, Cadical
  <1>9. \A i \in 1 .. 0 : FALSE  OBVIOUS
  <1>10. \A i \in 1 .. 1 : i = 1  OBVIOUS
  <1>11. Sized(s)  BY <1>1, <1>5, <1>7, BoundsAssumption DEF Sized
  <1>12. Levels(s)  BY <1>1, <1>4, <1>5 DEF Levels
  <1>13. Marks(s) /\ Recorded(s) /\ Segments(s) /\ FixedOK(s)
    BY <1>1, <1>5, <1>9 DEF Marks, Recorded, Segments, FixedOK
  <1>14. Contexts(s)  BY <1>1, <1>3, <1>4, <1>5, <1>9, <1>10 DEF Contexts
  <1>15. Preregistered(s) /\ Renotified(s) /\ Sent(s) /\ Clauses(s) /\ Inferences(s)
    BY <1>1, <1>5, <1>9 DEF Preregistered, Renotified, Sent, Clauses, Inferences
  <1>16. Good(s)  BY <1>6, <1>11, <1>12, <1>13, <1>14, <1>15 DEF Good
  <1>17. FoundOK(s)  BY <1>6 DEF FoundOK
  <1>18. Trail(s, cad)  BY <1>1, <1>5, <1>8, <1>9 DEF Trail
  <1>19. Stage  BY <1>1, <1>5, <1>8 DEF Stage
  <1> QED  BY <1>16, <1>17, <1>18, <1>19 DEF IInv

(* Every step, by the action.                                              *)
LEMMA NextHolds ==
    ASSUME IInv, [Next]_vars
    PROVE  IInv'
  <1>1. ASSUME NEW atom \in Atomic, NewVar(atom)  PROVE IInv'  BY <1>1, NewVarStep
  <1>2. ASSUME NEW v \in Literals(s), NEW b \in BOOLEAN, AddClause(v, b)  PROVE IInv'
    BY <1>2, AddClauseStep
  <1>3. CASE Push  BY <1>3, PushStep
  <1>4. CASE Pop  BY <1>4, PopStep
  <1>5. CASE Solve  BY <1>5, SolveStep
  <1>6. CASE ResetTrail  BY <1>6, EndStep
  <1>7. CASE LateBacktrack  BY <1>7, LateBacktrackStep
  <1>8. ASSUME NEW v \in Vars(s), Fix(v)  PROVE IInv'  BY <1>8, FixStep
  <1>9. ASSUME NEW v \in Vars(s), Report(v)  PROVE IInv'  BY <1>9, ReportStep
  <1>10. ASSUME NEW v \in Vars(s), Propagate(v)  PROVE IInv'  BY <1>10, PropagateStep
  <1>11. ASSUME NEW v \in Vars(s), AskReason(v)  PROVE IInv'  BY <1>11, AskReasonStep
  <1>12. CASE Assume  BY <1>12, AssumeStep
  <1>13. CASE Decide  BY <1>13, DecideStep
  <1>14. ASSUME NEW l \in 0 .. MaxDecisions, Backtrack(l)  PROVE IInv'
    <2>1. l \in Nat  BY BoundsAssumption
    <2> QED  BY <2>1, <1>14, BacktrackStep
  <1>15. CASE AskPropagation  BY <1>15, AskPropagationStep
  <1>16. CASE AskClause  BY <1>16, AskClauseStep
  <1>17. CASE FoundModel  BY <1>17, FoundModelStep
  <1>18. CASE Stop  BY <1>18, EndStep
  <1>19. CASE UNCHANGED vars
    BY <1>19 DEF vars, IInv, Stage
  <1> QED
    BY <1>1, <1>2, <1>3, <1>4, <1>5, <1>6, <1>7, <1>8, <1>9, <1>10, <1>11, <1>12, <1>13, <1>14,
       <1>15, <1>16, <1>17, <1>18, <1>19 DEF Next

(* The inductive invariant of the propagator, the SAT context and CaDiCaL  *)
(* holds after every notification, callback, push and pop.                 *)
THEOREM Inductive == Spec => []IInv
  BY InitHolds, NextHolds, PTL DEF Spec

-----------------------------------------------------------------------------
(* What the invariant says.                                                *)

LEMMA AssertsFollow ==
    ASSUME IInv, ~FixAnywhere
    PROVE  AssertsHold
  BY DEF IInv, Good, AssertsOK, AssertsHold

LEMMA LevelsFollow ==
    ASSUME IInv
    PROVE  LevelsAgree
  <1>1. s \in State /\ Levels(s) /\ cad \in Cadical /\ Stage  BY DEF IInv, Good, Sized, Trail
  <1>2. TypeOK  BY <1>1 DEF TypeOK, Stage
  <1>3. s.decisions \in Seq(Var \cup {NoVar})  BY <1>1, Parts
  <1>4. pc = "idle" => s.decisions = <<>>  BY <1>1, <1>3, EmptySeq DEF Stage
  <1>5. pc # "idle" => Len(s.decisions) = cad.level  BY <1>1 DEF Stage
  <1> QED  BY <1>1, <1>2, <1>4, <1>5 DEF LevelsAgree, Levels, CtxLevel, UserLevel

(* The active variables and the atoms, by index.                           *)
LEMMA ActiveByIndex ==
    ASSUME IInv
    PROVE  /\ \A v : v \in Active(s) <=> v \in 1 .. Len(s.info) /\ s.info[v].active
           /\ \A v : v \in Atoms(s) <=> v \in 1 .. Len(s.info) /\ s.info[v].active /\ s.info[v].atom
  <1>1. DOMAIN s.info = 1 .. Len(s.info)  BY Lengths DEF IInv, Good, Sized
  <1> QED  BY <1>1 DEF Active, Atoms, Vars

LEMMA TheoriesFollow ==
    ASSUME IInv
    PROVE  TheoriesUpToDate
  <1> DEFINE l == Len(s.ctx)
  <1>1. s \in State /\ Good(s)  BY DEF IInv, Good, Sized
  <1>2. Atoms(s) \subseteq s.ctx[l].prereg  BY <1>1, ActiveByIndex, PreregisteredNow
  <1>3. ASSUME NEW v \in Atoms(s), s.info[v].assigned, ~s.info[v].fixed  PROVE v \in s.ctx[l].queue
    BY <1>1, <1>3, ActiveByIndex, AssignedIsQueued
  <1> QED  BY <1>2, <1>3 DEF TheoriesUpToDate, Top

LEMMA FixedFollows ==
    ASSUME IInv, ~FixAnywhere
    PROVE  FixedResent
  <1>1. s \in State /\ Good(s) /\ Stage  BY DEF IInv, Good, Sized
  <1>2. ASSUME pc # "idle", NEW v \in Atoms(s), s.info[v].fixed  PROVE v \in s.ctx[Len(s.ctx)].queue
    <2>1. s.renotify = <<>>  BY <1>1, <1>2 DEF Stage
    <2> QED  BY <2>1, <1>1, <1>2, ActiveByIndex, FixedIsQueued
  <1> QED  BY <1>2 DEF FixedResent, Top

LEMMA LiveFollows ==
    ASSUME IInv
    PROVE  OnlyLiveLiterals
  <1> DEFINE l == Len(s.ctx)
  <1>1. s \in State /\ Levels(s) /\ Contexts(s) /\ Renotified(s)  BY DEF IInv, Good, Sized
  <1>2. l \in 1 .. l  BY <1>1, LevelNumbers
  <1>3. \A v \in s.ctx[l].queue \cup s.ctx[l].prereg : v \in Active(s)
    BY <1>1, <1>2, ActiveByIndex DEF Contexts, LiveAt
  <1>4. \A v \in Range(s.renotify) : v \in Active(s)
    <2>1. s.renotify \in Seq(Var)  BY <1>1, Parts
    <2>2. \A v \in Range(s.renotify) : \E j \in 1 .. Len(s.renotify) : s.renotify[j] = v
      BY <2>1, RangeElements
    <2> QED  BY <2>2, <1>1, ActiveByIndex DEF Renotified
  <1> QED  BY <1>3, <1>4 DEF OnlyLiveLiterals, Top

LEMMA TrailFollows ==
    ASSUME IInv, ~FixAnywhere
    PROVE  TrailRecorded
  <1>1. s \in State /\ Recorded(s) /\ Trail(s, cad)  BY DEF IInv, Good, Sized
  <1>2. s.assignments \in Seq(Var) /\ s.control \in Seq(Nat)  BY <1>1, Parts
  <1>3. DOMAIN s.control = 1 .. Len(s.control) /\ DOMAIN s.assignments = 1 .. Len(s.assignments)
    BY <1>2, LenProperties
  <1>4. \A v \in Active(s) : s.info[v].assigned <=> cad.val[v] # Unassigned /\ v \notin cad.ignored
    BY <1>1, ActiveByIndex DEF Trail
  <1>5. Range(s.assignments) = {v \in Active(s) : s.info[v].assigned}
    <2>1. \A v : v \in Range(s.assignments) <=> \E j \in 1 .. Len(s.assignments) : s.assignments[j] = v
      BY <1>2, RangeElements
    <2>2. \A v : v \in Range(s.assignments) <=> v \in Active(s) /\ s.info[v].assigned
      <3>1. \A j \in 1 .. Len(s.assignments) :
               s.assignments[j] \in Active(s) /\ s.info[s.assignments[j]].assigned
        BY <1>1, ActiveByIndex DEF Recorded
      <3>2. \A v \in Active(s) : s.info[v].assigned => \E j \in 1 .. Len(s.assignments) : s.assignments[j] = v
        BY <1>1, ActiveByIndex DEF Recorded
      <3> QED  BY <3>1, <3>2, <2>1
    <2> QED  BY <2>2
  <1>6. \A i \in DOMAIN s.control : \A j \in DOMAIN s.assignments :
           j <= s.control[i] <=> cad.val[s.assignments[j]] < i
    BY <1>1, <1>3 DEF Trail
  <1> QED  BY <1>4, <1>5, <1>6 DEF TrailRecorded

LEMMA SatFollows ==
    ASSUME IInv
    PROVE  SatIsChecked
  <1>1. FoundOK(s) /\ Stage /\ s \in State /\ Good(s)  BY DEF IInv, Good, Sized
  <1>2. pc = "sat" \/ s.found => Checked(s)  BY <1>1 DEF FoundOK, Stage
  <1>3. ASSUME Checked(s), NEW v \in Atoms(s),
               v \in Top(s).queue \/ (s.info[v].assigned /\ ~s.info[v].fixed)
        PROVE  v \in Top(s).seen
    <2>1. v \in s.ctx[Len(s.ctx)].queue  BY <1>1, <1>3, ActiveByIndex, AssignedIsQueued DEF Top
    <2> QED  BY <2>1, <1>3 DEF Checked, Top
  <1>4. ASSUME s.found
        PROVE  /\ pc # "idle" /\ s.newClauses = <<>> /\ s.propagations = <<>>
               /\ s.decisions # <<>> /\ s.decisions[Len(s.decisions)] = NoVar
    <2>1. /\ s.newClauses = <<>> /\ s.propagations = <<>>
          /\ Len(s.decisions) > 0 /\ s.decisions[Len(s.decisions)] = NoVar
      BY <1>1, <1>4 DEF FoundOK
    <2>2. Len(s.decisions) # 0  BY <2>1
    <2>3. pc # "idle"  BY <2>2, <1>1 DEF Stage
    <2>4. s.decisions # <<>>  BY <2>2, EmptySeq
    <2> QED  BY <2>1, <2>3, <2>4
  <1> QED  BY <1>2, <1>3, <1>4 DEF SatIsChecked

LEMMA InertFollows ==
    ASSUME IInv
    PROVE  PoppedLevelsInert
  <1>1. s \in State /\ FixedOK(s) /\ Clauses(s)  BY DEF IInv, Good, Sized
  <1>2. DOMAIN s.info = 1 .. Len(s.info)  BY <1>1, Lengths
  <1>3. \A v \in Vars(s) : s.info[v].fixed => s.info[v].intro = 0  BY <1>1, <1>2 DEF FixedOK, Vars
  <1>4. \A v, k : LiveAt(s, v, k) => v \in Active(s)  BY ActiveByIndex DEF LiveAt
  <1>5. ASSUME NEW c \in Range(s.newClauses)
        PROVE  c.vars \subseteq Active(s) \/ c.act \notin Range(s.acts) \cup {NoVar}
    <2>1. s.newClauses \in Seq(Clause) /\ s.acts \in Seq(Var)  BY <1>1, Parts
    <2>2. ClauseOK(s, c)
      <3>1. PICK j \in 1 .. Len(s.newClauses) : s.newClauses[j] = c  BY <2>1, RangeElements
      <3> QED  BY <3>1, <1>1 DEF Clauses
    <2>3. CASE c.act = NoVar  BY <2>2, <2>3, <1>4 DEF ClauseOK
    <2>4. CASE c.act # NoVar /\ c.act \in Range(s.acts)
      <3>1. PICK k \in 1 .. Len(s.acts) : s.acts[k] = c.act  BY <2>1, <2>4, RangeElements
      <3> QED  BY <3>1, <2>2, <2>4, <1>4 DEF ClauseOK
    <2> QED  BY <2>3, <2>4
  <1> QED  BY <1>3, <1>5 DEF PoppedLevelsInert

LEMMA PropagationsFollow ==
    ASSUME IInv
    PROVE  PropagationsCurrent
  <1> DEFINE l == Len(s.ctx)
  <1>1. s \in State /\ Levels(s) /\ Inferences(s)  BY DEF IInv, Good, Sized
  <1>2. l \in Nat /\ l > 0  BY <1>1, LevelNumbers
  <1>3. s.propagations \in Seq(Var \X Nat)  BY <1>1, Parts
  <1>4. ASSUME NEW p \in Range(s.propagations)  PROVE p[2] <= l
    <2>1. PICK j \in 1 .. Len(s.propagations) : s.propagations[j] = p  BY <1>3, RangeElements
    <2>2. p[2] \in Nat  BY <2>1, <1>1, Elements
    <2>3. p[2] <= 1 \/ p[2] <= l  BY <2>1, <1>1 DEF Inferences
    <2> HIDE DEF l
    <2> QED  BY <2>2, <2>3, <1>2
  <1> QED  BY <1>4 DEF PropagationsCurrent, CtxLevel

-----------------------------------------------------------------------------
(* The theorems.                                                           *)

(* If CaDiCaL fixes variables at decision level 0 only, no Assert of       *)
(* CadicalPropagator or of CnfStream::getNode fails, for any order of      *)
(* notifications, callbacks, pushes and pops: what a level leaves behind   *)
(* is never handed to code that no longer knows it.                        *)
THEOREM AssertsNeverFail ==
    ASSUME ~FixAnywhere
    PROVE  Spec => []AssertsHold
  <1>1. IInv => AssertsHold  BY AssertsFollow
  <1>2. Spec => []IInv  BY Inductive
  <1> QED  BY <1>1, <1>2, PTL

(* The stacks of the propagator, of the SAT context and of CaDiCaL agree,  *)
(* also after late backtracks, partial models and pops between searches.   *)
THEOREM LevelsAlwaysAgree == Spec => []LevelsAgree
  BY Inductive, LevelsFollow, PTL

(* notify_backtrack brings back what the theories lose: all atoms are      *)
(* preregistered, and in a search all assigned atoms that are not fixed    *)
(* are sent, wherever CaDiCaL fixes variables.                             *)
THEOREM TheoriesStayUpToDate == Spec => []TheoriesUpToDate
  BY Inductive, TheoriesFollow, PTL

(* If CaDiCaL fixes variables at decision level 0 only, renotify_fixed     *)
(* sends all fixed atoms again that a popped user level took with it, and  *)
(* backtracks take none.                                                   *)
THEOREM FixedLiteralsResent ==
    ASSUME ~FixAnywhere
    PROVE  Spec => []FixedResent
  <1>1. IInv => FixedResent  BY FixedFollows
  <1>2. Spec => []IInv  BY Inductive
  <1> QED  BY <1>1, <1>2, PTL

(* No literal of a popped user level is queued, preregistered or kept for  *)
(* the next solve call.                                                    *)
THEOREM OnlyLiveLiteralsReachTheories == Spec => []OnlyLiveLiterals
  BY Inductive, LiveFollows, PTL

(* If CaDiCaL fixes variables at decision level 0 only, d_assignments and  *)
(* d_assignment_control are the trail of CaDiCaL, but for what was         *)
(* assigned after a partial model was accepted.                            *)
THEOREM TrailIsRecorded ==
    ASSUME ~FixAnywhere
    PROVE  Spec => []TrailRecorded
  <1>1. IInv => TrailRecorded  BY TrailFollows
  <1>2. Spec => []IInv  BY Inductive
  <1> QED  BY <1>1, <1>2, PTL

(* A model that cb_check_found_model or cb_decide accepted was checked by  *)
(* the theories with all atoms that were sent or are on record unfixed,    *)
(* and d_found_solution ends with it.                                      *)
THEOREM SatAnswersAreChecked == Spec => []SatIsChecked
  BY Inductive, SatFollows, PTL

(* Nothing that rests on a popped user level stays in force.               *)
THEOREM PoppedLevelsStayInert == Spec => []PoppedLevelsInert
  BY Inductive, InertFollows, PTL

(* No propagation of a context that is gone is handed to CaDiCaL.          *)
THEOREM PropagationsStayCurrent == Spec => []PropagationsCurrent
  BY Inductive, PropagationsFollow, PTL

=============================================================================
