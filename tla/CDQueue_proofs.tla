--------------------------- MODULE CDQueue_proofs ---------------------------
(***************************************************************************)
(* Proofs about the context-dependent queue, for every set of elements,    *)
(* every depth of scopes and every length of the vector.                   *)
(***************************************************************************)
EXTENDS CDQueue, TLAPS

(* The inductive invariant. *)
IInv == TypeOK /\ CopiesChained /\ IndicesInOrder /\ HasNewest

(* A prefix of a sequence (what truncateList keeps).                       *)
LEMMA PrefixOf ==
    ASSUME NEW S, NEW s \in Seq(S), NEW n \in 0 .. Len(s)
    PROVE  /\ SubSeq(s, 1, n) \in Seq(S)
           /\ Len(SubSeq(s, 1, n)) = n
           /\ \A j \in 1 .. n : SubSeq(s, 1, n)[j] = s[j]
  OBVIOUS

(* A sequence with one more element (what push_back gives).                *)
LEMMA AppendTo ==
    ASSUME NEW S, NEW s \in Seq(S), NEW e \in S
    PROVE  /\ Append(s, e) \in Seq(S)
           /\ Len(Append(s, e)) = Len(s) + 1
           /\ \A j \in 1 .. Len(s) : Append(s, e)[j] = s[j]
  OBVIOUS

(* f is a function.                                                        *)
IsAFcn(f) == f = [x \in DOMAIN f |-> f[x]]

(* Append and SubSeq on functions with domain 1 .. n.                      *)
LEMMA AppendLast ==
    ASSUME NEW n \in Nat, NEW s, NEW t, NEW e, IsAFcn(s), IsAFcn(t),
           DOMAIN s = 1 .. n, DOMAIN t = 1 .. n + 1,
           \A l \in 1 .. n : t[l] = s[l], t[n + 1] = e
    PROVE  t = Append(s, e)
  <1> DEFINE S == {s[l] : l \in 1 .. n} \cup {e}
  <1>1. s \in Seq(S) /\ Len(s) = n
    BY DEF IsAFcn
  <1>2. t \in Seq(S) /\ Len(t) = n + 1
    BY DEF IsAFcn
  <1> HIDE DEF S
  <1> QED BY <1>1, <1>2

(* The stack of snapshots without its last one.                            *)
LEMMA DropLast ==
    ASSUME NEW n \in Nat \ {0}, NEW s, NEW t, IsAFcn(s), IsAFcn(t),
           DOMAIN s = 1 .. n, DOMAIN t = 1 .. n - 1,
           \A l \in 1 .. n - 1 : t[l] = s[l]
    PROVE  s # <<>> /\ Len(s) = n /\ t = SubSeq(s, 1, n - 1)
  <1> DEFINE S == {s[l] : l \in 1 .. n}
  <1>1. s \in Seq(S) /\ Len(s) = n
    BY DEF IsAFcn
  <1>2. t \in Seq(S) /\ Len(t) = n - 1
    BY DEF IsAFcn
  <1> HIDE DEF S
  <1> QED BY <1>1, <1>2

(* The constructor of CDQueue establishes the invariant.                   *)
LEMMA InitIInv == Init => IInv
  BY BoundsAssumption
  DEF Init, IInv, TypeOK, CopiesChained, IndicesInOrder, HasNewest, Level, None, Copy

(* What makeCurrent does to the saved copies, when it is followed by a     *)
(* change that leaves them alone.                                          *)
LEMMA MakeCurrentTypes ==
    ASSUME IInv, makeCurrent, level' = level
    PROVE  /\ scope' = level
           /\ scope' \in Level /\ restore' \in Level \cup {None}
           /\ DOMAIN saved' \subseteq Level
           /\ saved' \in [DOMAIN saved' -> Copy]
  BY DEF IInv, TypeOK, CopiesChained, makeCurrent, save, Level, None, Copy

(* The restore pointers still run through all copies after makeCurrent.    *)
LEMMA MakeCurrentChain ==
    ASSUME IInv, makeCurrent, level' = level
    PROVE  CopiesChained' /\ HasNewest'
  <1> USE DEF IInv, TypeOK, Level, None, Copy
  <1>1. CASE scope = level
    BY <1>1 DEF makeCurrent, CopiesChained, HasNewest
  <1>2. CASE scope # level
    <2>1. scope < level /\ scope' = level /\ restore' = scope
      BY <1>2 DEF makeCurrent, save, CopiesChained
    <2>2. DOMAIN saved' = DOMAIN saved \cup {scope} /\ scope \notin DOMAIN saved
      BY <1>2 DEF makeCurrent, save, CopiesChained
    <2>3. saved'[scope].restore = restore
      BY <1>2 DEF makeCurrent, save
    <2>4. \A k \in DOMAIN saved : saved'[k] = saved[k]
      BY <1>2, <2>2 DEF makeCurrent, save
    <2>5. CopiesChained'
      <3>1. DOMAIN saved' \subseteq 0 .. scope' - 1 /\ scope' <= level'
        BY <2>1, <2>2 DEF CopiesChained
      <3>2. IF scope' = 0 THEN restore' = None ELSE restore' \in DOMAIN saved'
        BY <2>1, <2>2
      <3>3. \A k \in DOMAIN saved' : k <= restore'
        BY <2>1, <2>2 DEF CopiesChained
      <3>4. ASSUME NEW k \in DOMAIN saved'
            PROVE  /\ IF k = 0 THEN saved'[k].restore = None
                               ELSE saved'[k].restore \in DOMAIN saved'
                   /\ saved'[k].restore < k
                   /\ \A j \in DOMAIN saved' : j < k => j <= saved'[k].restore
        <4>1. CASE k = scope
          BY <4>1, <2>2, <2>3 DEF CopiesChained
        <4>2. CASE k # scope
          BY <4>2, <2>2, <2>4 DEF CopiesChained
        <4> QED BY <4>1, <4>2
      <3> QED BY <3>1, <3>2, <3>3, <3>4 DEF CopiesChained
    <2>6. HasNewest'
      <3>1. ASSUME NEW l \in 0 .. scope' - 1, l < scope
            PROVE  \E k \in DOMAIN saved' :
                      k <= l /\ \A j \in DOMAIN saved' : j <= l => j <= k
        BY <3>1, <2>1, <2>2 DEF HasNewest
      <3>2. ASSUME NEW l \in 0 .. scope' - 1, ~(l < scope)
            PROVE  \E k \in DOMAIN saved' :
                      k <= l /\ \A j \in DOMAIN saved' : j <= l => j <= k
        <4>1. scope \in DOMAIN saved' /\ scope <= l
          BY <3>2, <2>1, <2>2
        <4>2. \A j \in DOMAIN saved' : j <= scope
          BY <2>2 DEF CopiesChained
        <4> QED BY <4>1, <4>2
      <3> QED BY <3>1, <3>2 DEF HasNewest
    <2> QED BY <2>5, <2>6
  <1> QED BY <1>1, <1>2

(* The indices of all copies after makeCurrent.                            *)
LEMMA MakeCurrentIndices ==
    ASSUME IInv, makeCurrent, level' = level
    PROVE  /\ LastSave \in Nat /\ LastSave <= d_size
           /\ LastSave = IF restore' = None THEN 0 ELSE saved'[restore'].size
           /\ \A k \in DOMAIN saved' :
                 /\ saved'[k].iter <= saved'[k].size
                 /\ saved'[k].lastsave <= saved'[k].size
                 /\ saved'[k].lastsave = IF saved'[k].restore = None THEN 0
                                         ELSE saved'[saved'[k].restore].size
                 /\ saved'[k].size <= LastSave
                 /\ \A j \in DOMAIN saved' :
                       j < k => saved'[j].size <= saved'[k].size
  <1> USE DEF IInv, TypeOK, Level, None, Copy
  <1>1. CASE scope = level
    BY <1>1 DEF makeCurrent, LastSave, IndicesInOrder
  <1>2. CASE scope # level
    <2>1. scope < level /\ restore' = scope /\ LastSave = d_size
      BY <1>2 DEF makeCurrent, save, CopiesChained, LastSave
    <2>2. DOMAIN saved' = DOMAIN saved \cup {scope} /\ scope \notin DOMAIN saved
      BY <1>2 DEF makeCurrent, save, CopiesChained
    <2>3. /\ saved'[scope].restore = restore /\ saved'[scope].size = d_size
          /\ saved'[scope].iter = d_iter /\ saved'[scope].lastsave = d_lastsave
      BY <1>2 DEF makeCurrent, save
    <2>4. \A k \in DOMAIN saved : saved'[k] = saved[k]
      BY <1>2, <2>2 DEF makeCurrent, save
    <2>5. restore # None => restore \in DOMAIN saved
      BY DEF CopiesChained
    <2>6. ASSUME NEW k \in DOMAIN saved'
          PROVE  /\ saved'[k].iter <= saved'[k].size
                 /\ saved'[k].lastsave <= saved'[k].size
                 /\ saved'[k].lastsave = IF saved'[k].restore = None THEN 0
                                         ELSE saved'[saved'[k].restore].size
                 /\ saved'[k].size <= LastSave
                 /\ \A j \in DOMAIN saved' :
                       j < k => saved'[j].size <= saved'[k].size
      <3>1. CASE k = scope
        BY <3>1, <2>1, <2>2, <2>3, <2>4, <2>5 DEF IndicesInOrder
      <3>2. CASE k # scope
        <4>1. k \in DOMAIN saved /\ k < scope
          BY <3>2, <2>2 DEF CopiesChained
        <4>2. saved[k].restore # None => saved[k].restore \in DOMAIN saved
          BY <4>1 DEF CopiesChained
        <4>3. saved[k].size \in Nat /\ saved[k].size <= d_lastsave /\ d_lastsave <= d_size
          BY <4>1 DEF IndicesInOrder
        <4> QED BY <4>1, <4>2, <4>3, <2>1, <2>2, <2>4, SMTT(30) DEF IndicesInOrder
      <3> QED BY <3>1, <3>2
    <2> QED BY <2>1, <2>2, <2>3, <2>6
  <1> QED BY <1>1, <1>2

(* CDQueue::push preserves the invariant.                                  *)
LEMMA PushIInv == ASSUME IInv, NEW e \in Elt, push(e) PROVE IInv'
  <1>1. makeCurrent /\ level' = level
    BY DEF push
  <1>2. CopiesChained' /\ HasNewest'
    BY <1>1, MakeCurrentChain
  <1>3. d_list \in Seq(Elt) /\ d_size = Len(d_list)
    BY DEF IInv, TypeOK, IndicesInOrder
  <1>4. /\ d_list' \in Seq(Elt) /\ Len(d_list') = Len(d_list) + 1
        /\ d_size' = d_size + 1 /\ d_iter' = d_iter /\ d_lastsave' = LastSave
    BY <1>3, AppendTo DEF push
  <1>5. TypeOK'
    BY <1>1, <1>4, MakeCurrentTypes, MakeCurrentIndices DEF IInv, TypeOK, Level
  <1>6. IndicesInOrder'
    <2>1. d_size' = Len(d_list') /\ d_iter' <= d_size' /\ d_lastsave' <= d_size'
      BY <1>1, <1>3, <1>4, MakeCurrentIndices DEF IInv, TypeOK, IndicesInOrder
    <2> QED BY <2>1, <1>1, <1>4, MakeCurrentIndices DEF IndicesInOrder
  <1> QED BY <1>2, <1>5, <1>6 DEF IInv

(* CDQueue::pop preserves the invariant: what it destroys is above every   *)
(* saved size.                                                             *)
LEMMA PopIInv == ASSUME IInv, pop PROVE IInv'
  <1>1. makeCurrent /\ level' = level /\ d_lastsave' = LastSave
    BY DEF pop
  <1>2. CopiesChained' /\ HasNewest'
    BY <1>1, MakeCurrentChain
  <1>3. /\ d_list \in Seq(Elt) /\ d_size = Len(d_list) /\ d_iter \in Nat
        /\ d_iter < d_size /\ LastSave \in Nat /\ LastSave <= d_size
    BY <1>1, MakeCurrentIndices DEF IInv, TypeOK, IndicesInOrder, pop
  <1>4. /\ d_list' \in Seq(Elt) /\ d_size' \in Nat /\ d_iter' \in Nat
        /\ d_size' = Len(d_list') /\ d_iter' <= d_size' /\ LastSave <= d_size'
    <2>1. CASE d_iter + 1 = d_size /\ LastSave # d_size
      <3>1. d_list' = SubSeq(d_list, 1, LastSave) /\ d_size' = LastSave /\ d_iter' = LastSave
        BY <2>1 DEF pop, truncateList
      <3>2. LastSave \in 0 .. Len(d_list)
        BY <1>3
      <3> QED BY <1>3, <3>1, <3>2, PrefixOf
    <2>2. CASE ~(d_iter + 1 = d_size /\ LastSave # d_size)
      BY <2>2, <1>3 DEF pop
    <2> QED BY <2>1, <2>2
  <1>5. TypeOK'
    BY <1>1, <1>3, <1>4, MakeCurrentTypes DEF IInv, TypeOK, Level
  <1>6. IndicesInOrder'
    BY <1>1, <1>4, MakeCurrentIndices DEF IndicesInOrder
  <1> QED BY <1>2, <1>5, <1>6 DEF IInv

(* Context::push leaves the queue alone.                                   *)
LEMMA ContextPushIInv == ASSUME IInv, ContextPush PROVE IInv'
  <1>1. TypeOK'
    BY BoundsAssumption DEF IInv, ContextPush, TypeOK, Level
  <1>2. CopiesChained'
    BY DEF IInv, ContextPush, TypeOK, CopiesChained, Level
  <1>3. IndicesInOrder' /\ HasNewest'
    BY DEF IInv, ContextPush, IndicesInOrder, HasNewest
  <1> QED BY <1>1, <1>2, <1>3 DEF IInv

(* Context::pop goes back one step in the chain of copies.                 *)
LEMMA ContextPopIInv == ASSUME IInv, ContextPop PROVE IInv'
  <1> USE DEF IInv, TypeOK, Level, None, Copy
  <1>1. CASE scope # level
    <2>1. /\ level' = level - 1 /\ level' \in Level /\ scope <= level'
          /\ UNCHANGED <<scope, restore, saved, d_list, d_size, d_iter, d_lastsave>>
      BY <1>1, BoundsAssumption DEF ContextPop, CopiesChained
    <2>2. TypeOK'
      BY <2>1
    <2>3. CopiesChained'
      BY <2>1 DEF CopiesChained
    <2>4. IndicesInOrder' /\ HasNewest'
      BY <2>1 DEF IndicesInOrder, HasNewest
    <2> QED BY <2>2, <2>3, <2>4
  <1>2. CASE scope = level
    <2>1. restore \in DOMAIN saved /\ restore < scope /\ level \in Nat
      BY <1>2 DEF ContextPop, CopiesChained
    <2>2. PICK copy \in Copy : copy = saved[restore]
      BY <2>1
    <2>3. /\ d_iter' = copy.iter /\ d_lastsave' = copy.lastsave
          /\ d_size' = copy.size /\ d_list' = SubSeq(d_list, 1, copy.size)
          /\ scope' = restore /\ restore' = copy.restore /\ level' = level - 1
      BY <1>2, <2>2 DEF ContextPop, Restore, truncateList
    <2>4. /\ DOMAIN saved' = DOMAIN saved \ {restore}
          /\ \A k \in DOMAIN saved' : saved'[k] = saved[k]
      BY <1>2 DEF ContextPop, Restore
    <2>5. copy.size \in 0 .. Len(d_list)
      BY <2>1, <2>2 DEF IndicesInOrder
    <2>6. d_list' \in Seq(Elt) /\ Len(d_list') = copy.size
      BY <2>3, <2>5, PrefixOf
    <2>7. TypeOK'
      <3>1. level' \in Level /\ scope' \in Level /\ restore' \in Level \cup {None}
        <4>1. level > 0
          BY DEF ContextPop
        <4>2. level' \in Level
          BY <4>1, <2>3, BoundsAssumption
        <4>3. restore \in Level
          BY <2>1
        <4> QED BY <4>2, <4>3, <2>2, <2>3
      <3>2. DOMAIN saved' \subseteq Level /\ saved' \in [DOMAIN saved' -> Copy]
        BY <1>2, <2>4 DEF ContextPop, Restore
      <3>3. d_size' \in Nat /\ d_iter' \in Nat /\ d_lastsave' \in Nat
        BY <2>2, <2>3
      <3> QED BY <3>1, <3>2, <3>3, <2>6
    <2>8. copy.restore < restore /\ (copy.restore # None => copy.restore \in DOMAIN saved')
      BY <2>1, <2>2, <2>4 DEF CopiesChained
    <2>9. CopiesChained'
      <3>1. DOMAIN saved' \subseteq 0 .. scope' - 1 /\ scope' <= level'
        <4>1. restore \in Nat /\ scope' = restore /\ scope' <= level'
          BY <1>2, <2>1, <2>3
        <4>2. \A k \in DOMAIN saved : k \in Nat /\ k <= restore
          BY <1>2, <2>1 DEF CopiesChained
        <4>3. ASSUME NEW k \in DOMAIN saved' PROVE k \in 0 .. restore - 1
          <5>1. k \in DOMAIN saved /\ k # restore
            BY <2>4
          <5>2. k \in Nat /\ k <= restore
            BY <5>1, <4>2
          <5> HIDE DEF IInv, TypeOK
          <5> QED BY <5>1, <5>2, <4>1
        <4> HIDE DEF IInv, TypeOK
        <4> QED BY <4>1, <4>3
      <3>2. IF scope' = 0 THEN restore' = None ELSE restore' \in DOMAIN saved'
        BY <2>1, <2>2, <2>3, <2>8 DEF CopiesChained
      <3>3. \A k \in DOMAIN saved' : k <= restore'
        BY <2>1, <2>2, <2>3, <2>4 DEF CopiesChained
      <3>4. ASSUME NEW k \in DOMAIN saved'
            PROVE  /\ IF k = 0 THEN saved'[k].restore = None
                               ELSE saved'[k].restore \in DOMAIN saved'
                   /\ saved'[k].restore < k
                   /\ \A j \in DOMAIN saved' : j < k => j <= saved'[k].restore
        <4>1. k \in DOMAIN saved /\ k < restore /\ saved'[k] = saved[k]
          BY <2>1, <2>4, SMTT(30) DEF CopiesChained
        <4>2. k \in Nat /\ restore \in Nat /\ saved[k].restore \in Int
          BY <4>1, <2>1
        <4>3. saved[k].restore < k /\ \A j \in DOMAIN saved : j < k => j <= saved[k].restore
          BY <4>1 DEF CopiesChained
        <4>4. IF k = 0 THEN saved[k].restore = None
                       ELSE saved[k].restore \in DOMAIN saved \ {restore}
          <5>1. IF k = 0 THEN saved[k].restore = None
                         ELSE saved[k].restore \in DOMAIN saved
            BY <4>1 DEF CopiesChained
          <5>2. saved[k].restore # restore
            BY <4>1, <4>2, <4>3
          <5> QED BY <5>1, <5>2
        <4> QED BY <4>1, <4>3, <4>4, <2>4
      <3> QED BY <3>1, <3>2, <3>3, <3>4 DEF CopiesChained
    <2>10. IndicesInOrder'
      <3>1. /\ d_size' = Len(d_list') /\ d_iter' <= d_size' /\ d_lastsave' <= d_size'
            /\ d_lastsave' = IF restore' = None THEN 0 ELSE saved'[restore'].size
        BY <2>1, <2>2, <2>3, <2>4, <2>6, <2>8 DEF IndicesInOrder
      <3>2. ASSUME NEW k \in DOMAIN saved'
            PROVE  saved'[k].size <= d_lastsave'
        <4>1. CASE k = copy.restore
          <5>1. k \in DOMAIN saved /\ copy.restore # None /\ saved'[k] = saved[k]
            BY <4>1, <2>4
          <5>2. copy.lastsave = saved[copy.restore].size
            BY <5>1, <2>1, <2>2 DEF IndicesInOrder
          <5> QED BY <4>1, <5>1, <5>2, <2>3
        <4>2. CASE k # copy.restore
          <5>1. k \in DOMAIN saved /\ k \in Nat /\ k < restore /\ k <= copy.restore
            BY <2>1, <2>2, <2>4 DEF CopiesChained
          <5>2. copy.restore # None /\ copy.restore \in DOMAIN saved /\ k < copy.restore
            <6>1. copy.restore \in Int /\ copy.restore # None
              BY <5>1, <2>2
            <6>2. copy.restore \in DOMAIN saved
              BY <6>1, <2>4, <2>8
            <6> QED BY <6>1, <6>2, <5>1, <4>2
          <5>3. saved[k].size <= saved[copy.restore].size
            BY <5>1, <5>2 DEF IndicesInOrder
          <5>4. copy.lastsave = saved[copy.restore].size
            BY <5>2, <2>1, <2>2 DEF IndicesInOrder
          <5> QED BY <5>1, <5>3, <5>4, <2>3, <2>4
        <4> QED BY <4>1, <4>2
      <3>3. ASSUME NEW k \in DOMAIN saved'
            PROVE  /\ saved'[k].iter <= saved'[k].size
                   /\ saved'[k].lastsave <= saved'[k].size
                   /\ saved'[k].lastsave = IF saved'[k].restore = None THEN 0
                                           ELSE saved'[saved'[k].restore].size
                   /\ \A j \in DOMAIN saved' :
                         j < k => saved'[j].size <= saved'[k].size
        <4>1. saved'[k].restore # None => saved'[k].restore \in DOMAIN saved'
          BY <2>9 DEF CopiesChained
        <4> QED BY <4>1, <2>4 DEF IndicesInOrder
      <3> QED BY <3>1, <3>2, <3>3 DEF IndicesInOrder
    <2>11. HasNewest'
      <3>1. ASSUME NEW l \in 0 .. restore - 1
            PROVE  \E k \in DOMAIN saved' :
                      k <= l /\ \A j \in DOMAIN saved' : j <= l => j <= k
        <4>1. PICK k \in DOMAIN saved : k <= l /\ \A j \in DOMAIN saved : j <= l => j <= k
          <5>1. l \in 0 .. scope - 1
            BY <2>1
          <5> QED BY <5>1 DEF HasNewest
        <4>2. k \in DOMAIN saved' /\ DOMAIN saved' \subseteq DOMAIN saved
          BY <4>1, <2>1, <2>4
        <4> QED BY <4>1, <4>2
      <3>2. scope' = restore
        BY <2>3
      <3> QED BY <3>1, <3>2 DEF HasNewest
    <2> QED BY <2>7, <2>9, <2>10, <2>11
  <1> QED BY <1>1, <1>2

(* The inductive invariant holds in every reachable state.                 *)
THEOREM InvariantHolds == Spec => []IInv
  <1>1. IInv /\ [Next]_vars => IInv'
    <2> SUFFICES ASSUME IInv, [Next]_vars PROVE IInv'
      OBVIOUS
    <2>1. ASSUME NEW e \in Elt, push(e) PROVE IInv'
      BY <2>1, PushIInv
    <2>2. CASE pop
      BY <2>2, PopIInv
    <2>3. CASE ContextPush
      BY <2>3, ContextPushIInv
    <2>4. CASE ContextPop
      BY <2>4, ContextPopIInv
    <2>5. CASE UNCHANGED vars
      BY <2>5 DEF vars, IInv, TypeOK, CopiesChained, IndicesInOrder, HasNewest
    <2> QED BY <2>1, <2>2, <2>3, <2>4, <2>5 DEF Next
  <1> QED BY <1>1, InitIInv, PTL DEF Spec

-----------------------------------------------------------------------------
(* The refinement.                                                         *)

(* k is the newest saved version not newer than l.                         *)
IsNewest(k, l) ==
    k \in DOMAIN saved /\ k <= l /\ \A j \in DOMAIN saved : j <= l => j <= k

(* The version that a scope sees is the one PendingAt reads ...            *)
LEMMA NewestIsUnique ==
    ASSUME IInv, NEW l \in Nat, NEW k, IsNewest(k, l)
    PROVE  NewestAt(l) = k
  <1>1. DOMAIN saved \subseteq Nat
    BY DEF IInv, TypeOK, Level
  <1>2. \A j : IsNewest(j, l) => j = k
    BY <1>1 DEF IsNewest
  <1>3. IsNewest(NewestAt(l), l)
    BY DEF NewestAt, IsNewest
  <1> QED BY <1>2, <1>3

(* ... also after a step ...                                               *)
LEMMA NewestIsUniquePrime ==
    ASSUME IInv', NEW l \in Nat, NEW k, IsNewest(k, l)'
    PROVE  NewestAt(l)' = k
  <1>1. DOMAIN saved' \subseteq Nat
    BY DEF IInv, TypeOK, Level
  <1>2. \A j : IsNewest(j, l)' => j = k
    BY <1>1 DEF IsNewest
  <1>3. IsNewest(NewestAt(l), l)'
    BY DEF NewestAt, IsNewest
  <1> QED BY <1>2, <1>3

(* ... and there is one.                                                   *)
LEMMA NewestExists ==
    ASSUME IInv, NEW l \in 0 .. scope - 1
    PROVE  \E k \in DOMAIN saved : IsNewest(k, l)
  BY DEF IInv, HasNewest, IsNewest

(* A version below n elements is the same in two vectors that agree on     *)
(* their first n elements.                                                 *)
LEMMA SameElements ==
    ASSUME NEW n \in Nat, NEW iter \in Nat, NEW size \in Nat, size <= n,
           \A j \in 1 .. n : d_list'[j] = d_list[j]
    PROVE  Elements(iter, size)' = Elements(iter, size)
  <1>1. \A j \in 1 .. size - iter : iter + j \in 1 .. n
    OBVIOUS
  <1> QED BY <1>1 DEF Elements

(* A change of the queue leaves what every enclosing scope sees alone.     *)
LEMMA EnclosingScopesKept ==
    ASSUME IInv, IInv', makeCurrent, level' = level,
           \A j \in 1 .. LastSave : d_list'[j] = d_list[j],
           NEW l \in 0 .. level - 1
    PROVE  PendingAt(l)' = PendingAt(l)
  <1> USE DEF Level, None, Copy
  <1>1. LastSave \in Nat /\ l \in Nat /\ level \in Nat /\ scope \in Nat
    BY MakeCurrentIndices DEF IInv, TypeOK
  <1>2. scope' = level /\ l < scope'
    BY MakeCurrentTypes, <1>1
  <1>3. PendingAt(l)' = Elements(saved[NewestAt(l)].iter, saved[NewestAt(l)].size)'
    BY <1>1, <1>2 DEF PendingAt
  <1>4. CASE l < scope
    <2>1. PICK k \in DOMAIN saved : IsNewest(k, l)
      BY <1>1, <1>4, NewestExists
    <2>2. IsNewest(k, l)' /\ saved'[k] = saved[k]
      BY <1>1, <1>4, <2>1 DEF IsNewest, makeCurrent, save
    <2>3. NewestAt(l) = k /\ NewestAt(l)' = k
      BY <1>1, <2>1, <2>2, NewestIsUnique, NewestIsUniquePrime
    <2>4. PendingAt(l) = Elements(saved[k].iter, saved[k].size)
      BY <1>1, <1>4, <2>3 DEF PendingAt
    <2>5. saved[k].iter \in Nat /\ saved[k].size \in Nat
      BY DEF IInv, TypeOK
    <2>6. saved[k].size <= LastSave
      BY <2>2, MakeCurrentIndices DEF IsNewest
    <2>7. Elements(saved[k].iter, saved[k].size)' = Elements(saved[k].iter, saved[k].size)
      BY <1>1, <2>2, <2>5, <2>6, SameElements DEF Elements
    <2> QED BY <1>3, <2>2, <2>3, <2>4, <2>7 DEF Elements
  <1>5. CASE ~(l < scope)
    <2>1. scope # level /\ LastSave = d_size
      BY <1>1, <1>2, <1>5 DEF LastSave
    <2>2. /\ saved'[scope].iter = d_iter /\ saved'[scope].size = d_size
          /\ DOMAIN saved' = DOMAIN saved \cup {scope}
      BY <2>1 DEF makeCurrent, save
    <2>3. PICK s \in Nat : s = scope
      BY <1>1
    <2>4. NewestAt(l)' = scope
      <3>1. IsNewest(s, l)'
        BY <1>1, <1>5, <2>2, <2>3 DEF IsNewest, IInv, CopiesChained
      <3> QED BY <1>1, <2>3, <3>1, NewestIsUniquePrime
    <2>5. PendingAt(l) = Elements(d_iter, d_size)
      BY <1>1, <1>5 DEF PendingAt
    <2>6. PendingAt(l)' = [j \in 1 .. d_size - d_iter |-> d_list'[d_iter + j]]
      BY <1>3, <2>2, <2>4 DEF Elements
    <2>7. d_iter \in Nat /\ d_size \in Nat
      BY DEF IInv, TypeOK
    <2>8. \A j \in 1 .. d_size - d_iter : d_list'[d_iter + j] = d_list[d_iter + j]
      BY <2>1, <2>7
    <2> QED BY <2>5, <2>6, <2>8 DEF Elements
  <1> QED BY <1>4, <1>5

(* A pop leaves what the remaining scopes see alone.                       *)
LEMMA ContextPopKeeps ==
    ASSUME IInv, IInv', ContextPop, NEW l \in 0 .. level - 1
    PROVE  PendingAt(l)' = PendingAt(l)
  <1> USE DEF Level, None, Copy
  <1>1. l \in Nat /\ level \in Nat /\ scope \in Nat /\ level' = level - 1
    BY DEF IInv, TypeOK, ContextPop
  <1>2. CASE scope # level
    BY <1>2 DEF ContextPop, PendingAt, NewestAt, Elements
  <1>3. CASE scope = level
    <2>1. PICK r \in DOMAIN saved : r = restore /\ r \in Nat /\ r < level
      BY <1>1, <1>3 DEF IInv, TypeOK, CopiesChained, ContextPop
    <2>2. PICK copy \in Copy : copy = saved[r]
      BY DEF IInv, TypeOK
    <2>3. /\ scope' = r /\ d_iter' = copy.iter /\ d_size' = copy.size
          /\ d_list' = SubSeq(d_list, 1, copy.size)
          /\ DOMAIN saved' = DOMAIN saved \ {r}
          /\ \A k \in DOMAIN saved' : saved'[k] = saved[k]
      BY <1>3, <2>1, <2>2 DEF ContextPop, Restore, truncateList
    <2>4. \A j \in 1 .. copy.size : d_list'[j] = d_list[j]
      <3>1. d_list \in Seq(Elt) /\ copy.size \in 0 .. Len(d_list)
        BY <2>1, <2>2 DEF IInv, TypeOK, IndicesInOrder
      <3> QED BY <3>1, <2>3, PrefixOf
    <2>5. CASE l < r
      <3>1. PICK k \in DOMAIN saved : IsNewest(k, l)
        BY <1>1, <1>3, NewestExists
      <3>2. k < r /\ k \in DOMAIN saved' /\ IsNewest(k, l)' /\ saved'[k] = saved[k]
        <4>1. k \in Nat /\ k <= l /\ \A j \in DOMAIN saved : j <= l => j <= k
          BY <3>1 DEF IsNewest, IInv, TypeOK
        <4>2. k < r
          BY <1>1, <2>1, <2>5, <4>1
        <4>3. k \in DOMAIN saved'
          BY <2>1, <2>3, <4>1, <4>2
        <4>4. IsNewest(k, l)'
          BY <2>3, <4>1, <4>3 DEF IsNewest
        <4> QED BY <2>3, <4>2, <4>3, <4>4
      <3>3. NewestAt(l) = k /\ NewestAt(l)' = k
        BY <1>1, <3>1, <3>2, NewestIsUnique, NewestIsUniquePrime
      <3>4. PendingAt(l) = Elements(saved[k].iter, saved[k].size)
        BY <1>1, <1>3, <3>3 DEF PendingAt
      <3>5. PendingAt(l)' = [j \in 1 .. saved[k].size - saved[k].iter |->
                               d_list'[saved[k].iter + j]]
        <4>1. ~(scope' <= l)
          BY <1>1, <2>1, <2>3, <2>5
        <4>2. PendingAt(l)' = Elements(saved[NewestAt(l)].iter, saved[NewestAt(l)].size)'
          BY <4>1 DEF PendingAt
        <4> QED BY <4>2, <3>2, <3>3 DEF Elements
      <3>6. saved[k].iter \in Nat /\ saved[k].size \in Nat /\ saved[k].size <= copy.size
        BY <2>1, <2>2, <3>2 DEF IInv, TypeOK, IndicesInOrder
      <3>7. \A j \in 1 .. saved[k].size - saved[k].iter :
               d_list'[saved[k].iter + j] = d_list[saved[k].iter + j]
        BY <2>4, <3>6
      <3> QED BY <3>4, <3>5, <3>7 DEF Elements
    <2>6. CASE ~(l < r)
      <3>1. IsNewest(r, l)
        BY <1>1, <2>1, <2>6 DEF IsNewest, IInv, CopiesChained
      <3>2. NewestAt(l) = r
        BY <1>1, <3>1, NewestIsUnique
      <3>3. PendingAt(l) = Elements(copy.iter, copy.size)
        BY <1>1, <1>3, <2>2, <3>2 DEF PendingAt
      <3>4. PendingAt(l)' = [j \in 1 .. copy.size - copy.iter |-> d_list'[copy.iter + j]]
        <4>1. scope' <= l
          BY <1>1, <2>1, <2>3, <2>6
        <4>2. PendingAt(l)' = Elements(d_iter, d_size)'
          BY <4>1 DEF PendingAt
        <4> QED BY <4>2, <2>3 DEF Elements
      <3>5. \A j \in 1 .. copy.size - copy.iter : d_list'[copy.iter + j] = d_list[copy.iter + j]
        BY <2>4
      <3> QED BY <3>3, <3>4, <3>5 DEF Elements
    <2> QED BY <2>5, <2>6
  <1> QED BY <1>2, <1>3

(* The initial state is an initial state of the abstract specification.    *)
LEMMA InitRefines == Init => Snapshots!Init
  <1> SUFFICES ASSUME Init PROVE Snapshots!Init
    OBVIOUS
  <1>1. PendingAt(level) = <<>>
    BY DEF Init, PendingAt, Elements
  <1> QED BY <1>1 DEF Init, Snapshots!Init

(* Every step is a step of the abstract specification, or stutters.        *)
LEMMA StepRefines ==
    IInv /\ IInv' /\ [Next]_vars => [Snapshots!Next]_(Snapshots!vars)
  <1> SUFFICES ASSUME IInv, IInv', [Next]_vars
               PROVE  [Snapshots!Next]_(Snapshots!vars)
    OBVIOUS
  <1>1. level \in Nat /\ scope \in Nat /\ scope <= level
    BY DEF IInv, TypeOK, CopiesChained, Level
  <1> DEFINE Cur == [p \in {"queue"} |-> PendingAt(level)]
             Stk == [l \in 1 .. level |-> [p \in {"queue"} |-> PendingAt(l - 1)]]
  <1>2. ASSUME makeCurrent, level' = level,
               \A j \in 1 .. LastSave : d_list'[j] = d_list[j]
        PROVE  Snapshots!Next
    <2>1. \A l \in 1 .. level : PendingAt(l - 1)' = PendingAt(l - 1)
      <3> SUFFICES ASSUME NEW l \in 1 .. level
                   PROVE  PendingAt(l - 1)' = PendingAt(l - 1)
        OBVIOUS
      <3>1. PICK m \in 0 .. level - 1 : m = l - 1
        BY <1>1
      <3> QED BY <1>2, <3>1, EnclosingScopesKept
    <2>2. Stk' = Stk
      BY <1>2, <2>1
    <2>3. Cur' = [Cur EXCEPT !["queue"] = Cur'["queue"]]
      OBVIOUS
    <2> QED BY <2>2, <2>3 DEF Snapshots!Next, Snapshots!Write
  <1>3. ASSUME NEW e \in Elt, push(e) PROVE Snapshots!Next
    <2>1. makeCurrent /\ level' = level /\ d_list' = Append(d_list, e)
      BY <1>3 DEF push
    <2>2. d_list \in Seq(Elt) /\ LastSave \in Nat /\ LastSave <= Len(d_list)
      BY <2>1, MakeCurrentIndices DEF IInv, TypeOK, IndicesInOrder
    <2>3. \A j \in 1 .. LastSave : d_list'[j] = d_list[j]
      BY <2>1, <2>2, AppendTo
    <2> QED BY <1>2, <2>1, <2>3
  <1>4. CASE pop
    <2>1. makeCurrent /\ level' = level
      BY <1>4 DEF pop
    <2>2. d_list \in Seq(Elt) /\ LastSave \in 0 .. Len(d_list)
      BY <2>1, MakeCurrentIndices DEF IInv, TypeOK, IndicesInOrder
    <2>3. d_list' = d_list \/ d_list' = SubSeq(d_list, 1, LastSave)
      BY <1>4 DEF pop, truncateList
    <2>4. \A j \in 1 .. LastSave : d_list'[j] = d_list[j]
      BY <2>2, <2>3, PrefixOf
    <2> QED BY <1>2, <2>1, <2>4
  <1>5. CASE ContextPush
    <2>1. level' = level + 1 /\ PendingAt(level + 1)' = PendingAt(level)
      BY <1>1, <1>5 DEF ContextPush, PendingAt, Elements
    <2>2. \A l \in 0 .. level : PendingAt(l)' = PendingAt(l)
      BY <1>5 DEF ContextPush, PendingAt, NewestAt, Elements
    <2>3. Cur' = Cur
      BY <1>1, <1>5 DEF ContextPush, PendingAt, Elements
    <2>4. Stk' = Append(Stk, Cur)
      <3>1. \A l \in 1 .. level + 1 : Stk'[l] = [p \in {"queue"} |-> PendingAt(l - 1)]
        <4> SUFFICES ASSUME NEW l \in 1 .. level + 1
                     PROVE  Stk'[l] = [p \in {"queue"} |-> PendingAt(l - 1)]
          OBVIOUS
        <4>1. PendingAt(l - 1)' = PendingAt(l - 1)
          BY <1>1, <2>2
        <4> QED BY <2>1, <4>1
      <3>2. \A l \in 1 .. level : Stk[l] = [p \in {"queue"} |-> PendingAt(l - 1)]
        OBVIOUS
      <3>3. Stk'[level + 1] = Cur
        <4>1. level + 1 \in 1 .. level + 1 /\ (level + 1) - 1 = level
          BY <1>1
        <4> QED BY <4>1, <3>1
      <3>4. DOMAIN Stk' = 1 .. level' /\ DOMAIN Stk = 1 .. level
        BY Zenon
      <3>5. IsAFcn(Stk') /\ IsAFcn(Stk)
        BY Zenon DEF IsAFcn
      <3> HIDE DEF Cur, Stk
      <3> QED BY <1>1, <2>1, <3>1, <3>2, <3>3, <3>4, <3>5, AppendLast
    <2> QED BY <2>3, <2>4 DEF Snapshots!Next, Snapshots!Push
  <1>6. CASE ContextPop
    <2>1. level' = level - 1 /\ level > 0
      BY <1>6 DEF ContextPop
    <2>2. \A l \in 0 .. level - 1 : PendingAt(l)' = PendingAt(l)
      BY <1>6, ContextPopKeeps
    <2>3. Cur' = Stk[level]
      BY <1>1, <2>1, <2>2
    <2>4. Stk # <<>> /\ Len(Stk) = level /\ Stk' = SubSeq(Stk, 1, level - 1)
      <3>1. \A l \in 1 .. level - 1 : Stk'[l] = Stk[l]
        <4> SUFFICES ASSUME NEW l \in 1 .. level - 1 PROVE Stk'[l] = Stk[l]
          OBVIOUS
        <4>1. PendingAt(l - 1)' = PendingAt(l - 1)
          BY <1>1, <2>2
        <4> QED BY <1>1, <2>1, <4>1
      <3>2. DOMAIN Stk' = 1 .. level' /\ DOMAIN Stk = 1 .. level
        BY Zenon
      <3>3. IsAFcn(Stk') /\ IsAFcn(Stk)
        BY Zenon DEF IsAFcn
      <3> HIDE DEF Cur, Stk
      <3> QED BY <1>1, <2>1, <3>1, <3>2, <3>3, DropLast
    <2> QED BY <2>3, <2>4 DEF Snapshots!Next, Snapshots!Pop
  <1>7. CASE UNCHANGED vars
    BY <1>7 DEF vars, Snapshots!vars, PendingAt, NewestAt, Elements
  <1> QED BY <1>3, <1>4, <1>5, <1>6, <1>7 DEF Next

(* Type correctness of CDQueue: its indices never become negative (size_t  *)
(* in the code), for any element type and any depth of contexts.           *)
THEOREM QueueTypeCorrect == Spec => []TypeOK
  <1>1. IInv => TypeOK
    BY DEF IInv
  <1> QED BY <1>1, InvariantHolds, PTL

(* Every saved copy is reached by the restore pointers, newest first, so a *)
(* sequence of Context::pop()s restores all of them in turn.               *)
THEOREM QueueCopiesChained == Spec => []SavedChain
  <1>1. IInv => SavedChain
    BY DEF IInv, SavedChain
  <1> QED BY <1>1, InvariantHolds, PTL

(* The duty that truncateList leaves to its caller: CDQueue::pop never     *)
(* destroys an element that a saved version of the queue still needs.      *)
THEOREM QueueIndicesInOrder == Spec => []IndicesInOrder
  <1>1. IInv => IndicesInOrder
    BY DEF IInv
  <1> QED BY <1>1, InvariantHolds, PTL

(* CDQueue implements a stack of snapshots of a queue.                     *)
THEOREM QueueRefinesSnapshots == Spec => BehavesAsSnapshots
  BY InitRefines, StepRefines, InvariantHolds, PTL
  DEF Spec, BehavesAsSnapshots, Snapshots!Spec

=============================================================================
