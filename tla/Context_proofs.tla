--------------------------- MODULE Context_proofs ---------------------------
(***************************************************************************)
(* Proofs about module Context, for every finite set of objects and values *)
(* and every depth of scopes:                                              *)
(*                                                                         *)
(*   ContextTypeCorrect   no pointer operation of context.cpp writes       *)
(*                        through, or stores, anything but the address of  *)
(*                        a cell, and the levels stay in range;            *)
(*   RestoreChainsHold    d_pContextObjRestore leads from an object        *)
(*                        through its older and older saved copies;        *)
(*   ScopeListsHold       the list of a scope is exactly the versions that *)
(*                        belong to it, doubly linked;                     *)
(*   NothingIsLeftBehind  a pop leaves no version in a scope that is gone, *)
(*                        and no copy that nothing restores;               *)
(*   GarbageRestored      what waits in d_garbage is back in the bottom    *)
(*                        scope, and is there once;                        *)
(*   ContextRefinesSnapshots  saving lazily is not visible: the objects    *)
(*                        behave as a stack of snapshots, one per push.    *)
(*                                                                         *)
(* The invariant is ContextInv: Good, which states the shape of the heap   *)
(* by facts about one cell and its neighbours (the links, a rank that      *)
(* grows along next instead of a path, the owner of each copy), and        *)
(* Leaving, which accounts for the objects in d_garbage.  What an          *)
(* operation does to a list is one of four changes, each with a lemma: a   *)
(* cell is added at the front, replaced in place, removed, or a head is    *)
(* dropped together with its list.  The refinement follows what a scope    *)
(* sees of an object (VersionAt) through the same operations: a scope      *)
(* older than the object always has a newest copy that is not newer than   *)
(* itself (HasNewestCopy), and no step but a write in the top scope        *)
(* changes which version that is.                                          *)
(***************************************************************************)
EXTENDS Context, FiniteSetTheorems, SequenceTheorems, WellFoundedInduction, TLAPS

(* TypeOK is not inductive by itself: PopScope decrements the level, and   *)
(* the steps after it use the scope above.  The stage of the pop bounds it. *)
StageOK ==
    /\ stage = "pre" => level > 0
    /\ stage = "restore" => level < MaxLevel

IInv == TypeOK /\ StageOK

-----------------------------------------------------------------------------
(* Addresses. *)

(* The objects, their copies, the scopes and the null pointer of the code  *)
(* all have an address.                                                    *)
LEMMA Addresses ==
    /\ Null \in Addr
    /\ \A o \in Obj \cup {NoObj} : Self(o) \in Addr
    /\ \A o \in Obj \cup {NoObj}, l \in Level \cup {None} : Copy(o, l) \in Addr
    /\ \A l \in Level : Scope(l) \in Addr
    /\ \A a \in Addr : a[1] \in Obj \cup {NoObj}
  BY DEF Addr, Null, Self, Copy, Scope, Level, Live, None

(* What an object holds before it is written is one of its values.         *)
LEMMA BlankType == \A o \in Obj : Blank[o] \in Val \cup {Absent}
  BY ConstantsAssumption DEF Blank

(* Assigning to a field of a cell keeps the type of the field.             *)
LEMMA FieldType ==
    ASSUME NEW S, NEW T, NEW f \in [S -> T], NEW a, NEW v \in T
    PROVE  [f EXCEPT ![a] = v] \in [S -> T]
  OBVIOUS

(* "if (next() != nullptr) next()->prev() = a".                            *)
LEMMA SetPrevType ==
    ASSUME NEW f \in [Addr -> Addr], NEW c, NEW a \in Addr
    PROVE  SetPrev(f, c, a) \in [Addr -> Addr]
  BY DEF SetPrev

(* The fields of a heap, one by one.                                       *)
LEMMA HeapFields ==
    ASSUME NEW h \in Heap
    PROVE  /\ h.next \in [Addr -> Addr] /\ h.prev \in [Addr -> Addr]
           /\ h.scope \in [Addr -> Level \cup {None}]
           /\ h.restore \in [Addr -> Addr]
           /\ h.data \in [Addr -> Val \cup {Absent}]
           /\ h.region \in [Addr -> Level \cup {None}]
  BY DEF Heap

-----------------------------------------------------------------------------
(* The operations on the cells map heaps to heaps.                         *)

(* Scope::addToChain. *)
LEMMA AddToChainType ==
    ASSUME NEW h \in Heap, NEW l \in Level, NEW c \in Addr
    PROVE  addToChain(h, l, c) \in Heap
<1>1. Scope(l) \in Addr
  BY Addresses
<1>2. h.next[Scope(l)] \in Addr
  BY <1>1, HeapFields
<1>3. SetPrev(h.prev, h.next[Scope(l)], c) \in [Addr -> Addr]
  BY HeapFields, SetPrevType
<1>4. [SetPrev(h.prev, h.next[Scope(l)], c) EXCEPT ![c] = Scope(l)] \in [Addr -> Addr]
  BY <1>1, <1>3
<1>5. [h.next EXCEPT ![c] = h.next[Scope(l)], ![Scope(l)] = c] \in [Addr -> Addr]
  BY <1>2, HeapFields
<1> QED
  BY <1>4, <1>5, HeapFields DEF addToChain, Heap

(* save(). *)
LEMMA SaveType ==
    ASSUME NEW h \in Heap, NEW o \in Obj, NEW top \in Level
    PROVE  save(h, o, top) \in Heap
<1>1. Self(o) \in Addr
  BY Addresses
<1>2. h.scope[Self(o)] \in Level \cup {None}
  BY <1>1, HeapFields
<1>3. /\ h.next[Self(o)] \in Addr /\ h.prev[Self(o)] \in Addr
      /\ h.restore[Self(o)] \in Addr /\ h.data[Self(o)] \in Val \cup {Absent}
  BY <1>1, HeapFields
<1> QED
  BY <1>2, <1>3, HeapFields DEF save, Heap

(* ContextObj::update. *)
LEMMA UpdateType ==
    ASSUME NEW h \in Heap, NEW o \in Obj, NEW top \in Level
    PROVE  update(h, o, top) \in Heap
<1> DEFINE c == Self(o)
           s == Copy(o, h.scope[c])
           saved == save(h, o, top)
           relinked ==
               [saved EXCEPT !.prev = SetPrev(@, saved.next[c], s),
                             !.next = [@ EXCEPT ![saved.prev[c]] = s],
                             !.scope = [@ EXCEPT ![c] = top],
                             !.restore = [@ EXCEPT ![c] = s]]
<1>1. c \in Addr /\ h.scope[c] \in Level \cup {None}
  BY Addresses, HeapFields
<1>2. s \in Addr
  BY <1>1, Addresses
<1>3. saved \in Heap
  BY SaveType
<1> HIDE DEF saved, s, c
<1>4. /\ SetPrev(saved.prev, saved.next[c], s) \in [Addr -> Addr]
      /\ [saved.next EXCEPT ![saved.prev[c]] = s] \in [Addr -> Addr]
      /\ [saved.scope EXCEPT ![c] = top] \in [Addr -> Level \cup {None}]
      /\ [saved.restore EXCEPT ![c] = s] \in [Addr -> Addr]
  BY <1>2, <1>3, HeapFields, SetPrevType
<1>5. relinked \in Heap
  BY <1>3, <1>4, HeapFields DEF Heap
<1>6. update(h, o, top) = addToChain(relinked, top, c)
  BY DEF update, saved, s, c
<1> QED
  BY <1>1, <1>5, <1>6, AddToChainType

(* ContextObj::makeCurrent. *)
LEMMA MakeCurrentType ==
    ASSUME NEW h \in Heap, NEW o \in Obj, NEW top \in Level
    PROVE  makeCurrent(h, o, top) \in Heap
  BY UpdateType DEF makeCurrent

(* The end of the life of a cell.                                          *)
LEMMA ReleaseType ==
    ASSUME NEW h \in Heap, NEW c
    PROVE  Release(h, c) \in Heap
  BY Addresses, HeapFields, ConstantsAssumption DEF Release, Heap

(* ContextObj::restoreAndContinue, for any address: ~Scope calls it on     *)
(* whatever the list of the scope points to.                               *)
LEMMA RestoreType ==
    ASSUME NEW h \in Heap, NEW o \in Obj \cup {NoObj}
    PROVE  restoreAndContinue(h, o) \in Heap
<1> DEFINE c == Self(o)
           r == h.restore[c]
           base == [h EXCEPT !.data = [@ EXCEPT ![c] = h.data[r]],
                             !.scope = [@ EXCEPT ![c] = h.scope[r]],
                             !.next = [@ EXCEPT ![c] = h.next[r]],
                             !.prev = [@ EXCEPT ![c] = h.prev[r]],
                             !.restore = [@ EXCEPT ![c] = h.restore[r]]]
           relinked == [base EXCEPT !.prev = SetPrev(@, base.next[c], c),
                                    !.next = [@ EXCEPT ![base.prev[c]] = c]]
<1>1. c \in Addr /\ r \in Addr
  BY Addresses, HeapFields
<1>2. /\ h.data[r] \in Val \cup {Absent} /\ h.scope[r] \in Level \cup {None}
      /\ h.next[r] \in Addr /\ h.prev[r] \in Addr /\ h.restore[r] \in Addr
  BY <1>1, HeapFields
<1>3. restoreAndContinue(h, o) =
         IF r = Null THEN [h EXCEPT !.scope = [@ EXCEPT ![c] = None]]
                     ELSE Release(relinked, r)
  BY DEF restoreAndContinue
<1> HIDE DEF r, c
<1>4. base \in Heap
  BY <1>1, <1>2, HeapFields DEF Heap
<1> HIDE DEF base
<1>5. /\ SetPrev(base.prev, base.next[c], c) \in [Addr -> Addr]
      /\ [base.next EXCEPT ![base.prev[c]] = c] \in [Addr -> Addr]
  BY <1>1, <1>4, HeapFields, SetPrevType
<1>6. relinked \in Heap
  BY <1>4, <1>5, HeapFields DEF Heap
<1>7. [h EXCEPT !.scope = [@ EXCEPT ![c] = None]] \in Heap
  BY HeapFields DEF Heap
<1> QED
  BY <1>3, <1>6, <1>7, ReleaseType

(* The loop of ContextObj::destroy. *)
LEMMA UnlinkType ==
    ASSUME NEW h \in Heap, NEW c \in Addr
    PROVE  Unlink(h, c) \in Heap
<1>1. h.next[c] \in Addr /\ h.prev[c] \in Addr
  BY HeapFields
<1>2. /\ SetPrev(h.prev, h.next[c], h.prev[c]) \in [Addr -> Addr]
      /\ [h.next EXCEPT ![h.prev[c]] = h.next[c]] \in [Addr -> Addr]
  BY <1>1, HeapFields, SetPrevType
<1> QED
  BY <1>2, HeapFields DEF Unlink, Heap

(* The constructor of ContextObj. *)
LEMMA NewContextObjType ==
    ASSUME NEW h \in Heap, NEW o \in Obj
    PROVE  NewContextObj(h, o) \in Heap
<1> DEFINE g == [h EXCEPT !.scope = [@ EXCEPT ![Self(o)] = 0],
                          !.restore = [@ EXCEPT ![Self(o)] = Null],
                          !.data = [@ EXCEPT ![Self(o)] = Blank[o]]]
<1>1. 0 \in Level
  BY ConstantsAssumption DEF Level
<1>2. g \in Heap
  BY <1>1, Addresses, BlankType, HeapFields DEF Heap
<1>3. Self(o) \in Addr
  BY Addresses
<1> QED
  BY <1>1, <1>2, <1>3, AddToChainType DEF NewContextObj

(* Writing the data of an object. *)
LEMMA SetDataType ==
    ASSUME NEW h \in Heap, NEW o \in Obj, NEW v \in Val
    PROVE  SetData(h, o, v) \in Heap
  BY HeapFields DEF SetData, Heap

-----------------------------------------------------------------------------
(* A freshly constructed Context is well typed.                            *)
LEMMA InitIInv == Init => IInv
<1> SUFFICES ASSUME Init PROVE IInv
  OBVIOUS
<1>1. heap \in Heap
  BY Addresses, ConstantsAssumption DEF Init, Heap
<1>2. level \in Level /\ garbage \in Seq(Obj)
  BY ConstantsAssumption DEF Init, Level
<1> QED
  BY <1>1, <1>2 DEF Init, IInv, TypeOK, StageOK

(* Every operation keeps the context well typed.                           *)
LEMMA NextIInv == IInv /\ [Next]_vars => IInv'
<1> SUFFICES ASSUME IInv, [Next]_vars PROVE IInv'
  OBVIOUS
<1> USE DEF IInv, TypeOK, StageOK
<1>a. heap \in Heap /\ level \in Level /\ level \in Int /\ MaxLevel \in Nat
  BY ConstantsAssumption DEF Level
<1>b. \A o \in Obj \cup {NoObj} : Self(o) \in Addr
  BY Addresses
<1>1. CASE push
  <2>1. level + 1 \in Level
    BY <1>1, <1>a DEF push, Level
  <2>2. heap' \in Heap
    BY <1>1, <1>a, <2>1, Addresses, HeapFields DEF push, Heap
  <2> QED
    BY <1>1, <2>1, <2>2 DEF push
<1>2. CASE pop
  BY <1>2 DEF pop
<1>3. CASE PopScope
  BY <1>3, <1>a DEF PopScope, Level
<1>4. CASE RestoreNext
  <2>1. level + 1 \in Level
    BY <1>4, <1>a DEF RestoreNext, Level
  <2> DEFINE first == heap.next[Scope(level + 1)]
             h == restoreAndContinue(heap, first[1])
  <2>2. first \in Addr /\ first[1] \in Obj \cup {NoObj}
    BY <1>a, <2>1, Addresses, HeapFields
  <2>3. h \in Heap
    BY <1>a, <2>2, RestoreType
  <2>4. heap.next[first] \in Addr
    BY <1>a, <2>2, HeapFields
  <2>5. /\ heap' = [h EXCEPT !.next = [@ EXCEPT ![Scope(level + 1)] = heap.next[first]]]
        /\ garbage' = IF first[1] \in Elem /\ h.data[first] = Absent
                      THEN Append(garbage, first[1]) ELSE garbage
        /\ UNCHANGED <<level, live, stage, dying>>
    BY <1>4 DEF RestoreNext
  <2> HIDE DEF h, first
  <2>6. heap' \in Heap
    BY <2>3, <2>4, <2>5, HeapFields DEF Heap
  <2>7. garbage' \in Seq(Obj)
    BY <2>5, ConstantsAssumption
  <2> QED
    BY <2>5, <2>6, <2>7
<1>5. CASE DeleteGarbage
  BY <1>5 DEF DeleteGarbage
<1>6. CASE PopRegion
  <2>1. heap' \in Heap
    BY <1>6, <1>a, HeapFields DEF PopRegion, Heap
  <2> QED
    BY <1>6, <2>1 DEF PopRegion
<1>7. CASE PopEnd
  BY <1>7 DEF PopEnd
<1>8. CASE DestroyStep
  <2>1. dying \in Obj /\ Self(dying) \in Addr
    BY <1>8, <1>b DEF DestroyStep
  <2>2. Unlink(heap, Self(dying)) \in Heap
    BY <2>1, <1>a, UnlinkType
  <2>3. /\ Release(Unlink(heap, Self(dying)), Self(dying)) \in Heap
        /\ restoreAndContinue(Unlink(heap, Self(dying)), dying) \in Heap
    BY <2>1, <2>2, ReleaseType, RestoreType
  <2>4. heap' \in Heap /\ dying' \in Obj \cup {NoObj}
    BY <1>8, <2>3 DEF DestroyStep
  <2> QED
    BY <1>8, <2>4 DEF DestroyStep
<1>9. ASSUME NEW o \in Obj, Construct(o) PROVE IInv'
  BY <1>9, <1>a, NewContextObjType DEF Construct
<1>10. ASSUME NEW o \in Obj, Destroy(o) PROVE IInv'
  BY <1>10 DEF Destroy
<1>11. ASSUME NEW o \in Obj, NEW v \in DataOf[o], ConstructWith(o, v) PROVE IInv'
  <2>a. v \in Val
    BY DEF Val
  <2>1. heap' \in Heap
    BY <1>11, <1>a, <2>a, NewContextObjType, MakeCurrentType, SetDataType DEF ConstructWith
  <2> QED
    BY <1>11, <2>1 DEF ConstructWith
<1>12. ASSUME NEW o \in Obj, NEW v \in DataOf[o], set(o, v) PROVE IInv'
  <2>a. v \in Val
    BY DEF Val
  <2>1. heap' \in Heap
    BY <1>12, <1>a, <2>a, MakeCurrentType, SetDataType DEF set
  <2> QED
    BY <1>12, <2>1 DEF set
<1>13. CASE UNCHANGED vars
  BY <1>13 DEF vars
<1> QED
  BY <1>1, <1>2, <1>3, <1>4, <1>5, <1>6, <1>7, <1>8, <1>9, <1>10, <1>11, <1>12, <1>13
  DEF Next

(* In every reachable state every pointer of a context, a saved copy or an *)
(* object is the address of a cell, and the level is in range (all of      *)
(* context.cpp), for any objects and any depth.                            *)
THEOREM ContextTypeCorrect == Spec => []TypeOK
<1>1. IInv => TypeOK
  BY DEF IInv
<1> QED
  BY <1>1, InitIInv, NextIInv, PTL DEF Spec

-----------------------------------------------------------------------------
(* The lists of the scopes.  C are the cells on the lists, H the heads of  *)
(* the lists, at the level of each, and the back links are right up to the *)
(* level top.                                                              *)
LinkedLists(N, P, at, C, H, top) ==
    /\ \A d \in C \cup H :
          N[d] # Null => /\ N[d] \in C /\ at[N[d]] = at[d]
                         /\ at[d] <= top => P[N[d]] = d
    /\ \A d, e \in C \cup H : N[d] = N[e] /\ N[d] # Null => d = e
    /\ \A c \in C : \E d \in C \cup H : N[d] = c

(* Following the links only goes forward.                                  *)
Forward(rank, N, C, H) ==
    /\ rank \in [Addr -> Nat]
    /\ \A d \in C \cup H : N[d] # Null => rank[d] < rank[N[d]]

Lists(N, P, at, C, H, top) ==
    /\ LinkedLists(N, P, at, C, H, top)
    /\ \E rank \in [Addr -> Nat] : Forward(rank, N, C, H)

(* The cells and the heads are apart, and neither is the null pointer.     *)
Apart(C, H) == C \cup H \subseteq Addr /\ C \cap H = {} /\ Null \notin C \cup H

(* A new first cell c of the list with head g.                             *)
Adds(N, P, at, C, H, g, c, N2, P2, at2) ==
    /\ g \in H /\ c \in Addr /\ c \notin C \cup H /\ c # Null
    /\ N2[c] = N[g] /\ N2[g] = c
    /\ \A d \in (C \cup H) \ {g} : N2[d] = N[d]
    /\ P2[c] = g /\ (N[g] # Null => P2[N[g]] = c)
    /\ \A d \in C \ {N[g]} : P2[d] = P[d]
    /\ at2[c] = at[g] /\ \A d \in C \cup H : at2[d] = at[d]

LEMMA ListsAdd ==
    ASSUME NEW N, NEW P, NEW at, NEW C, NEW H, NEW top, Apart(C, H), Lists(N, P, at, C, H, top),
           NEW g, NEW c, NEW N2, NEW P2, NEW at2, Adds(N, P, at, C, H, g, c, N2, P2, at2)
    PROVE  Lists(N2, P2, at2, C \cup {c}, H, top)
  <1> USE DEF Adds
  <1> DEFINE D == C \cup H
             E == (C \cup {c}) \cup H
  <1>1. LinkedLists(N, P, at, C, H, top)  BY DEF Lists
  <1>2. g \in D /\ c \notin D /\ E = D \cup {c} /\ \A d \in D : N[d] # c
    BY <1>1 DEF LinkedLists
  <1>3. ASSUME NEW d \in E, N2[d] # Null
        PROVE  /\ N2[d] \in C \cup {c} /\ at2[N2[d]] = at2[d]
               /\ at2[d] <= top => P2[N2[d]] = d
    <2>1. CASE d = c  BY <2>1, <1>1, <1>2, <1>3 DEF LinkedLists
    <2>2. CASE d = g
      <3>1. N2[d] = c /\ at2[d] = at[g] /\ d = g  BY <2>2, <1>2
      <3> QED  BY <3>1
    <2>3. CASE d # c /\ d # g
      <3>1. d \in D /\ N2[d] = N[d] /\ at2[d] = at[d]  BY <2>3, <1>2
      <3>2. N[d] \in C /\ at[N[d]] = at[d] /\ (at[d] <= top => P[N[d]] = d)
        BY <3>1, <1>1, <1>3 DEF LinkedLists
      <3>3. N[d] # N[g]  BY <3>1, <2>3, <1>1, <1>2, <1>3 DEF LinkedLists
      <3> QED  BY <3>1, <3>2, <3>3
    <2> QED  BY <2>1, <2>2, <2>3
  <1>4. ASSUME NEW d \in E, NEW e \in E, N2[d] = N2[e], N2[d] # Null  PROVE d = e
    <2>1. CASE d \in D \ {g} /\ e \in D \ {g}  BY <2>1, <1>1, <1>4 DEF LinkedLists
    <2>2. CASE d = g  BY <2>2, <1>1, <1>2, <1>4 DEF LinkedLists
    <2>3. CASE e = g  BY <2>3, <1>1, <1>2, <1>4 DEF LinkedLists
    <2>4. CASE d = c /\ e \in D \ {g}
      <3>1. N[g] = N[e] /\ N[g] # Null  BY <2>4, <1>4
      <3> QED  BY <3>1, <2>4, <1>1, <1>2 DEF LinkedLists
    <2>5. CASE e = c /\ d \in D \ {g}
      <3>1. N[g] = N[d] /\ N[g] # Null  BY <2>5, <1>4
      <3> QED  BY <3>1, <2>5, <1>1, <1>2 DEF LinkedLists
    <2>6. CASE d = c /\ e = c  BY <2>6
    <2> QED  BY <2>1, <2>2, <2>3, <2>4, <2>5, <2>6, <1>2
  <1>5. ASSUME NEW x \in C \cup {c}  PROVE \E d \in E : N2[d] = x
    <2>1. CASE x = c  BY <2>1, <1>2
    <2>2. CASE x # c
      <3>1. PICK d \in D : N[d] = x  BY <2>2, <1>1 DEF LinkedLists
      <3>2. CASE d = g  BY <3>1, <3>2
      <3>3. CASE d # g  BY <3>1, <3>3, <1>2
      <3> QED  BY <3>2, <3>3
    <2> QED  BY <2>1, <2>2
  <1>6. LinkedLists(N2, P2, at2, C \cup {c}, H, top)  BY <1>3, <1>4, <1>5 DEF LinkedLists
  <1>7. PICK rank \in [Addr -> Nat] : Forward(rank, N, C, H)  BY DEF Lists
  <1> DEFINE new == [a \in Addr |-> IF a = g THEN 0 ELSE IF a = c THEN 1 ELSE rank[a] + 2]
  <1>8. new \in [Addr -> Nat]  OBVIOUS
  <1>9. ASSUME NEW d \in E, N2[d] # Null  PROVE new[d] < new[N2[d]]
    <2>1. d \in Addr /\ g \in Addr /\ c # g  BY <1>2 DEF Apart
    <2>2. CASE d = g  BY <2>1, <2>2
    <2>3. CASE d = c
      <3>1. N[g] \in C /\ N[g] # g /\ N[g] # c /\ N[g] \in Addr
        BY <2>3, <1>1, <1>2, <1>9 DEF LinkedLists, Apart
      <3> QED  BY <3>1, <2>1, <2>3
    <2>4. CASE d # g /\ d # c
      <3>1. d \in D /\ N2[d] = N[d]  BY <2>4
      <3>2. N[d] \in C /\ N[d] # g /\ N[d] # c /\ N[d] \in Addr
        BY <3>1, <1>1, <1>2, <1>9 DEF LinkedLists, Apart
      <3>3. rank[d] < rank[N[d]]  BY <3>1, <1>7, <1>9 DEF Forward
      <3> QED  BY <3>1, <3>2, <3>3, <2>1, <2>4
    <2> QED  BY <2>2, <2>3, <2>4
  <1> HIDE DEF new
  <1>10. Forward(new, N2, C \cup {c}, H)  BY <1>8, <1>9 DEF Forward
  <1> QED  BY <1>6, <1>8, <1>10 DEF Lists

(* The cell y takes the place of x.                                        *)
Replaces(N, P, at, C, H, x, y, N2, P2, at2) ==
    /\ x \in C /\ y \in Addr /\ y \notin C \cup H /\ y # Null
    /\ N2[y] = N[x] /\ N2[P[x]] = y
    /\ \A d \in (C \cup H) \ {x, P[x]} : N2[d] = N[d]
    /\ P2[y] = P[x] /\ (N[x] # Null => P2[N[x]] = y)
    /\ \A d \in C \ {x, N[x]} : P2[d] = P[d]
    /\ at2[y] = at[x] /\ \A d \in (C \cup H) \ {x} : at2[d] = at[d]

LEMMA ListsReplace ==
    ASSUME NEW N, NEW P, NEW at, NEW C, NEW H, NEW top, Apart(C, H), Lists(N, P, at, C, H, top),
           NEW x, NEW y, NEW N2, NEW P2, NEW at2, Replaces(N, P, at, C, H, x, y, N2, P2, at2),
           at[x] <= top
    PROVE  Lists(N2, P2, at2, (C \ {x}) \cup {y}, H, top)
  <1> USE DEF Replaces
  <1> DEFINE D == C \cup H
             B == (C \ {x}) \cup {y}
             E == B \cup H
             p == P[x]
  <1>1. LinkedLists(N, P, at, C, H, top)  BY DEF Lists
  <1>2. PICK rank \in [Addr -> Nat] : Forward(rank, N, C, H)  BY DEF Lists
  <1>3. p \in D /\ N[p] = x /\ at[p] = at[x]
    <2>1. PICK d \in D : N[d] = x  BY <1>1 DEF LinkedLists
    <2>2. x # Null  BY DEF Apart
    <2> QED  BY <2>1, <2>2, <1>1 DEF LinkedLists
  <1>4. x \in Addr /\ p # x
    <2>1. x \in Addr /\ x # Null  BY DEF Apart
    <2>2. rank[p] < rank[x]  BY <2>1, <1>2, <1>3 DEF Forward
    <2>3. rank[x] \in Nat  BY <2>1
    <2> QED  BY <2>1, <2>2, <2>3
  <1> HIDE DEF p
  <1>5. N2[p] = y /\ P2[y] = p /\ \A d \in D \ {x, p} : N2[d] = N[d]  BY DEF p
  <1>6. /\ E = (D \ {x}) \cup {y} /\ y \notin D /\ p \in E
        /\ \A d \in D : N[d] # y
    BY <1>1, <1>3, <1>4 DEF LinkedLists, Apart
  <1>7. \A d \in D \ {p} : N[d] # x  BY <1>1, <1>3 DEF LinkedLists, Apart
  <1>8. N[x] # x  BY <1>4, <1>7
  <1>9. ASSUME NEW d \in E, N2[d] # Null
        PROVE  /\ N2[d] \in B /\ at2[N2[d]] = at2[d]
               /\ at2[d] <= top => P2[N2[d]] = d
    <2>1. CASE d = y
      <3>1. N2[d] = N[x] /\ N[x] # Null /\ at2[d] = at[x]  BY <2>1, <1>9
      <3>2. N[x] \in C /\ at[N[x]] = at[x]  BY <3>1, <1>1 DEF LinkedLists
      <3> QED  BY <3>1, <3>2, <2>1, <1>8
    <2>2. CASE d = p  BY <2>2, <1>3, <1>4, <1>5, <1>6
    <2>3. CASE d # y /\ d # p
      <3>1. d \in D \ {x, p} /\ N2[d] = N[d] /\ at2[d] = at[d]  BY <2>3, <1>5, <1>6
      <3>2. N[d] \in C /\ at[N[d]] = at[d] /\ (at[d] <= top => P[N[d]] = d) /\ N[d] # x
        BY <3>1, <1>1, <1>7, <1>9 DEF LinkedLists
      <3>3. N[d] # N[x]  BY <3>1, <3>2, <1>1, <1>9 DEF LinkedLists
      <3> QED  BY <3>1, <3>2, <3>3
    <2> QED  BY <2>1, <2>2, <2>3
  <1>10. ASSUME NEW d \in E, NEW e \in E, N2[d] = N2[e], N2[d] # Null  PROVE d = e
    <2> DEFINE old(a) == IF a = y THEN x ELSE a
    <2>1. \A a \in E : old(a) \in D /\ (a # p => N2[a] = N[old(a)])
      BY <1>5, <1>6
    <2>2. \A a \in E : a # p => N2[a] # y
      <3> TAKE a \in E
      <3>1. old(a) \in D  BY <2>1
      <3> HIDE DEF old
      <3> QED  BY <3>1, <2>1, <1>6
    <2>3. CASE d # p /\ e # p
      <3>1. N[old(d)] = N[old(e)] /\ N[old(d)] # Null  BY <2>1, <2>3, <1>10
      <3>2. old(d) = old(e)
        <4>1. old(d) \in D /\ old(e) \in D  BY <2>1
        <4> HIDE DEF old
        <4> QED  BY <4>1, <3>1, <1>1 DEF LinkedLists
      <3> QED  BY <3>2, <1>6
    <2>4. CASE d = p  BY <2>2, <2>4, <1>5, <1>10
    <2>5. CASE e = p  BY <2>2, <2>5, <1>5, <1>10
    <2> QED  BY <2>3, <2>4, <2>5
  <1>11. ASSUME NEW c \in B  PROVE \E d \in E : N2[d] = c
    <2>1. CASE c = y  BY <2>1, <1>5, <1>6
    <2>2. CASE c # y
      <3>1. PICK d \in D : N[d] = c  BY <2>2, <1>1 DEF LinkedLists
      <3>2. d # p  BY <3>1, <2>2, <1>3
      <3>3. CASE d = x  BY <3>1, <3>3
      <3>4. CASE d # x  BY <3>1, <3>2, <3>4, <1>5, <1>6
      <3> QED  BY <3>3, <3>4
    <2> QED  BY <2>1, <2>2
  <1>12. LinkedLists(N2, P2, at2, B, H, top)  BY <1>9, <1>10, <1>11 DEF LinkedLists
  <1> DEFINE new == [a \in Addr |-> IF a = y THEN rank[x] ELSE rank[a]]
  <1>13. new \in [Addr -> Nat]  BY <1>4
  <1>14. ASSUME NEW d \in E, N2[d] # Null  PROVE new[d] < new[N2[d]]
    <2>1. d \in Addr /\ p \in Addr  BY <1>3, <1>6 DEF Apart
    <2>2. CASE d = y
      <3>1. N[x] \in C /\ N[x] # y /\ N[x] \in Addr /\ rank[x] < rank[N[x]] /\ N2[d] = N[x]
        BY <2>2, <1>1, <1>2, <1>6, <1>14 DEF LinkedLists, Apart, Forward
      <3> QED  BY <3>1, <2>1, <2>2
    <2>3. CASE d = p
      <3>1. rank[p] < rank[x]  BY <1>2, <1>3 DEF Forward, Apart
      <3> QED  BY <3>1, <2>1, <2>3, <1>3, <1>5, <1>6
    <2>4. CASE d # y /\ d # p
      <3>1. d \in D \ {x, p} /\ N2[d] = N[d]  BY <2>4, <1>5, <1>6
      <3>2. N[d] \in C /\ N[d] # y /\ N[d] \in Addr /\ rank[d] < rank[N[d]]
        BY <3>1, <1>1, <1>2, <1>6, <1>14 DEF LinkedLists, Apart, Forward
      <3> QED  BY <3>1, <3>2, <2>1, <2>4
    <2> QED  BY <2>2, <2>3, <2>4
  <1> HIDE DEF new
  <1>15. Forward(new, N2, B, H)  BY <1>13, <1>14 DEF Forward
  <1> QED  BY <1>12, <1>13, <1>15 DEF Lists

(* The cell x leaves its list: by the back link, or as the first cell of   *)
(* the list with head g, in which case the back links stay as they are.    *)
Removes(N, P, at, C, H, top, p, x, N2, P2) ==
    /\ x \in C /\ p \in C \cup H /\ N[p] = x
    /\ N2[p] = N[x]
    /\ \A d \in (C \cup H) \ {x, p} : N2[d] = N[d]
    /\ at[x] <= top /\ N[x] # Null => P2[N[x]] = p
    /\ \A d \in C \ {x, N[x]} : P2[d] = P[d]

LEMMA ListsRemove ==
    ASSUME NEW N, NEW P, NEW at, NEW C, NEW H, NEW top, Apart(C, H), Lists(N, P, at, C, H, top),
           NEW x, NEW p, NEW N2, NEW P2, Removes(N, P, at, C, H, top, p, x, N2, P2)
    PROVE  Lists(N2, P2, at, C \ {x}, H, top)
  <1> USE DEF Removes
  <1> DEFINE D == C \cup H
             B == C \ {x}
             E == B \cup H
  <1>1. LinkedLists(N, P, at, C, H, top)  BY DEF Lists
  <1>2. PICK rank \in [Addr -> Nat] : Forward(rank, N, C, H)  BY DEF Lists
  <1>3. x \in Addr /\ x # Null /\ x \in D /\ x \notin H /\ E = D \ {x} /\ at[p] = at[x]
    BY <1>1 DEF Apart, LinkedLists
  <1>4. rank[p] < rank[x] /\ p # x
    <2>1. rank[p] < rank[x]  BY <1>2, <1>3 DEF Forward
    <2>2. rank[x] \in Nat  BY <1>3
    <2> QED  BY <2>1, <2>2
  <1>5. \A d \in D \ {p} : N[d] # x  BY <1>1, <1>3 DEF LinkedLists
  <1>6. N[x] # Null => N[x] \in B /\ at[N[x]] = at[x]  BY <1>1, <1>3, <1>4, <1>5 DEF LinkedLists
  <1>7. ASSUME NEW d \in E, N2[d] # Null
        PROVE  /\ N2[d] \in B /\ at[N2[d]] = at[d]
               /\ at[d] <= top => P2[N2[d]] = d
    <2>1. CASE d = p  BY <2>1, <1>3, <1>6, <1>7
    <2>2. CASE d # p
      <3>1. d \in D \ {x, p} /\ N2[d] = N[d]  BY <2>2, <1>3
      <3>2. N[d] \in C /\ at[N[d]] = at[d] /\ (at[d] <= top => P[N[d]] = d) /\ N[d] # x
        BY <3>1, <1>1, <1>5, <1>7 DEF LinkedLists
      <3>3. N[d] # N[x]  BY <3>1, <3>2, <1>1, <1>3, <1>7 DEF LinkedLists
      <3> QED  BY <3>1, <3>2, <3>3
    <2> QED  BY <2>1, <2>2
  <1>8. ASSUME NEW d \in E, NEW e \in E, N2[d] = N2[e], N2[d] # Null  PROVE d = e
    <2> DEFINE old(a) == IF a = p THEN x ELSE a
    <2>1. \A a \in E : old(a) \in D /\ N2[a] = N[old(a)]  BY <1>3
    <2>2. N[old(d)] = N[old(e)] /\ N[old(d)] # Null  BY <2>1, <1>8
    <2>3. old(d) = old(e)
      <3>1. old(d) \in D /\ old(e) \in D  BY <2>1
      <3> HIDE DEF old
      <3> QED  BY <3>1, <2>2, <1>1 DEF LinkedLists
    <2> QED  BY <2>3, <1>3
  <1>9. ASSUME NEW c \in B  PROVE \E d \in E : N2[d] = c
    <2>1. PICK d \in D : N[d] = c  BY <1>1 DEF LinkedLists
    <2>2. d # p  BY <2>1
    <2>3. CASE d = x  BY <2>1, <2>3, <1>3, <1>4
    <2>4. CASE d # x  BY <2>1, <2>2, <2>4, <1>3
    <2> QED  BY <2>3, <2>4
  <1>10. LinkedLists(N2, P2, at, B, H, top)  BY <1>7, <1>8, <1>9 DEF LinkedLists
  <1>11. ASSUME NEW d \in E, N2[d] # Null  PROVE rank[d] < rank[N2[d]]
    <2>1. d \in Addr /\ p \in Addr  BY <1>3 DEF Apart
    <2>2. CASE d = p
      <3>1. N2[d] = N[x] /\ N[x] \in Addr /\ rank[x] < rank[N[x]]
        BY <2>2, <1>2, <1>3, <1>6, <1>11 DEF Forward, Apart
      <3>2. rank[p] \in Nat /\ rank[x] \in Nat /\ rank[N[x]] \in Nat  BY <3>1, <2>1, <1>3
      <3> QED  BY <3>1, <3>2, <2>2, <1>4
    <2>3. CASE d # p
      <3>1. d \in D \ {x, p} /\ N2[d] = N[d]  BY <2>3, <1>3
      <3> QED  BY <3>1, <1>2, <1>11 DEF Forward
    <2> QED  BY <2>2, <2>3
  <1>12. Forward(rank, N2, B, H)  BY <1>11 DEF Forward
  <1> QED  BY <1>10, <1>12 DEF Lists

(* The same lists, with back links that are right up to a lower level.     *)
LEMMA ListsSame ==
    ASSUME NEW N, NEW P, NEW at, NEW C, NEW H, NEW top, Lists(N, P, at, C, H, top),
           NEW N2, NEW P2, NEW at2, NEW t,
           \A d \in C \cup H : N2[d] = N[d] /\ at2[d] = at[d] /\ (at[d] <= t => at[d] <= top),
           \A d \in C : P2[d] = P[d]
    PROVE  Lists(N2, P2, at2, C, H, t)
  <1>1. LinkedLists(N, P, at, C, H, top)  BY DEF Lists
  <1>2. LinkedLists(N2, P2, at2, C, H, t)  BY <1>1 DEF LinkedLists
  <1>3. PICK rank \in [Addr -> Nat] : Forward(rank, N, C, H)  BY DEF Lists
  <1>4. Forward(rank, N2, C, H)  BY <1>3 DEF Forward
  <1> QED  BY <1>2, <1>4 DEF Lists

(* A non-empty set of naturals has a least element.                        *)
LEMMA ContextLeastElement ==
    ASSUME NEW S, S \subseteq Nat, S # {}
    PROVE  \E n \in S : \A k \in S : n <= k
  <1> DEFINE R == {p \in Nat \X Nat : p[1] < p[2]}
  <1>1. IsWellFoundedOn(R, Nat)  BY NatLessThanWellFounded DEF OpToRel
  <1> HIDE DEF R
  <1>2. PICK n \in S : \A k \in S : ~(<<k, n>> \in R)  BY <1>1, WFMin
  <1>3. ASSUME NEW k \in S  PROVE n <= k
    <2>1. <<k, n>> \in Nat \X Nat  OBVIOUS
    <2>2. ~(k < n)  BY <2>1, <1>2 DEF R
    <2> QED  BY <2>2
  <1> QED  BY <1>3

(* A head with nothing behind it may come or go.                           *)
LEMMA ListsHead ==
    ASSUME NEW N, NEW P, NEW at, NEW C, NEW H, NEW top, NEW g, N[g] = Null,
           Null \notin C
    PROVE  Lists(N, P, at, C, H, top) <=> Lists(N, P, at, C, H \cup {g}, top)
  <1> DEFINE G == H \cup {g}
  <1>1. ASSUME LinkedLists(N, P, at, C, H, top)  PROVE LinkedLists(N, P, at, C, G, top)
    BY <1>1 DEF LinkedLists
  <1>2. ASSUME LinkedLists(N, P, at, C, G, top)  PROVE LinkedLists(N, P, at, C, H, top)
    <2>1. ASSUME NEW c \in C  PROVE \E d \in C \cup H : N[d] = c
      <3>1. PICK d \in C \cup G : N[d] = c  BY <1>2 DEF LinkedLists
      <3>2. d # g  BY <3>1
      <3> QED  BY <3>1, <3>2
    <2> QED  BY <2>1, <1>2 DEF LinkedLists
  <1>3. ASSUME NEW rank  PROVE Forward(rank, N, C, H) <=> Forward(rank, N, C, G)
    BY DEF Forward
  <1> HIDE DEF G
  <1>4. Lists(N, P, at, C, H, top) <=> Lists(N, P, at, C, G, top)  BY <1>1, <1>2, <1>3 DEF Lists
  <1> QED  BY <1>4 DEF G

(* A list whose head has nothing behind it has no cells.                   *)
LEMMA ListEmpty ==
    ASSUME NEW N, NEW P, NEW at, NEW C, NEW H, NEW top, Apart(C, H), Lists(N, P, at, C, H, top),
           NEW g \in H, N[g] = Null, \A d \in H : at[d] = at[g] => d = g
    PROVE  \A c \in C : at[c] # at[g]
  <1>1. LinkedLists(N, P, at, C, H, top)  BY DEF Lists
  <1>2. PICK rank \in [Addr -> Nat] : Forward(rank, N, C, H)  BY DEF Lists
  <1> DEFINE B == {c \in C : at[c] = at[g]}
             R == {rank[c] : c \in B}
  <1> SUFFICES ASSUME B # {}  PROVE FALSE  OBVIOUS
  <1>3. R \subseteq Nat /\ R # {}  BY <1>2 DEF Apart
  <1>4. PICK n \in R : \A k \in R : n <= k
    <2> HIDE DEF R
    <2> QED  BY <1>3, ContextLeastElement
  <1>5. PICK c \in B : rank[c] = n  BY <1>4
  <1>6. c \in C /\ at[c] = at[g] /\ c # Null  BY <1>5 DEF Apart
  <1>7. PICK d \in C \cup H : N[d] = c  BY <1>1, <1>6 DEF LinkedLists
  <1>8. at[d] = at[g] /\ rank[d] < rank[c]  BY <1>1, <1>2, <1>6, <1>7 DEF LinkedLists, Forward
  <1>9. d \in C  BY <1>6, <1>7, <1>8
  <1>10. rank[d] \in R  BY <1>8, <1>9
  <1>11. rank[d] \in Nat /\ rank[c] \in Nat /\ rank[c] <= rank[d]
    BY <1>4, <1>5, <1>6, <1>9, <1>10 DEF Apart
  <1> QED  BY <1>8, <1>11

-----------------------------------------------------------------------------
(* The invariant of a heap h whose objects are E, with scopes 0 .. T, the  *)
(* ones up to top with back links, and the cells X on no list.             *)
Heads(T) == {Scope(l) : l \in 0 .. T}
Used(h, E) == {Self(o) : o \in E} \cup {a \in Addr : h.region[a] # None}
At(h) == [a \in Addr |-> IF a[2] = Live THEN h.scope[a] ELSE a[2]]

(* A saved copy is older than its object, and something restores it.       *)
CopyOK(h, E, a) ==
    /\ a[1] \in E /\ a[2] \in Level /\ h.scope[a] = a[2]
    /\ a[2] < h.scope[Self(a[1])]
    /\ \E c \in Used(h, E) : h.restore[c] = a

(* A version is restored from the newest older copy of its object.         *)
RestoreOK(h, c) ==
    /\ h.scope[c] = 0 => h.restore[c] = Null
    /\ h.scope[c] # 0 =>
          LET r == h.restore[c] IN
          /\ r # Null /\ r[1] = c[1]
          /\ r[2] = h.scope[r] /\ r[2] < h.scope[c]
          /\ h.region[r] = h.scope[c]
    /\ \A l \in Level : h.region[Copy(c[1], l)] # None /\ l < h.scope[c] => l <= h.restore[c][2]

Good(h, E, T, top, X) ==
    /\ h \in Heap
    /\ \A o \in E : h.scope[Self(o)] \in 0 .. T
    /\ \A a \in Addr : h.region[a] # None => CopyOK(h, E, a)
    /\ \A c \in Used(h, E) : RestoreOK(h, c)
    /\ Lists(h.next, h.prev, At(h), Used(h, E) \ X, Heads(T), top)

(* The parts of addresses.                                                 *)
LEMMA Names ==
    /\ Live \notin Level /\ None \notin Level /\ NoObj \notin Obj /\ 0 \in Level
    /\ \A l \in Level : l \in Nat /\ l >= 0
    /\ Null \in Addr
    /\ \A o \in Obj : Self(o) \in Addr /\ Self(o)[1] = o /\ Self(o)[2] = Live /\ Self(o) # Null
    /\ \A o \in Obj, l \in Level :
          /\ Copy(o, l) \in Addr /\ Copy(o, l)[1] = o /\ Copy(o, l)[2] = l
          /\ Copy(o, l) # Null
    /\ \A l \in Level : /\ Scope(l) \in Addr /\ Scope(l)[1] = NoObj /\ Scope(l)[2] = l
                        /\ Scope(l) # Null
    /\ \A a \in Addr : /\ a[1] \in Obj \cup {NoObj} /\ a[2] \in Level \cup {Live}
                       /\ a = Copy(a[1], a[2])
                       /\ a[2] = Live => a = Self(a[1])
  <1>1. Live \notin Level /\ None \notin Level /\ 0 \in Level /\ \A l \in Level : l \in Nat /\ l >= 0
    BY ConstantsAssumption DEF Live, None, Level
  <1>2. NoObj \notin Obj  BY ConstantsAssumption
  <1> QED  BY <1>1, <1>2 DEF Addr, Self, Copy, Scope, Null

(* Cells in use are apart from the heads of the lists.                     *)
LEMMA UsedCells ==
    ASSUME NEW h \in Heap, NEW E, E \subseteq Obj, NEW T \in Level,
           \A a \in Addr : h.region[a] # None => CopyOK(h, E, a)
    PROVE  /\ \A c \in Used(h, E) :
                 /\ c \in Addr /\ c # Null /\ c[1] \in E /\ c \notin Heads(T)
                 /\ c = Self(c[1]) \/ (h.region[c] # None /\ c[2] \in Level)
                 /\ At(h)[c] = h.scope[c]
           /\ \A X : Apart(Used(h, E) \ X, Heads(T))
           /\ \A l \in Level : At(h)[Scope(l)] = l
           /\ \A l \in 0 .. T : l \in Level
           /\ \A a \in Addr : a[2] = Live \/ a[1] = NoObj => h.region[a] = None
  <1>1. \A l \in 0 .. T : l \in Level  BY ConstantsAssumption DEF Level
  <1>2. ASSUME NEW c \in Used(h, E)
        PROVE  /\ c \in Addr /\ c # Null /\ c[1] \in E /\ c \notin Heads(T)
               /\ c = Self(c[1]) \/ (h.region[c] # None /\ c[2] \in Level)
               /\ At(h)[c] = h.scope[c]
    <2>1. CASE \E o \in E : c = Self(o)
      <3>1. PICK o \in E : c = Self(o)  BY <2>1
      <3>2. c \in Addr /\ c # Null /\ c[1] = o /\ c[2] = Live  BY <3>1, Names
      <3>3. c \notin Heads(T)  BY <3>2, <1>1, Names DEF Heads
      <3> QED  BY <3>1, <3>2, <3>3 DEF At
    <2>2. CASE h.region[c] # None /\ c \in Addr
      <3>1. c[1] \in E /\ c[2] \in Level /\ h.scope[c] = c[2]  BY <2>2 DEF CopyOK
      <3>2. c # Null /\ c \notin Heads(T) /\ c[2] # Live
        BY <3>1, <1>1, Names DEF Heads, Null
      <3> QED  BY <3>1, <3>2, <2>2 DEF At
    <2> QED  BY <2>1, <2>2 DEF Used
  <1>3. \A g \in Heads(T) : g \in Addr /\ g # Null  BY <1>1, Names DEF Heads
  <1>4. \A X : Apart(Used(h, E) \ X, Heads(T))  BY <1>2, <1>3 DEF Apart
  <1>5. \A l \in Level : At(h)[Scope(l)] = l  BY Names DEF At
  <1>6. ASSUME NEW a \in Addr, a[2] = Live \/ a[1] = NoObj  PROVE h.region[a] = None
    BY <1>6, Names DEF CopyOK
  <1> QED  BY <1>1, <1>2, <1>4, <1>5, <1>6

(* Scope::addToChain, field by field.                                      *)
LEMMA AddToChainFields ==
    ASSUME NEW h \in Heap, NEW l \in Level, NEW c \in Addr, c # Scope(l)
    PROVE  LET g == addToChain(h, l, c)
               first == h.next[Scope(l)]
           IN /\ g \in Heap
              /\ g.scope = h.scope /\ g.restore = h.restore
              /\ g.data = h.data /\ g.region = h.region
              /\ g.next[c] = first /\ g.next[Scope(l)] = c
              /\ \A a \in Addr : a # c /\ a # Scope(l) => g.next[a] = h.next[a]
              /\ g.prev[c] = Scope(l)
              /\ first # Null /\ first # c => g.prev[first] = c
              /\ \A a \in Addr : a # c /\ a # first => g.prev[a] = h.prev[a]
  <1> DEFINE g == addToChain(h, l, c)
             first == h.next[Scope(l)]
             P == SetPrev(h.prev, first, c)
  <1>1. g \in Heap  BY AddToChainType
  <1>2. Scope(l) \in Addr  BY Names
  <1>3. /\ g.scope = h.scope /\ g.restore = h.restore
        /\ g.data = h.data /\ g.region = h.region
        /\ g.next = [h.next EXCEPT ![c] = first, ![Scope(l)] = c]
        /\ g.prev = [P EXCEPT ![c] = Scope(l)]
    BY DEF addToChain, Heap
  <1>4. first \in Addr /\ h.next \in [Addr -> Addr] /\ P \in [Addr -> Addr]
        /\ h.prev \in [Addr -> Addr]
    BY <1>2, HeapFields, SetPrevType
  <1>5. /\ first # Null => P[first] = c
        /\ \A a \in Addr : a # first => P[a] = h.prev[a]
    BY <1>4 DEF SetPrev
  <1> HIDE DEF g, first, P
  <1>6. /\ g.next[c] = first /\ g.next[Scope(l)] = c
        /\ \A a \in Addr : a # c /\ a # Scope(l) => g.next[a] = h.next[a]
    BY <1>2, <1>3, <1>4
  <1>7. /\ g.prev[c] = Scope(l)
        /\ first # Null /\ first # c => g.prev[first] = c
        /\ \A a \in Addr : a # c /\ a # first => g.prev[a] = h.prev[a]
    BY <1>3, <1>4, <1>5
  <1> QED  BY <1>1, <1>3, <1>6, <1>7 DEF g, first

(* What RestoreOK depends on.                                              *)
LEMMA RestoreFrame ==
    ASSUME NEW h, NEW g, NEW c, RestoreOK(h, c),
           g.scope[c] = h.scope[c], g.restore[c] = h.restore[c],
           h.scope[c] # 0 => /\ g.scope[h.restore[c]] = h.scope[h.restore[c]]
                             /\ g.region[h.restore[c]] = h.region[h.restore[c]],
           \A l \in Level : l < h.scope[c] /\ g.region[Copy(c[1], l)] # None
                               => h.region[Copy(c[1], l)] # None
    PROVE  RestoreOK(g, c)
  BY DEF RestoreOK

(* The constructor of ContextObj. *)
LEMMA NewContextObjGood ==
    ASSUME NEW h, NEW E, E \subseteq Obj, NEW T \in Level, NEW top,
           Good(h, E, T, top, {}), NEW o \in Obj, o \notin E
    PROVE  LET g == NewContextObj(h, o) IN
           /\ Good(g, E \cup {o}, T, top, {})
           /\ g.scope = [h.scope EXCEPT ![Self(o)] = 0]
           /\ g.data = [h.data EXCEPT ![Self(o)] = Blank[o]]
           /\ g.region = h.region
  <1> DEFINE c == Self(o)
             m == [h EXCEPT !.scope = [@ EXCEPT ![c] = 0],
                            !.restore = [@ EXCEPT ![c] = Null],
                            !.data = [@ EXCEPT ![c] = Blank[o]]]
             g == addToChain(m, 0, c)
             F == E \cup {o}
             U == Used(h, E)
  <1>1. h \in Heap /\ \A a \in Addr : h.region[a] # None => CopyOK(h, E, a)  BY DEF Good
  <1>2. 0 \in Level /\ c \in Addr /\ c[1] = o /\ c[2] = Live /\ c # Null
        /\ \A l \in Level : c # Scope(l)
    BY Names
  <1>3. /\ m \in Heap /\ m.next = h.next /\ m.prev = h.prev /\ m.region = h.region
        /\ m.scope = [h.scope EXCEPT ![c] = 0]
        /\ m.restore = [h.restore EXCEPT ![c] = Null]
        /\ m.data = [h.data EXCEPT ![c] = Blank[o]]
    <2>1. /\ [h.scope EXCEPT ![c] = 0] \in [Addr -> Level \cup {None}]
          /\ [h.restore EXCEPT ![c] = Null] \in [Addr -> Addr]
          /\ [h.data EXCEPT ![c] = Blank[o]] \in [Addr -> Val \cup {Absent}]
      BY <1>1, <1>2, BlankType, Names, HeapFields
    <2> HIDE DEF c
    <2> QED  BY <2>1, <1>1 DEF Heap
  <1>4. NewContextObj(h, o) = g  BY DEF NewContextObj
  <1>5. U \subseteq Addr /\ c \notin U /\ \A x \in U : x # Null /\ x[1] \in E /\ x # c
    BY <1>1, <1>2, UsedCells
  <1> HIDE DEF m
  <1>6. /\ g \in Heap
        /\ g.scope = m.scope /\ g.restore = m.restore
        /\ g.data = m.data /\ g.region = m.region
        /\ g.next[c] = m.next[Scope(0)] /\ g.next[Scope(0)] = c
        /\ \A a \in Addr : a # c /\ a # Scope(0) => g.next[a] = m.next[a]
        /\ g.prev[c] = Scope(0)
        /\ m.next[Scope(0)] # Null /\ m.next[Scope(0)] # c => g.prev[m.next[Scope(0)]] = c
        /\ \A a \in Addr : a # c /\ a # m.next[Scope(0)] => g.prev[a] = m.prev[a]
    BY <1>2, <1>3, AddToChainFields
  <1> HIDE DEF g
  <1>7. /\ g.scope \in [Addr -> Level \cup {None}] /\ g.scope[c] = 0
        /\ \A a \in Addr : a # c => g.scope[a] = h.scope[a] /\ g.restore[a] = h.restore[a]
        /\ g.restore[c] = Null
        /\ g.region = h.region
    BY <1>1, <1>2, <1>3, <1>6, HeapFields
  <1>8. Used(g, F) = U \cup {c}  BY <1>7 DEF Used
  <1>9. \A p \in F : g.scope[Self(p)] \in 0 .. T
    <2> TAKE p \in F
    <2>1. CASE p = o  BY <2>1, <1>7, Names
    <2>2. CASE p # o
      <3>1. Self(p) \in Addr /\ Self(p) # c  BY <2>2, <1>2, Names
      <3> QED  BY <3>1, <2>2, <1>7 DEF Good
    <2> QED  BY <2>1, <2>2
  <1>10. ASSUME NEW a \in Addr, g.region[a] # None  PROVE CopyOK(g, F, a)
    <2>1. CopyOK(h, E, a)  BY <1>1, <1>7, <1>10
    <2>2. a[1] \in E /\ a[1] # o /\ a # c /\ Self(a[1]) # c /\ Self(a[1]) \in Addr
      BY <2>1, <1>2, Names DEF CopyOK
    <2>3. PICK x \in U : h.restore[x] = a  BY <2>1 DEF CopyOK
    <2>4. x \in Used(g, F) /\ g.restore[x] = a  BY <2>3, <1>5, <1>7, <1>8
    <2> QED  BY <2>1, <2>2, <2>4, <1>7 DEF CopyOK
  <1>11. ASSUME NEW x \in Used(g, F)  PROVE RestoreOK(g, x)
    <2>1. CASE x = c
      <3>1. \A l \in Level : ~(l < 0)  BY Names
      <3>2. g.scope[x] = 0 /\ g.restore[x] = Null  BY <2>1, <1>7
      <3> QED  BY <3>1, <3>2 DEF RestoreOK
    <2>2. CASE x \in U
      <3>1. RestoreOK(h, x) /\ x \in Addr /\ x # c /\ x[1] # o  BY <2>2, <1>5 DEF Good
      <3>2. h.restore[x] \in Addr  BY <3>1, <1>1, HeapFields
      <3>3. h.scope[x] # 0 => h.restore[x] # c  BY <3>1, <1>2 DEF RestoreOK
      <3> QED  BY <3>1, <3>2, <3>3, <1>7, RestoreFrame
    <2> QED  BY <2>1, <2>2, <1>8
  <1>12. Lists(g.next, g.prev, At(g), Used(g, F) \ {}, Heads(T), top)
    <2> DEFINE H == Heads(T)
    <2>1. Apart(U, H) /\ U \ {} = U
      <3>1. U \ {} = U  OBVIOUS
      <3>2. Apart(U \ {}, H)  BY <1>1, UsedCells
      <3> QED  BY <3>1, <3>2
    <2>2. Lists(h.next, h.prev, At(h), U, H, top)  BY <2>1 DEF Good
    <2>3. Scope(0) \in H /\ \A d \in H : \E l \in Level : d = Scope(l)
      <3>1. 0 \in 0 .. T /\ \A l \in 0 .. T : l \in Level  BY <1>1, Names, UsedCells
      <3> QED  BY <3>1 DEF Heads
    <2>4. c \notin U \cup H  BY <2>3, <1>2, <1>5
    <2>5. \A d \in U \cup H : d \in Addr /\ At(g)[d] = At(h)[d]  BY <2>1, <2>4, <1>7 DEF At, Apart
    <2>6. At(g)[c] = 0 /\ At(h)[Scope(0)] = 0
      BY <1>1, <1>2, <1>7, UsedCells DEF At
    <2>7. h.next[Scope(0)] # Null => h.next[Scope(0)] \in U
      BY <2>2, <2>3 DEF Lists, LinkedLists
    <2>8. /\ g.next[c] = h.next[Scope(0)] /\ g.next[Scope(0)] = c
          /\ \A d \in (U \cup H) \ {Scope(0)} : g.next[d] = h.next[d]
          /\ g.prev[c] = Scope(0) /\ (h.next[Scope(0)] # Null => g.prev[h.next[Scope(0)]] = c)
          /\ \A d \in U \ {h.next[Scope(0)]} : g.prev[d] = h.prev[d]
      BY <2>4, <2>5, <2>7, <1>3, <1>6
    <2> HIDE DEF H, U, c
    <2>9. Adds(h.next, h.prev, At(h), U, H, Scope(0), c, g.next, g.prev, At(g))
      BY <2>3, <2>4, <2>5, <2>6, <2>8, <1>2 DEF Adds
    <2>10. Lists(g.next, g.prev, At(g), U \cup {c}, H, top)  BY <2>1, <2>2, <2>9, ListsAdd
    <2> QED  BY <2>10, <1>8 DEF H
  <1>13. Good(g, F, T, top, {})  BY <1>6, <1>9, <1>10, <1>11, <1>12 DEF Good
  <1> QED  BY <1>3, <1>4, <1>6, <1>13

(* ContextObj::update up to addToChain, field by field.                    *)
LEMMA UpdateFields ==
    ASSUME NEW h \in Heap, NEW o \in Obj, NEW top \in Level, h.scope[Self(o)] \in Level
    PROVE  LET c == Self(o)
               s == Copy(o, h.scope[c])
           IN \E m \in Heap :
                 /\ update(h, o, top) = addToChain(m, top, c)
                 /\ m.next = [h.next EXCEPT ![s] = h.next[c], ![h.prev[c]] = s]
                 /\ m.prev = SetPrev([h.prev EXCEPT ![s] = h.prev[c]], h.next[c], s)
                 /\ m.scope = [h.scope EXCEPT ![s] = h.scope[c], ![c] = top]
                 /\ m.restore = [h.restore EXCEPT ![s] = h.restore[c], ![c] = s]
                 /\ m.data = [h.data EXCEPT ![s] = h.data[c]]
                 /\ m.region = [h.region EXCEPT ![s] = top]
  <1> DEFINE c == Self(o)
             s == Copy(o, h.scope[c])
             saved == save(h, o, top)
             m == [saved EXCEPT !.prev = SetPrev(@, saved.next[c], s),
                                !.next = [@ EXCEPT ![saved.prev[c]] = s],
                                !.scope = [@ EXCEPT ![c] = top],
                                !.restore = [@ EXCEPT ![c] = s]]
  <1>1. c \in Addr /\ s \in Addr /\ c # s
    BY Names
  <1>2. saved \in Heap  BY SaveType
  <1>3. /\ saved.next = [h.next EXCEPT ![s] = h.next[c]]
        /\ saved.prev = [h.prev EXCEPT ![s] = h.prev[c]]
        /\ saved.scope = [h.scope EXCEPT ![s] = h.scope[c]]
        /\ saved.restore = [h.restore EXCEPT ![s] = h.restore[c]]
        /\ saved.data = [h.data EXCEPT ![s] = h.data[c]]
        /\ saved.region = [h.region EXCEPT ![s] = top]
    BY DEF save
  <1>4. saved.next[c] = h.next[c] /\ saved.prev[c] = h.prev[c]  BY <1>1, <1>3, HeapFields
  <1>5. update(h, o, top) = addToChain(m, top, c)  BY DEF update
  <1> HIDE DEF saved, s, c
  <1>6. /\ m.prev = SetPrev(saved.prev, saved.next[c], s)
        /\ m.next = [saved.next EXCEPT ![saved.prev[c]] = s]
        /\ m.scope = [saved.scope EXCEPT ![c] = top]
        /\ m.restore = [saved.restore EXCEPT ![c] = s]
        /\ m.data = saved.data /\ m.region = saved.region
    BY <1>2 DEF Heap
  <1>7. m \in Heap
    <2>1. /\ SetPrev(saved.prev, saved.next[c], s) \in [Addr -> Addr]
          /\ [saved.next EXCEPT ![saved.prev[c]] = s] \in [Addr -> Addr]
          /\ [saved.scope EXCEPT ![c] = top] \in [Addr -> Level \cup {None}]
          /\ [saved.restore EXCEPT ![c] = s] \in [Addr -> Addr]
      BY <1>1, <1>2, HeapFields, SetPrevType
    <2> QED  BY <2>1, <1>2, HeapFields DEF Heap
  <1>8. /\ m.next = [h.next EXCEPT ![s] = h.next[c], ![h.prev[c]] = s]
        /\ m.prev = SetPrev([h.prev EXCEPT ![s] = h.prev[c]], h.next[c], s)
        /\ m.scope = [h.scope EXCEPT ![s] = h.scope[c], ![c] = top]
        /\ m.restore = [h.restore EXCEPT ![s] = h.restore[c], ![c] = s]
        /\ m.data = [h.data EXCEPT ![s] = h.data[c]]
        /\ m.region = [h.region EXCEPT ![s] = top]
    <2> HIDE DEF m
    <2> QED  BY <1>3, <1>4, <1>6
  <1> HIDE DEF m
  <1> QED  BY <1>5, <1>7, <1>8 DEF s, c

(* ContextObj::update saves the object and makes it current.               *)
LEMMA UpdateGood ==
    ASSUME NEW h, NEW E, E \subseteq Obj, NEW top \in Level,
           Good(h, E, top, top, {}), NEW o \in E, h.scope[Self(o)] # top
    PROVE  LET g == update(h, o, top)
               c == Self(o)
               s == Copy(o, h.scope[c])
           IN /\ Good(g, E, top, top, {})
              /\ h.scope[c] \in Level /\ h.scope[c] < top /\ h.region[s] = None
              /\ g.scope[c] = top
              /\ \A a \in Addr : a # s /\ a # c => g.scope[a] = h.scope[a]
              /\ g.data = [h.data EXCEPT ![s] = h.data[c]]
              /\ g.region = [h.region EXCEPT ![s] = top]
  <1> DEFINE c == Self(o)
             old == h.scope[c]
             s == Copy(o, old)
             g == update(h, o, top)
             U == Used(h, E)
             H == Heads(top)
  <1>1. h \in Heap /\ \A a \in Addr : h.region[a] # None => CopyOK(h, E, a)  BY DEF Good
  <1>2. old \in Level /\ old < top /\ top \in Nat /\ top # None /\ top # 0 /\ old \in Nat
    <2>1. old \in 0 .. top  BY DEF Good
    <2>2. top \in Nat /\ top # None  BY Names
    <2>3. old \in Level  BY <2>1, <1>1, UsedCells
    <2> QED  BY <2>1, <2>2, <2>3
  <1>3. /\ c \in Addr /\ s \in Addr /\ c # s /\ c[1] = o /\ s[1] = o /\ c[2] = Live /\ s[2] = old
        /\ c # Null /\ s # Null /\ \A l \in Level : c # Scope(l) /\ s # Scope(l)
    BY <1>2, Names
  <1>4. h.region[s] = None
    <2> SUFFICES ASSUME h.region[s] # None  PROVE FALSE  OBVIOUS
    <2>1. s[2] < h.scope[Self(s[1])]  BY <1>1, <1>3 DEF CopyOK
    <2> QED  BY <2>1, <1>2, <1>3
  <1>5. /\ \A x \in U : x \in Addr /\ x # Null /\ x[1] \in E /\ x # s
        /\ c \in U /\ h.region[c] = None
        /\ \A x \in U : x[1] = o /\ x # c => /\ h.region[x] # None /\ x[2] \in Level
                                             /\ h.scope[x] = x[2] /\ x[2] < old
    <2>1. c \in U  BY DEF Used
    <2>2. h.region[c] = None  BY <1>1, <1>3, UsedCells
    <2>3. \A x \in U : x \in Addr /\ x # Null /\ x[1] \in E  BY <1>1, UsedCells
    <2>4. \A x \in U : x # s
      <3>1. \A p \in E : Self(p) # s  BY <1>2, <1>3, Names
      <3> QED  BY <3>1, <1>4 DEF Used
    <2>5. ASSUME NEW x \in U, x[1] = o, x # c
          PROVE  h.region[x] # None /\ x[2] \in Level /\ h.scope[x] = x[2] /\ x[2] < old
      <3>1. h.region[x] # None /\ x \in Addr  BY <2>3, <2>5, <1>1, UsedCells
      <3> QED  BY <3>1, <2>5, <1>1 DEF CopyOK
    <2> QED  BY <2>1, <2>2, <2>3, <2>4, <2>5
  <1>6. PICK m \in Heap :
           /\ g = addToChain(m, top, c)
           /\ m.next = [h.next EXCEPT ![s] = h.next[c], ![h.prev[c]] = s]
           /\ m.prev = SetPrev([h.prev EXCEPT ![s] = h.prev[c]], h.next[c], s)
           /\ m.scope = [h.scope EXCEPT ![s] = old, ![c] = top]
           /\ m.restore = [h.restore EXCEPT ![s] = h.restore[c], ![c] = s]
           /\ m.data = [h.data EXCEPT ![s] = h.data[c]]
           /\ m.region = [h.region EXCEPT ![s] = top]
    BY <1>1, <1>2, UpdateFields
  <1>7. /\ g \in Heap
        /\ g.scope = m.scope /\ g.restore = m.restore
        /\ g.data = m.data /\ g.region = m.region
        /\ g.next[c] = m.next[Scope(top)] /\ g.next[Scope(top)] = c
        /\ \A a \in Addr : a # c /\ a # Scope(top) => g.next[a] = m.next[a]
        /\ g.prev[c] = Scope(top)
        /\ m.next[Scope(top)] # Null /\ m.next[Scope(top)] # c => g.prev[m.next[Scope(top)]] = c
        /\ \A a \in Addr : a # c /\ a # m.next[Scope(top)] => g.prev[a] = m.prev[a]
    <2>1. c \in Addr /\ c # Scope(top) /\ g = addToChain(m, top, c)  BY <1>3, <1>6
    <2> HIDE DEF g, c
    <2> QED  BY <2>1, AddToChainFields
  <1> HIDE DEF g
  <1>8. /\ g.scope[c] = top /\ g.scope[s] = old
        /\ g.restore[c] = s /\ g.restore[s] = h.restore[c]
        /\ g.region[s] = top
        /\ \A a \in Addr : a # s => g.region[a] = h.region[a]
        /\ \A a \in Addr : a # s /\ a # c => g.scope[a] = h.scope[a] /\ g.restore[a] = h.restore[a]
    <2>1. /\ h.scope \in [Addr -> Level \cup {None}] /\ h.restore \in [Addr -> Addr]
          /\ h.region \in [Addr -> Level \cup {None}]
      BY <1>1, HeapFields
    <2> HIDE DEF s, c, old
    <2> QED  BY <2>1, <1>3, <1>6, <1>7
  <1>9. Used(g, E) = U \cup {s}
    <2>1. \A a \in Addr : g.region[a] # None <=> a = s \/ h.region[a] # None
      BY <1>2, <1>4, <1>8
    <2> QED  BY <2>1, <1>3 DEF Used
  <1>10. ASSUME NEW p \in E  PROVE g.scope[Self(p)] \in 0 .. top
    <2>1. CASE p = o  BY <2>1, <1>2, <1>8
    <2>2. CASE p # o
      <3>1. Self(p) \in Addr /\ Self(p) # c /\ Self(p) # s  BY <2>2, <1>3, Names
      <3> QED  BY <3>1, <1>8 DEF Good
    <2> QED  BY <2>1, <2>2
  <1>11. ASSUME NEW a \in Addr, g.region[a] # None  PROVE CopyOK(g, E, a)
    <2>1. CASE a = s
      <3>1. c \in Used(g, E) /\ g.restore[c] = a  BY <2>1, <1>5, <1>8, <1>9
      <3> QED  BY <3>1, <2>1, <1>2, <1>3, <1>8 DEF CopyOK
    <2>2. CASE a # s
      <3>1. CopyOK(h, E, a) /\ a # c  BY <2>2, <1>1, <1>5, <1>8, <1>11
      <3>2. PICK x \in U : h.restore[x] = a  BY <3>1 DEF CopyOK
      <3>3. \E y \in Used(g, E) : g.restore[y] = a
        <4>1. CASE x = c  BY <4>1, <3>2, <1>8, <1>9
        <4>2. CASE x # c  BY <4>2, <3>2, <1>5, <1>8, <1>9
        <4> QED  BY <4>1, <4>2
      <3>4. a[2] < g.scope[Self(a[1])]
        <4>1. CASE a[1] = o
          <5>1. a[2] < old /\ a[2] \in Nat  BY <4>1, <3>1, Names DEF CopyOK
          <5> QED  BY <5>1, <4>1, <1>2, <1>8
        <4>2. CASE a[1] # o
          <5>1. a[1] \in Obj  BY <3>1 DEF CopyOK
          <5>2. Self(a[1]) \in Addr /\ Self(a[1]) # c /\ Self(a[1]) # s
            BY <5>1, <4>2, <1>2, <1>3, Names
          <5> QED  BY <5>2, <3>1, <1>8 DEF CopyOK
        <4> QED  BY <4>1, <4>2
      <3> QED  BY <3>1, <3>3, <3>4, <2>2, <1>8 DEF CopyOK
    <2> QED  BY <2>1, <2>2
  <1>12. ASSUME NEW x \in Used(g, E)  PROVE RestoreOK(g, x)
    <2>1. RestoreOK(h, c) /\ h.restore[c] \in Addr  BY <1>1, <1>3, <1>5, HeapFields DEF Good
    <2>2. CASE x = c
      <3>1. \A l \in Level : g.region[Copy(o, l)] # None => l <= old
        <4> SUFFICES ASSUME NEW l \in Level, g.region[Copy(o, l)] # None, l # old  PROVE l <= old
          BY <1>2
        <4> DEFINE a == Copy(o, l)
        <4>1. a \in Addr /\ a # s /\ a[1] = o /\ a[2] = l /\ l \in Nat  BY <1>3, Names
        <4> HIDE DEF a
        <4>2. CopyOK(h, E, a)  BY <4>1, <1>1, <1>8 DEF a
        <4> QED  BY <4>1, <4>2, <1>2 DEF CopyOK
      <3> QED  BY <3>1, <2>2, <1>2, <1>3, <1>8 DEF RestoreOK
    <2>3. CASE x = s
      <3>1. h.scope[c] # 0 => h.restore[c] # s /\ h.restore[c] # c
        BY <2>1, <1>2, <1>3, <1>4, <1>5 DEF RestoreOK
      <3>2. \A l \in Level : l < old /\ g.region[Copy(o, l)] # None
                                => h.region[Copy(o, l)] # None
        <4> SUFFICES ASSUME NEW l \in Level, l < old  PROVE g.region[Copy(o, l)] = h.region[Copy(o, l)]
          OBVIOUS
        <4>1. Copy(o, l) \in Addr /\ Copy(o, l)[2] = l /\ l \in Nat  BY Names
        <4>2. Copy(o, l) # s  BY <4>1, <1>2, <1>3
        <4> QED  BY <4>1, <4>2, <1>8
      <3> DEFINE r == h.restore[c]
      <3>3. g.scope[x] = old /\ g.restore[x] = r /\ x[1] = o  BY <2>3, <1>3, <1>8
      <3>4. old # 0 => g.scope[r] = h.scope[r] /\ g.region[r] = h.region[r]
        BY <3>1, <2>1, <1>8
      <3> QED  BY <3>2, <3>3, <3>4, <2>1, <1>3 DEF RestoreOK
    <2>4. CASE x # c /\ x # s
      <3>1. x \in U /\ x \in Addr /\ x[1] \in Obj /\ RestoreOK(h, x) /\ h.restore[x] \in Addr
        BY <2>4, <1>1, <1>5, <1>9, HeapFields DEF Good
      <3>2. h.scope[x] # 0 => h.restore[x] # s /\ h.restore[x] # c
        <4> SUFFICES ASSUME h.scope[x] # 0  PROVE h.restore[x] # s /\ h.restore[x] # c  OBVIOUS
        <4>1. h.region[h.restore[x]] = h.scope[x] /\ h.restore[x][2] < h.scope[x]
          BY <3>1 DEF RestoreOK
        <4>2. h.scope[x] # None
          <5>1. CASE x[2] = Live
            <6>1. h.scope[x] \in 0 .. top  BY <5>1, <3>1, <1>5, Names DEF Good
            <6> QED  BY <6>1 DEF None
          <5>2. CASE x[2] # Live
            <6>1. h.region[x] # None  BY <5>2, <3>1, <1>1, <1>5, UsedCells, Names
            <6>2. h.scope[x] \in Level  BY <6>1, <3>1, <1>1 DEF CopyOK
            <6> QED  BY <6>2, Names
          <5> QED  BY <5>1, <5>2
        <4> QED  BY <4>1, <4>2, <1>4, <1>5
      <3>3. \A l \in Level : l < h.scope[x] /\ g.region[Copy(x[1], l)] # None
                                => h.region[Copy(x[1], l)] # None
        <4> SUFFICES ASSUME NEW l \in Level, l < h.scope[x]
                     PROVE  g.region[Copy(x[1], l)] = h.region[Copy(x[1], l)]
          OBVIOUS
        <4>1. Copy(x[1], l) \in Addr /\ Copy(x[1], l)[1] = x[1] /\ Copy(x[1], l)[2] = l /\ l \in Nat
          BY <3>1, Names
        <4>2. Copy(x[1], l) # s
          <5>1. CASE x[1] # o  BY <5>1, <4>1, <1>3
          <5>2. CASE x[1] = o
            <6>1. h.scope[x] < old /\ h.scope[x] \in Nat  BY <5>2, <3>1, <2>4, <1>5, Names
            <6> QED  BY <6>1, <4>1, <1>2, <1>3
          <5> QED  BY <5>1, <5>2
        <4> QED  BY <4>1, <4>2, <1>8
      <3> QED  BY <3>1, <3>2, <3>3, <2>4, <1>8, RestoreFrame
    <2> QED  BY <2>2, <2>3, <2>4
  <1>13. Lists(g.next, g.prev, At(g), Used(g, E) \ {}, H, top)
    <2> DEFINE V == (U \ {c}) \cup {s}
    <2>1. Apart(U, H) /\ Lists(h.next, h.prev, At(h), U, H, top)
      <3>1. U \ {} = U  OBVIOUS
      <3>2. Apart(U \ {}, H)  BY <1>1, UsedCells
      <3> QED  BY <3>1, <3>2 DEF Good
    <2>2. Scope(top) \in H /\ \A d \in H : d \in Addr /\ \E l \in Level : d = Scope(l)
      <3>1. top \in 0 .. top /\ \A l \in 0 .. top : l \in Level  BY <1>1, <1>2, UsedCells
      <3> QED  BY <3>1, Names DEF Heads
    <2>3. c \notin H /\ s \notin H /\ s \notin U  BY <2>2, <1>3, <1>5
    <2>4. h.next \in [Addr -> Addr] /\ h.prev \in [Addr -> Addr]  BY <1>1, HeapFields
    <2>5. h.prev[c] # s /\ h.next[c] # s /\ h.next[c] # c /\ h.prev[c] \in U \cup H
          /\ h.prev[c] # c /\ h.next[h.prev[c]] = c
      <3>1. LinkedLists(h.next, h.prev, At(h), U, H, top)  BY <2>1 DEF Lists
      <3>2. PICK rank \in [Addr -> Nat] : Forward(rank, h.next, U, H)  BY <2>1 DEF Lists
      <3>3. PICK d \in U \cup H : h.next[d] = c  BY <3>1, <1>5 DEF LinkedLists
      <3>4. At(h)[c] = old /\ old <= top  BY <1>1, <1>2, <1>5, UsedCells
      <3>5. h.prev[c] = d  BY <3>1, <3>3, <3>4, <1>3 DEF LinkedLists
      <3>6. h.next[c] # s  BY <3>1, <2>3, <1>3, <1>5 DEF LinkedLists
      <3>7. c # d /\ h.next[c] # c
        <4>1. h.next[c] = c => rank[c] < rank[c]  BY <3>2, <1>3, <1>5 DEF Forward
        <4>2. rank[c] \in Nat  BY <1>3
        <4>3. h.next[c] # c  BY <4>1, <4>2
        <4> QED  BY <4>3, <3>3
      <3> QED  BY <3>3, <3>5, <3>6, <3>7, <2>3
    <2>6. /\ m.next[s] = h.next[c] /\ m.next[h.prev[c]] = s
          /\ \A d \in (U \cup H) \ {c, h.prev[c]} : m.next[d] = h.next[d]
      <3>1. \A d \in U \cup H : d \in Addr /\ d # s  BY <2>2, <2>3, <1>5
      <3> HIDE DEF U, H, s, c, old
      <3> QED  BY <3>1, <2>4, <2>5, <1>3, <1>6
    <2>7. /\ m.prev[s] = h.prev[c] /\ (h.next[c] # Null => m.prev[h.next[c]] = s)
          /\ \A d \in U \ {c, h.next[c]} : m.prev[d] = h.prev[d]
      <3>1. \A d \in U : d \in Addr /\ d # s  BY <1>5
      <3> DEFINE Q == [h.prev EXCEPT ![s] = h.prev[c]]
                 n == h.next[c]
      <3>2. n \in Addr /\ Q \in [Addr -> Addr]  BY <2>4, <1>3
      <3>3. Q[s] = h.prev[c] /\ \A d \in Addr : d # s => Q[d] = h.prev[d]  BY <2>4, <1>3
      <3>4. m.prev = SetPrev(Q, n, s) /\ n # s  BY <2>5, <1>6
      <3> HIDE DEF U, H, s, c, old, Q, n
      <3>5. m.prev[s] = Q[s] /\ (n # Null => m.prev[n] = s) /\ \A d \in Addr : d # n => m.prev[d] = Q[d]
        BY <3>2, <3>4, <1>3 DEF SetPrev
      <3> QED  BY <3>1, <3>3, <3>5, <1>3 DEF n
    <2>8. /\ At(m)[s] = At(h)[c] /\ At(m)[c] = top /\ At(h)[c] = old /\ At(m)[Scope(top)] = top
          /\ \A d \in (U \cup H) \ {c} : At(m)[d] = At(h)[d]
      <3>1. At(h)[c] = old  BY <1>1, <1>5, UsedCells
      <3>2. At(m)[s] = old  BY <1>2, <1>3, Names DEF At
      <3>3. At(m)[c] = top  BY <1>3, <1>6, <1>7, <1>8 DEF At
      <3>4. At(m)[Scope(top)] = top  BY Names DEF At
      <3>5. ASSUME NEW d \in (U \cup H) \ {c}  PROVE At(m)[d] = At(h)[d]
        <4>1. d \in Addr /\ d # s  BY <2>2, <2>3, <1>5
        <4>2. m.scope[d] = h.scope[d]  BY <4>1, <1>7, <1>8
        <4> QED  BY <4>1, <4>2 DEF At
      <3> QED  BY <3>1, <3>2, <3>3, <3>4, <3>5
    <2>9. Lists(m.next, m.prev, At(m), V, H, top)
      <3>1. Replaces(h.next, h.prev, At(h), U, H, c, s, m.next, m.prev, At(m))
        <4> HIDE DEF U, H, s, c, old
        <4> QED  BY <2>3, <2>6, <2>7, <2>8, <1>3, <1>5 DEF Replaces
      <3>2. At(h)[c] <= top  BY <2>8, <1>2
      <3> HIDE DEF U, H, s, c, old
      <3> QED  BY <3>1, <3>2, <2>1, ListsReplace
    <2>10. Apart(V, H)  BY <2>1, <2>3, <1>3 DEF Apart
    <2>11. m.next[Scope(top)] # Null => m.next[Scope(top)] \in V
      BY <2>2, <2>9 DEF Lists, LinkedLists
    <2>12. \A d \in V \cup H : d \in Addr /\ d # c  BY <2>2, <2>3, <1>3, <1>5
    <2>13. At(g) = At(m)  BY <1>7 DEF At
    <2>14. Lists(g.next, g.prev, At(g), V \cup {c}, H, top)
      <3>1. Adds(m.next, m.prev, At(m), V, H, Scope(top), c, g.next, g.prev, At(g))
        <4> HIDE DEF V, U, H, s, c, old
        <4> QED  BY <2>2, <2>8, <2>11, <2>12, <2>13, <1>3, <1>7 DEF Adds
      <3> HIDE DEF V, U, H, s, c, old
      <3> QED  BY <3>1, <2>9, <2>10, ListsAdd
    <2>15. V \cup {c} = Used(g, E) \ {}  BY <1>5, <1>9
    <2> QED  BY <2>14, <2>15
  <1>14. Good(g, E, top, top, {})  BY <1>7, <1>10, <1>11, <1>12, <1>13 DEF Good
  <1> QED  BY <1>2, <1>4, <1>6, <1>7, <1>8, <1>14 DEF g

(* ContextObj::restoreAndContinue on an object with a saved copy r, field  *)
(* by field: g is the heap after it.                                       *)
Restores(h, g, o) ==
    LET c == Self(o)
        r == h.restore[c]
    IN /\ g \in Heap
       /\ g.scope[c] = h.scope[r] /\ g.restore[c] = h.restore[r] /\ g.data[c] = h.data[r]
       /\ \A a \in Addr : a # c /\ a # r => /\ g.scope[a] = h.scope[a] /\ g.restore[a] = h.restore[a]
                                            /\ g.data[a] = h.data[a]
       /\ g.region[r] = None
       /\ \A a \in Addr : a # r => g.region[a] = h.region[a]
       /\ g.next[c] = h.next[r] /\ g.next[h.prev[r]] = c
       /\ \A a \in Addr : a # c /\ a # r /\ a # h.prev[r] => g.next[a] = h.next[a]
       /\ g.prev[c] = h.prev[r]
       /\ h.next[r] # Null => g.prev[h.next[r]] = c
       /\ \A a \in Addr : a # c /\ a # r /\ a # h.next[r] => g.prev[a] = h.prev[a]

(* The fields after restore has put back the newest copy of o.             *)
LEMMA RestoreFields ==
    ASSUME NEW h \in Heap, NEW o \in Obj, NEW c, c = Self(o), NEW r, r = h.restore[c],
           r # Null, r # c, h.prev[r] # r, h.next[r] # r, h.next[r] # c, h.prev[r] # c
    PROVE  Restores(h, restoreAndContinue(h, o), o)
  <1> DEFINE base == [h EXCEPT !.data = [@ EXCEPT ![c] = h.data[r]],
                               !.scope = [@ EXCEPT ![c] = h.scope[r]],
                               !.next = [@ EXCEPT ![c] = h.next[r]],
                               !.prev = [@ EXCEPT ![c] = h.prev[r]],
                               !.restore = [@ EXCEPT ![c] = h.restore[r]]]
             m == [base EXCEPT !.prev = SetPrev(@, base.next[c], c),
                               !.next = [@ EXCEPT ![base.prev[c]] = c]]
             g == restoreAndContinue(h, o)
  <1>1. c \in Addr /\ r \in Addr  BY Names, HeapFields
  <1>2. /\ h.next \in [Addr -> Addr] /\ h.prev \in [Addr -> Addr]
        /\ h.scope \in [Addr -> Level \cup {None}] /\ h.restore \in [Addr -> Addr]
        /\ h.data \in [Addr -> Val \cup {Absent}] /\ h.region \in [Addr -> Level \cup {None}]
    BY HeapFields
  <1>3. g \in Heap  BY RestoreType
  <1>4. g = Release(m, r)  BY DEF restoreAndContinue
  <1>5. /\ base.data = [h.data EXCEPT ![c] = h.data[r]]
        /\ base.scope = [h.scope EXCEPT ![c] = h.scope[r]]
        /\ base.next = [h.next EXCEPT ![c] = h.next[r]]
        /\ base.prev = [h.prev EXCEPT ![c] = h.prev[r]]
        /\ base.restore = [h.restore EXCEPT ![c] = h.restore[r]]
        /\ base.region = h.region
    BY DEF Heap
  <1>6. /\ m.prev = SetPrev(base.prev, base.next[c], c)
        /\ m.next = [base.next EXCEPT ![base.prev[c]] = c]
        /\ m.data = base.data /\ m.scope = base.scope /\ m.restore = base.restore
        /\ m.region = base.region
    BY DEF Heap
  <1> HIDE DEF base
  <1>7. base.next[c] = h.next[r] /\ base.prev[c] = h.prev[r]
        /\ \A a \in Addr : a # c => base.next[a] = h.next[a] /\ base.prev[a] = h.prev[a]
    BY <1>1, <1>2, <1>5
  <1> HIDE DEF m, g
  <1>8. /\ g.next = [m.next EXCEPT ![r] = Null] /\ g.prev = [m.prev EXCEPT ![r] = Null]
        /\ g.scope = [m.scope EXCEPT ![r] = None] /\ g.restore = [m.restore EXCEPT ![r] = Null]
        /\ g.data = [m.data EXCEPT ![r] = Default] /\ g.region = [m.region EXCEPT ![r] = None]
    BY <1>4 DEF Release
  <1>9. /\ g.scope[c] = h.scope[r] /\ g.restore[c] = h.restore[r] /\ g.data[c] = h.data[r]
        /\ \A a \in Addr : a # c /\ a # r => /\ g.scope[a] = h.scope[a] /\ g.restore[a] = h.restore[a]
                                             /\ g.data[a] = h.data[a]
        /\ g.region[r] = None
        /\ \A a \in Addr : a # r => g.region[a] = h.region[a]
    BY <1>1, <1>2, <1>5, <1>6, <1>8
  <1>10. /\ m.next[c] = h.next[r] /\ m.next[h.prev[r]] = c
         /\ \A a \in Addr : a # c /\ a # h.prev[r] => m.next[a] = h.next[a]
         /\ m.next \in [Addr -> Addr]
    BY <1>1, <1>2, <1>5, <1>6, <1>7
  <1>11. /\ m.prev[c] = h.prev[r] /\ (h.next[r] # Null => m.prev[h.next[r]] = c)
         /\ \A a \in Addr : a # c /\ a # h.next[r] => m.prev[a] = h.prev[a]
         /\ m.prev \in [Addr -> Addr]
    BY <1>1, <1>2, <1>5, <1>6, <1>7, SMTT(30) DEF SetPrev
  <1>12. /\ g.next[c] = h.next[r] /\ g.next[h.prev[r]] = c
         /\ \A a \in Addr : a # c /\ a # r /\ a # h.prev[r] => g.next[a] = h.next[a]
    BY <1>1, <1>8, <1>10
  <1>13. /\ g.prev[c] = h.prev[r] /\ (h.next[r] # Null => g.prev[h.next[r]] = c)
         /\ \A a \in Addr : a # c /\ a # r /\ a # h.next[r] => g.prev[a] = h.prev[a]
    BY <1>1, <1>8, <1>11
  <1> QED  BY <1>3, <1>9, <1>12, <1>13 DEF Restores, g

(* The copy that an object is restored from.                               *)
FromCopy(h, E, o) ==
    LET c == Self(o)
        r == h.restore[c]
    IN /\ h.scope[c] \in Nat /\ h.scope[c] # 0
       /\ r \in Addr /\ r \in Used(h, E) /\ r # c /\ r[1] = o /\ r[2] \in Level
       /\ h.scope[r] = r[2] /\ r[2] < h.scope[c]
       /\ h.region[r] = h.scope[c] /\ h.region[r] # None
       /\ \A x \in Used(h, E) : x # c /\ x # r => h.restore[x] # r
       /\ \A a \in Addr : h.region[a] # None /\ a[1] = o => a[2] <= r[2]
       /\ \A a \in Addr : h.region[a] # None /\ a[1] = o /\ a # r => a[2] < r[2]

LEMMA RestoredCopy ==
    ASSUME NEW h, NEW E, E \subseteq Obj, NEW T \in Level, NEW top \in Nat, NEW X,
           Good(h, E, T, top, X), NEW o \in E, h.restore[Self(o)] # Null
    PROVE  FromCopy(h, E, o)
  <1> DEFINE c == Self(o)
             r == h.restore[c]
  <1>1. h \in Heap /\ \A a \in Addr : h.region[a] # None => CopyOK(h, E, a)  BY DEF Good
  <1>2. c \in Used(h, E) /\ RestoreOK(h, c) /\ c \in Addr /\ c[1] = o /\ c[2] = Live /\ o \in Obj
    <2>1. c \in Used(h, E)  BY DEF Used
    <2> QED  BY <2>1, Names DEF Good
  <1>3. h.scope[c] \in Nat /\ h.scope[c] # 0 /\ h.scope[c] # None
    <2>1. h.scope[c] \in 0 .. T  BY DEF Good
    <2> QED  BY <2>1, <1>2 DEF RestoreOK, None
  <1> HIDE DEF r, c
  <1>4. r # Null /\ r[1] = o /\ r[2] = h.scope[r] /\ r[2] < h.scope[c] /\ h.region[r] = h.scope[c]
    BY <1>2, <1>3 DEF RestoreOK, r
  <1>5. r \in Addr /\ h.region[r] # None /\ r \in Used(h, E)
    BY <1>1, <1>2, <1>3, <1>4, HeapFields DEF r, Used
  <1>6. r[2] \in Level /\ r # c /\ r[2] \in Nat  BY <1>1, <1>2, <1>5, Names DEF CopyOK
  <1>7. ASSUME NEW x \in Used(h, E), x # c, h.restore[x] = r  PROVE FALSE
    <2>1. RestoreOK(h, x) /\ x \in Addr /\ x[1] \in E  BY <1>1, UsedCells DEF Good
    <2>2. h.scope[x] # 0  BY <2>1, <1>4, <1>7 DEF RestoreOK
    <2>3. x[1] = o /\ h.scope[x] = h.scope[c]  BY <2>1, <2>2, <1>4, <1>7 DEF RestoreOK
    <2>4. h.region[x] # None  BY <2>1, <2>3, <1>1, <1>7, UsedCells DEF c
    <2>5. h.scope[x] = x[2] /\ x[2] < h.scope[c]  BY <2>1, <2>3, <2>4, <1>1 DEF CopyOK, c
    <2> QED  BY <2>3, <2>5, <1>3
  <1>8. ASSUME NEW a \in Addr, h.region[a] # None, a[1] = o  PROVE a[2] <= r[2]
    <2>1. a[2] \in Level /\ a[2] < h.scope[c]  BY <1>1, <1>8 DEF CopyOK, c
    <2>2. a = Copy(c[1], a[2])  BY <1>2, <1>8, Names
    <2> QED  BY <2>1, <2>2, <1>2, <1>8 DEF RestoreOK, r
  <1>9. ASSUME NEW a \in Addr, h.region[a] # None, a[1] = o, a # r  PROVE a[2] < r[2]
    <2>1. a[2] <= r[2]  BY <1>8, <1>9
    <2>2. a[2] # r[2]  BY <1>4, <1>5, <1>9, Names
    <2>3. a[2] \in Nat  BY <1>1, <1>9, Names DEF CopyOK
    <2> QED  BY <2>1, <2>2, <2>3, <1>6
  <1> QED  BY <1>3, <1>4, <1>5, <1>6, <1>7, <1>8, <1>9 DEF r, c, FromCopy

(* A cell and its neighbours in the list of its scope.                     *)
LEMMA Neighbours ==
    ASSUME NEW N, NEW P, NEW at, NEW C, NEW H, NEW top, Apart(C, H), Lists(N, P, at, C, H, top),
           NEW x \in C
    PROVE  /\ N[x] # x /\ (N[x] # Null => N[x] \in C)
           /\ at[x] <= top => P[x] \in C \cup H /\ N[P[x]] = x /\ P[x] # x /\ at[P[x]] = at[x]
  <1>1. LinkedLists(N, P, at, C, H, top) /\ x \in Addr /\ x # Null  BY DEF Lists, Apart
  <1>2. PICK rank \in [Addr -> Nat] : Forward(rank, N, C, H)  BY DEF Lists
  <1>3. PICK d \in C \cup H : N[d] = x  BY <1>1 DEF LinkedLists
  <1>4. N[x] # x
    <2>1. N[x] = x => rank[x] < rank[x]  BY <1>1, <1>2 DEF Forward
    <2>2. rank[x] \in Nat  BY <1>1
    <2> QED  BY <2>1, <2>2
  <1>5. at[x] <= top => P[x] = d  BY <1>1, <1>3 DEF LinkedLists
  <1> QED  BY <1>1, <1>3, <1>4, <1>5 DEF LinkedLists

(* The object takes the place of its copy.                                 *)
LEMMA RestoreGood ==
    ASSUME NEW h, NEW E, E \subseteq Obj, NEW T \in Level, NEW top \in Nat,
           NEW o \in E, Good(h, E, T, top, {Self(o)}), h.restore[Self(o)] # Null,
           h.scope[Self(o)] <= top + 1, NEW g, Restores(h, g, o)
    PROVE  Good(g, E, T, top, {})
  <1> DEFINE c == Self(o)
             r == h.restore[c]
             U == Used(h, E)
             H == Heads(T)
  <1>1. h \in Heap /\ \A a \in Addr : h.region[a] # None => CopyOK(h, E, a)  BY DEF Good
  <1>2. /\ h.scope[c] \in Nat /\ h.scope[c] # 0
        /\ r \in Addr /\ r \in U /\ r # c /\ r[1] = o /\ r[2] \in Level
        /\ h.scope[r] = r[2] /\ r[2] < h.scope[c]
        /\ h.region[r] = h.scope[c] /\ h.region[r] # None
        /\ \A x \in U : x # c /\ x # r => h.restore[x] # r
        /\ \A a \in Addr : h.region[a] # None /\ a[1] = o => a[2] <= r[2]
        /\ \A a \in Addr : h.region[a] # None /\ a[1] = o /\ a # r => a[2] < r[2]
    <2>1. FromCopy(h, E, o)  BY RestoredCopy
    <2> QED  BY <2>1 DEF FromCopy
  <1>3. /\ g \in Heap
        /\ g.scope[c] = h.scope[r] /\ g.restore[c] = h.restore[r]
        /\ \A a \in Addr : a # c /\ a # r => g.scope[a] = h.scope[a] /\ g.restore[a] = h.restore[a]
        /\ g.region[r] = None
        /\ \A a \in Addr : a # r => g.region[a] = h.region[a]
        /\ g.next[c] = h.next[r] /\ g.next[h.prev[r]] = c
        /\ \A a \in Addr : a # c /\ a # r /\ a # h.prev[r] => g.next[a] = h.next[a]
        /\ g.prev[c] = h.prev[r]
        /\ h.next[r] # Null => g.prev[h.next[r]] = c
        /\ \A a \in Addr : a # c /\ a # r /\ a # h.next[r] => g.prev[a] = h.prev[a]
    BY DEF Restores
  <1>4. /\ c \in Addr /\ c[1] = o /\ c[2] = Live /\ c # Null /\ o \in Obj
        /\ c \in U /\ r[2] \in Nat /\ r[2] <= top
        /\ \A x \in U : x \in Addr /\ x[1] \in E /\ x # Null
        /\ h.region[c] = None
    <2>1. c \in U  BY DEF Used
    <2>2. r[2] \in Nat /\ r[2] <= top
      <3>1. r[2] \in Nat  BY <1>2, Names
      <3> QED  BY <3>1, <1>2
    <2>3. c \in Addr /\ c[1] = o /\ c[2] = Live /\ c # Null /\ o \in Obj  BY Names
    <2> QED  BY <2>1, <2>2, <2>3, <1>1, UsedCells
  <1>5. \A p \in E : p # o => Self(p) \in Addr /\ Self(p) # c /\ Self(p) # r
    BY <1>2, <1>4, Names
  <1> HIDE DEF c, r
  <1>6. Used(g, E) = U \ {r}
    <2>1. \A p \in E : Self(p) # r  BY <1>2, <1>5 DEF c
    <2>2. \A a \in Addr : g.region[a] # None <=> a # r /\ h.region[a] # None  BY <1>3
    <2> QED  BY <2>1, <2>2 DEF Used
  <1>7. ASSUME NEW p \in E  PROVE g.scope[Self(p)] \in 0 .. T
    <2>1. CASE p = o
      <3>1. h.scope[c] \in 0 .. T  BY DEF Good, c
      <3>2. g.scope[c] = r[2] /\ r[2] \in Nat /\ r[2] < h.scope[c]  BY <1>2, <1>3, <1>4
      <3>3. T \in Nat  BY Names
      <3>4. g.scope[c] \in 0 .. T  BY <3>1, <3>2, <3>3
      <3> QED  BY <3>4, <2>1 DEF c
    <2>2. CASE p # o  BY <2>2, <1>3, <1>5 DEF Good
    <2> QED  BY <2>1, <2>2
  <1>8. ASSUME NEW a \in Addr, g.region[a] # None  PROVE CopyOK(g, E, a)
    <2>1. CopyOK(h, E, a) /\ a # r /\ a # c /\ h.region[a] # None  BY <1>1, <1>3, <1>4, <1>8
    <2>2. PICK x \in U : h.restore[x] = a  BY <2>1 DEF CopyOK
    <2>3. \E y \in Used(g, E) : g.restore[y] = a
      <3>1. CASE x = r  BY <3>1, <2>2, <1>2, <1>3, <1>4, <1>6
      <3>2. CASE x = c  BY <3>2, <2>1, <2>2 DEF r
      <3>3. CASE x # r /\ x # c  BY <3>3, <2>2, <1>3, <1>4, <1>6
      <3> QED  BY <3>1, <3>2, <3>3
    <2>4. a[2] < g.scope[Self(a[1])]
      <3>1. CASE a[1] = o  BY <3>1, <2>1, <1>2, <1>3 DEF c
      <3>2. CASE a[1] # o
        <4>1. a[1] \in E  BY <2>1 DEF CopyOK
        <4> QED  BY <4>1, <3>2, <2>1, <1>3, <1>5 DEF CopyOK
      <3> QED  BY <3>1, <3>2
    <2> QED  BY <2>1, <2>3, <2>4, <1>3 DEF CopyOK
  <1>9. ASSUME NEW x \in Used(g, E)  PROVE RestoreOK(g, x)
    <2>1. x \in U /\ x # r /\ x \in Addr  BY <1>4, <1>6
    <2>2. \A l \in Level : \A p \in Obj : /\ Copy(p, l) \in Addr
                                          /\ g.region[Copy(p, l)] # None => h.region[Copy(p, l)] # None
      BY <1>3, Names
    <2>3. CASE x = c
      <3> DEFINE q == h.restore[r]
      <3>1. RestoreOK(h, r) /\ q \in Addr  BY <1>1, <1>2, HeapFields DEF Good
      <3>2. g.scope[x] = h.scope[r] /\ g.restore[x] = q /\ x[1] = r[1]  BY <2>3, <1>2, <1>3, <1>4
      <3> HIDE DEF q
      <3>3. h.scope[r] # 0 => g.scope[q] = h.scope[q] /\ g.region[q] = h.region[q]
        <4> SUFFICES ASSUME h.scope[r] # 0  PROVE q # c /\ q # r  BY <3>1, <1>3
        <4>1. q[2] < h.scope[r] /\ h.region[q] = h.scope[r]  BY <3>1 DEF RestoreOK, q
        <4>2. q # r  BY <4>1, <1>2, <1>4
        <4>3. q # c  BY <4>1, <1>2, <1>4, Names
        <4> QED  BY <4>2, <4>3
      <3>4. \A l \in Level : g.region[Copy(r[1], l)] # None => h.region[Copy(r[1], l)] # None
        BY <2>2, <1>2, <1>4
      <3> QED  BY <3>1, <3>2, <3>3, <3>4 DEF RestoreOK, q
    <2>4. CASE x # c
      <3> DEFINE q == h.restore[x]
      <3>1. RestoreOK(h, x) /\ q \in Addr /\ q # r /\ x[1] \in Obj
        BY <2>1, <2>4, <1>1, <1>2, <1>4, HeapFields DEF Good
      <3>2. g.scope[x] = h.scope[x] /\ g.restore[x] = q  BY <2>1, <2>4, <1>3
      <3>3. h.scope[x] # 0 => q # c
        <4> SUFFICES ASSUME h.scope[x] # 0, q = c  PROVE FALSE  OBVIOUS
        <4>1. h.region[c] = h.scope[x]  BY <3>1 DEF RestoreOK
        <4>2. h.region[x] # None
          <5>1. x # Self(x[1])
            <6>1. x[1] = c[1]  BY <3>1 DEF RestoreOK
            <6> QED  BY <6>1, <2>4, <1>4 DEF c
          <5> QED  BY <5>1, <2>1, <1>1, UsedCells
        <4>3. h.scope[x] \in Level  BY <4>2, <2>1, <1>1 DEF CopyOK
        <4> QED  BY <4>1, <4>3, <1>4, Names
      <3>4. h.scope[x] # 0 => g.scope[q] = h.scope[q] /\ g.region[q] = h.region[q]
        BY <3>1, <3>3, <1>3
      <3>5. \A l \in Level : l < h.scope[x] /\ g.region[Copy(x[1], l)] # None
                                => h.region[Copy(x[1], l)] # None
        BY <2>2, <3>1
      <3> QED  BY <3>1, <3>2, <3>4, <3>5, RestoreFrame
    <2> QED  BY <2>3, <2>4
  <1>10. Lists(g.next, g.prev, At(g), Used(g, E) \ {}, H, top)
    <2> DEFINE C == U \ {c}
    <2>1. Apart(C, H) /\ Lists(h.next, h.prev, At(h), C, H, top)
      BY <1>1, UsedCells DEF Good, c
    <2>2. r \in C /\ At(h)[r] = r[2] /\ At(h)[r] <= top
      <3>1. At(h)[r] = r[2]  BY <1>1, <1>2, UsedCells
      <3> QED  BY <3>1, <1>2, <1>4
    <2>3. /\ h.next[r] # r /\ (h.next[r] # Null => h.next[r] \in C)
          /\ h.prev[r] \in C \cup H /\ h.prev[r] # r
      <3> HIDE DEF C, H, U
      <3> QED  BY <2>1, <2>2, Neighbours
    <2>4. c \notin H
      <3>1. \A l \in 0 .. T : l \in Level /\ Scope(l) # c  BY <1>1, <1>4, UsedCells, Names
      <3> QED  BY <3>1 DEF Heads
    <2>5. \A d \in C \cup H : d \in Addr /\ d # c  BY <2>1, <2>4 DEF Apart
    <2>6. At(g)[c] = At(h)[r] /\ \A d \in (C \cup H) \ {r} : At(g)[d] = At(h)[d]
      BY <2>2, <2>5, <1>2, <1>3, <1>4 DEF At
    <2>7. Replaces(h.next, h.prev, At(h), C, H, r, c, g.next, g.prev, At(g))
      <3> HIDE DEF C, H, U
      <3> QED  BY <2>2, <2>3, <2>5, <2>6, <1>3, <1>4 DEF Replaces
    <2>8. Lists(g.next, g.prev, At(g), (C \ {r}) \cup {c}, H, top)
      <3> HIDE DEF C, H, U
      <3> QED  BY <2>1, <2>2, <2>7, ListsReplace
    <2>9. (C \ {r}) \cup {c} = Used(g, E) \ {}  BY <1>2, <1>4, <1>6
    <2> QED  BY <2>8, <2>9
  <1> QED  BY <1>3, <1>7, <1>8, <1>9, <1>10 DEF Good

(* The versions of the objects are as before, whatever the links.          *)
LEMMA SameVersions ==
    ASSUME NEW h, NEW E, NEW T, NEW top, NEW X, Good(h, E, T, top, X),
           NEW g \in Heap, g.scope = h.scope, g.restore = h.restore, g.region = h.region
    PROVE  /\ Used(g, E) = Used(h, E) /\ At(g) = At(h)
           /\ \A o \in E : g.scope[Self(o)] \in 0 .. T
           /\ \A a \in Addr : g.region[a] # None => CopyOK(g, E, a)
           /\ \A c \in Used(g, E) : RestoreOK(g, c)
  <1>1. Used(g, E) = Used(h, E)  BY DEF Used
  <1>2. At(g) = At(h)  BY DEF At
  <1>3. \A a \in Addr : CopyOK(h, E, a) => CopyOK(g, E, a)  BY <1>1 DEF CopyOK
  <1>4. \A c : RestoreOK(h, c) => RestoreOK(g, c)  BY DEF RestoreOK
  <1> QED  BY <1>1, <1>2, <1>3, <1>4 DEF Good

(* The back links and the data of a heap whose next links are as before.   *)
LEMMA SameLinks ==
    ASSUME NEW h, NEW E, NEW T, NEW top, NEW X, Good(h, E, T, top, X),
           NEW g \in Heap, g.scope = h.scope, g.restore = h.restore, g.region = h.region,
           g.next = h.next, g.prev = h.prev
    PROVE  Good(g, E, T, top, X)
  <1>1. /\ Used(g, E) = Used(h, E) /\ At(g) = At(h)
        /\ \A o \in E : g.scope[Self(o)] \in 0 .. T
        /\ \A a \in Addr : g.region[a] # None => CopyOK(g, E, a)
        /\ \A c \in Used(g, E) : RestoreOK(g, c)
    BY SameVersions
  <1> QED  BY <1>1 DEF Good

(* Writing the data of an object. *)
LEMMA SetDataGood ==
    ASSUME NEW h, NEW E, E \subseteq Obj, NEW T, NEW top, Good(h, E, T, top, {}),
           NEW o \in Obj, NEW v \in Val
    PROVE  LET g == SetData(h, o, v) IN
           /\ Good(g, E, T, top, {})
           /\ g.data = [h.data EXCEPT ![Self(o)] = v]
           /\ g.scope = h.scope /\ g.region = h.region
  <1> DEFINE g == SetData(h, o, v)
  <1>1. h \in Heap  BY DEF Good
  <1>2. g \in Heap  BY <1>1, SetDataType
  <1>3. /\ g.scope = h.scope /\ g.restore = h.restore /\ g.region = h.region
        /\ g.next = h.next /\ g.prev = h.prev
        /\ g.data = [h.data EXCEPT ![Self(o)] = v]
    BY <1>1 DEF SetData, Heap
  <1> HIDE DEF g
  <1>4. Good(g, E, T, top, {})  BY <1>2, <1>3, SameLinks
  <1> QED  BY <1>3, <1>4 DEF g

(* The unlinking in ContextObj::destroy. *)
LEMMA UnlinkGood ==
    ASSUME NEW h, NEW E, E \subseteq Obj, NEW T \in Level, NEW top,
           Good(h, E, T, top, {}), NEW o \in E, h.scope[Self(o)] <= top
    PROVE  LET g == Unlink(h, Self(o)) IN
           /\ Good(g, E, T, top, {Self(o)})
           /\ g.scope = h.scope /\ g.restore = h.restore
           /\ g.data = h.data /\ g.region = h.region
  <1> DEFINE c == Self(o)
             g == Unlink(h, c)
             U == Used(h, E)
             H == Heads(T)
             n == h.next[c]
             p == h.prev[c]
  <1>1. h \in Heap /\ \A a \in Addr : h.region[a] # None => CopyOK(h, E, a)  BY DEF Good
  <1>2. c \in Addr /\ c \in U  BY Names DEF Used
  <1>3. g \in Heap  BY <1>1, <1>2, UnlinkType
  <1>4. /\ g.scope = h.scope /\ g.restore = h.restore
        /\ g.data = h.data /\ g.region = h.region
        /\ g.prev = SetPrev(h.prev, n, p)
        /\ g.next = [h.next EXCEPT ![p] = n]
    BY <1>1 DEF Unlink, Heap
  <1>5. h.next \in [Addr -> Addr] /\ h.prev \in [Addr -> Addr] /\ n \in Addr /\ p \in Addr
    BY <1>1, <1>2, HeapFields
  <1>6. Apart(U, H) /\ Lists(h.next, h.prev, At(h), U, H, top)
    <2>1. U \ {} = U  OBVIOUS
    <2>2. Apart(U \ {}, H)  BY <1>1, UsedCells
    <2> QED  BY <2>1, <2>2 DEF Good
  <1>7. At(h)[c] <= top  BY <1>1, <1>2, UsedCells
  <1> HIDE DEF g, U, H, c
  <1>8. p \in U \cup H /\ h.next[p] = c  BY <1>2, <1>6, <1>7, Neighbours
  <1>9. /\ n # Null => g.prev[n] = p
        /\ \A d \in Addr : d # n => g.prev[d] = h.prev[d]
    BY <1>4, <1>5 DEF SetPrev
  <1>10. g.next[p] = n /\ \A d \in Addr : d # p => g.next[d] = h.next[d]
    BY <1>4, <1>5
  <1>11. Removes(h.next, h.prev, At(h), U, H, top, p, c, g.next, g.prev)
    <2>1. \A d \in U \cup H : d \in Addr  BY <1>6 DEF Apart
    <2> QED  BY <2>1, <1>2, <1>8, <1>9, <1>10 DEF Removes
  <1>12. Lists(g.next, g.prev, At(h), U \ {c}, H, top)  BY <1>6, <1>11, ListsRemove
  <1>13. /\ Used(g, E) = U /\ At(g) = At(h)
         /\ \A q \in E : g.scope[Self(q)] \in 0 .. T
         /\ \A a \in Addr : g.region[a] # None => CopyOK(g, E, a)
         /\ \A x \in Used(g, E) : RestoreOK(g, x)
    BY <1>3, <1>4, SameVersions DEF U
  <1>14. Good(g, E, T, top, {c})  BY <1>3, <1>12, <1>13 DEF Good, H
  <1> QED  BY <1>4, <1>14 DEF g, c

(* The end of an object that is off the lists and has nothing to restore:  *)
(* g is the heap after it, and F the objects that are left.                *)
Ends(h, E, T, top, o, g, F) ==
    /\ Good(h, E, T, top, {Self(o)}) /\ h.restore[Self(o)] = Null
    /\ E \subseteq Obj /\ o \in E /\ g = Release(h, Self(o)) /\ F = E \ {o}

(* Releasing an object, the last step of destroy, keeps the shape.         *)
LEMMA ReleaseGood ==
    ASSUME NEW h, NEW E, NEW T \in Level, NEW top, NEW o, NEW g, NEW F,
           Ends(h, E, T, top, o, g, F)
    PROVE  /\ Good(g, F, T, top, {})
           /\ \A a \in Addr : a # Self(o) => g.scope[a] = h.scope[a] /\ g.data[a] = h.data[a]
           /\ g.region = h.region
  <1> DEFINE c == Self(o)
             U == Used(h, E)
             H == Heads(T)
  <1>a. /\ o \in E /\ F = E \ {o} /\ E \subseteq Obj
        /\ Good(h, E, T, top, {c}) /\ h.restore[c] = Null
    BY DEF Ends
  <1>1. h \in Heap /\ \A a \in Addr : h.region[a] # None => CopyOK(h, E, a)  BY <1>a DEF Good
  <1>2. c \in Addr /\ c \in U /\ c[1] = o /\ c # Null  BY <1>a, Names DEF Used
  <1>3. /\ h.next \in [Addr -> Addr] /\ h.prev \in [Addr -> Addr]
        /\ h.scope \in [Addr -> Level \cup {None}] /\ h.restore \in [Addr -> Addr]
        /\ h.data \in [Addr -> Val \cup {Absent}] /\ h.region \in [Addr -> Level \cup {None}]
    BY <1>1, HeapFields
  <1>4. g \in Heap
    <2>1. g = Release(h, c)  BY DEF Ends
    <2> QED  BY <2>1, <1>1, ReleaseType
  <1>5. h.region[c] = None  BY <1>a, <1>1, <1>2, UsedCells, Names
  <1>6. \A a \in Addr : h.region[a] # None => a[1] # o
    <2> SUFFICES ASSUME NEW a \in Addr, h.region[a] # None, a[1] = o  PROVE FALSE  OBVIOUS
    <2>1. h.scope[c] = 0  BY <1>a, <1>2 DEF Good, RestoreOK
    <2>2. a[2] \in Level /\ a[2] < h.scope[c]  BY <1>1 DEF CopyOK
    <2> QED  BY <2>1, <2>2, Names
  <1>7. \A p \in F : Self(p) \in Addr /\ Self(p) # c  BY <1>a, <1>2, Names
  <1> HIDE DEF c
  <1>8. /\ g.next = [h.next EXCEPT ![c] = Null] /\ g.prev = [h.prev EXCEPT ![c] = Null]
        /\ g.scope = [h.scope EXCEPT ![c] = None] /\ g.restore = [h.restore EXCEPT ![c] = Null]
        /\ g.data = [h.data EXCEPT ![c] = Default] /\ g.region = [h.region EXCEPT ![c] = None]
    <2>1. g = Release(h, c)  BY DEF Ends, c
    <2> QED  BY <2>1 DEF Release
  <1>9. /\ \A a \in Addr : a # c => /\ g.next[a] = h.next[a] /\ g.prev[a] = h.prev[a]
                                    /\ g.scope[a] = h.scope[a] /\ g.restore[a] = h.restore[a]
                                    /\ g.data[a] = h.data[a]
        /\ g.region = h.region
        /\ g.restore[c] = Null
    BY <1>2, <1>3, <1>5, <1>8
  <1>10. Used(g, F) = U \ {c}
    <2>1. \A a \in Addr : h.region[a] # None => a # c  BY <1>5
    <2> QED  BY <2>1, <1>a, <1>7, <1>9 DEF Used, c
  <1>11. \A x \in U : x \in Addr /\ x # Null  BY <1>a, <1>1, UsedCells
  <1>12. \A p \in F : g.scope[Self(p)] \in 0 .. T  BY <1>a, <1>7, <1>9 DEF Good
  <1>13. ASSUME NEW a \in Addr, g.region[a] # None  PROVE CopyOK(g, F, a)
    <2>1. CopyOK(h, E, a) /\ a[1] # o /\ a # c  BY <1>1, <1>2, <1>6, <1>9, <1>13
    <2>2. PICK x \in U : h.restore[x] = a  BY <2>1 DEF CopyOK
    <2>3. a # Null
      <3>1. a[2] # Null[2]  BY <2>1, Names DEF CopyOK, Null
      <3> QED  BY <3>1
    <2>4. x # c  BY <2>2, <2>3, <1>a
    <2>5. x \in Used(g, F) /\ g.restore[x] = a  BY <2>2, <2>4, <1>9, <1>10, <1>11
    <2>6. a[1] \in F  BY <2>1, <1>a DEF CopyOK
    <2> QED  BY <2>1, <2>5, <2>6, <1>7, <1>9 DEF CopyOK
  <1>14. ASSUME NEW x \in Used(g, F)  PROVE RestoreOK(g, x)
    <2>1. RestoreOK(h, x) /\ x # c /\ x \in Addr /\ h.restore[x] \in Addr
      BY <1>a, <1>3, <1>10, <1>11 DEF Good
    <2>2. h.scope[x] # 0 => h.restore[x] # c
      <3> SUFFICES ASSUME h.scope[x] # 0, h.restore[x] = c  PROVE FALSE  OBVIOUS
      <3>1. x[1] = o /\ h.region[c] = h.scope[x]  BY <2>1, <1>2 DEF RestoreOK
      <3>2. x \in U /\ x # Self(x[1])  BY <3>1, <2>1, <1>10 DEF c
      <3>3. h.region[x] # None  BY <3>2, <1>a, <1>1, UsedCells
      <3> QED  BY <3>1, <3>3, <2>1, <1>6
    <2> QED  BY <2>1, <2>2, <1>9, RestoreFrame
  <1>15. Lists(g.next, g.prev, At(g), Used(g, F) \ {}, H, top)
    <2> DEFINE C == U \ {c}
    <2>1. Apart(C, H) /\ Lists(h.next, h.prev, At(h), C, H, top)
      BY <1>a, <1>1, UsedCells DEF Good, c
    <2>2. c \notin H  BY <1>a, <1>1, <1>2, UsedCells
    <2>3. \A d \in C \cup H : d \in Addr /\ d # c  BY <2>1, <2>2 DEF Apart
    <2>4. \A d \in C \cup H : g.next[d] = h.next[d] /\ At(g)[d] = At(h)[d]
      BY <2>3, <1>9 DEF At
    <2>5. \A d \in C : g.prev[d] = h.prev[d]  BY <2>3, <1>9
    <2>6. C = Used(g, F) \ {}  BY <1>10
    <2> HIDE DEF C, H
    <2> QED  BY <2>1, <2>4, <2>5, <2>6, ListsSame
  <1>16. Good(g, F, T, top, {})  BY <1>4, <1>12, <1>13, <1>14, <1>15 DEF Good
  <1> QED  BY <1>9, <1>16 DEF c

(* One turn of the loop of ContextObj::destroy that goes back a version.   *)
LEMMA DestroyBackGood ==
    ASSUME NEW h, NEW E, E \subseteq Obj, NEW T \in Level, NEW top \in Nat, NEW o \in E,
           Good(h, E, T, top, {Self(o)}), h.restore[Self(o)] # Null, h.scope[Self(o)] <= top
    PROVE  LET g == restoreAndContinue(h, o) IN
           /\ Good(g, E, T, top, {})
           /\ Restores(h, g, o)
  <1> DEFINE c == Self(o)
             r == h.restore[c]
             U == Used(h, E)
             C == U \ {c}
             H == Heads(T)
             g == restoreAndContinue(h, o)
  <1>1. h \in Heap /\ \A a \in Addr : h.region[a] # None => CopyOK(h, E, a)  BY DEF Good
  <1>2. c \in Addr /\ c \in U /\ o \in Obj  BY Names DEF Used
  <1>3. /\ h.scope[c] \in Nat /\ r \in U /\ r # c /\ h.scope[r] = r[2] /\ r[2] < h.scope[c]
        /\ r[2] \in Nat
    <2>1. /\ h.scope[c] \in Nat /\ r \in U /\ r # c /\ h.scope[r] = r[2] /\ r[2] < h.scope[c]
          /\ r[2] \in Level
      <3>1. FromCopy(h, E, o)  BY RestoredCopy
      <3> QED  BY <3>1 DEF FromCopy
    <2> QED  BY <2>1, Names
  <1>4. Apart(C, H) /\ Lists(h.next, h.prev, At(h), C, H, top)  BY <1>1, UsedCells DEF Good
  <1>5. At(h)[r] <= top
    <2>1. At(h)[r] = r[2]  BY <1>1, <1>3, UsedCells
    <2> QED  BY <2>1, <1>3
  <1>6. c \notin C \cup H /\ c # Null  BY <1>1, <1>2, UsedCells
  <1>7. /\ h.next[r] # r /\ (h.next[r] # Null => h.next[r] \in C)
        /\ h.prev[r] \in C \cup H /\ h.prev[r] # r
    <2>1. r \in C  BY <1>3
    <2> HIDE DEF C, H, r, c
    <2> QED  BY <2>1, <1>4, <1>5, Neighbours
  <1>8. h.next[r] # c /\ h.prev[r] # c  BY <1>6, <1>7
  <1>9. Restores(h, g, o)
    <2>1. c = Self(o) /\ r = h.restore[c] /\ r # Null  OBVIOUS
    <2> HIDE DEF c, r
    <2> QED  BY <2>1, <1>1, <1>2, <1>3, <1>7, <1>8, RestoreFields
  <1>10. h.scope[c] <= top + 1  BY <1>3
  <1> HIDE DEF g
  <1>11. Good(g, E, T, top, {})  BY <1>9, <1>10, RestoreGood
  <1> QED  BY <1>9, <1>11 DEF g

(* The level of every cell and head is that of an existing scope.          *)
LEMMA LevelsBounded ==
    ASSUME NEW h, NEW E, E \subseteq Obj, NEW T \in Level, NEW top, NEW X, Good(h, E, T, top, X)
    PROVE  \A d \in Used(h, E) \cup Heads(T) : At(h)[d] \in 0 .. T
  <1>1. h \in Heap /\ \A a \in Addr : h.region[a] # None => CopyOK(h, E, a)  BY DEF Good
  <1>2. T \in Nat /\ \A l \in 0 .. T : l \in Level  BY <1>1, Names, UsedCells
  <1>3. ASSUME NEW d \in Heads(T)  PROVE At(h)[d] \in 0 .. T
    <2>1. PICK l \in 0 .. T : d = Scope(l)  BY DEF Heads
    <2>2. At(h)[d] = l  BY <2>1, <1>1, <1>2, UsedCells
    <2> QED  BY <2>2
  <1>4. ASSUME NEW d \in Used(h, E)  PROVE At(h)[d] \in 0 .. T
    <2>1. At(h)[d] = h.scope[d] /\ d \in Addr /\ d[1] \in E
          /\ (d = Self(d[1]) \/ h.region[d] # None)
      BY <1>1, UsedCells
    <2>2. CASE d = Self(d[1])  BY <2>1, <2>2 DEF Good
    <2>3. CASE h.region[d] # None
      <3>1. h.scope[d] = d[2] /\ d[2] \in Level /\ d[2] < h.scope[Self(d[1])]
        BY <2>1, <2>3, <1>1 DEF CopyOK
      <3>2. h.scope[Self(d[1])] \in 0 .. T  BY <2>1 DEF Good
      <3>3. d[2] \in Nat  BY <3>1, Names
      <3> QED  BY <3>1, <3>2, <3>3, <2>1, <1>2
    <2> QED  BY <2>1, <2>2, <2>3
  <1> QED  BY <1>3, <1>4

(* Context::push. *)
LEMMA PushGood ==
    ASSUME NEW h, NEW E, E \subseteq Obj, NEW l \in Level, l + 1 \in Level, Good(h, E, l, l, {}),
           NEW g, g = [h EXCEPT !.next = [@ EXCEPT ![Scope(l + 1)] = Null]]
    PROVE  Good(g, E, l + 1, l + 1, {})
  <1> DEFINE U == Used(h, E)
             H == Heads(l)
             f == Scope(l + 1)
  <1>1. h \in Heap /\ \A a \in Addr : h.region[a] # None => CopyOK(h, E, a)  BY DEF Good
  <1>2. l \in Nat /\ f \in Addr /\ Null \in Addr  BY Names
  <1>3. h.next \in [Addr -> Addr]  BY <1>1, HeapFields
  <1>4. /\ g \in Heap /\ g.scope = h.scope /\ g.restore = h.restore /\ g.region = h.region
        /\ g.prev = h.prev /\ g.next = [h.next EXCEPT ![f] = Null]
    <2>1. [h.next EXCEPT ![f] = Null] \in [Addr -> Addr]  BY <1>2, <1>3
    <2> QED  BY <2>1, <1>1 DEF Heap
  <1>5. /\ Used(g, E) = U /\ At(g) = At(h)
        /\ \A o \in E : g.scope[Self(o)] \in 0 .. l
        /\ \A a \in Addr : g.region[a] # None => CopyOK(g, E, a)
        /\ \A c \in Used(g, E) : RestoreOK(g, c)
    BY <1>4, SameVersions
  <1>6. Apart(U, H) /\ Lists(h.next, h.prev, At(h), U, H, l)
    <2>1. U \ {} = U  OBVIOUS
    <2>2. Apart(U \ {}, H)  BY <1>1, UsedCells
    <2> QED  BY <2>1, <2>2 DEF Good
  <1>7. f \notin U \cup H
    <2>1. \A k \in 0 .. l : k # l + 1 /\ k \in Level  BY <1>1, <1>2, UsedCells
    <2>2. f \notin H  BY <2>1, Names DEF Heads
    <2>3. \A x \in U : x[1] \in E  BY <1>1, UsedCells
    <2> QED  BY <2>2, <2>3, Names
  <1>8. \A d \in U \cup H : d \in Addr /\ g.next[d] = h.next[d] /\ g.next[f] = Null
    BY <1>2, <1>3, <1>4, <1>6, <1>7 DEF Apart
  <1>9. \A d \in U \cup H : At(h)[d] <= l
    <2>1. \A d \in U \cup H : At(h)[d] \in 0 .. l  BY LevelsBounded
    <2> QED  BY <2>1, <1>2
  <1>10. Heads(l + 1) = H \cup {f}
    <2>1. 0 .. (l + 1) = (0 .. l) \cup {l + 1}  BY <1>2
    <2> QED  BY <2>1 DEF Heads
  <1> HIDE DEF U, H
  <1>11. Lists(g.next, g.prev, At(g), U, H, l + 1)
    <2> DEFINE t == l + 1
               A == At(h)
               N == g.next
               P == g.prev
    <2>1. /\ \A d \in U \cup H : N[d] = h.next[d] /\ A[d] = A[d] /\ (A[d] <= t => A[d] <= l)
          /\ \A d \in U : P[d] = h.prev[d]
      BY <1>4, <1>8, <1>9
    <2>2. Lists(h.next, h.prev, A, U, H, l)  BY <1>6
    <2> HIDE DEF t, A, N, P
    <2>3. Lists(N, P, A, U, H, t)  BY <2>1, <2>2, ListsSame
    <2> QED  BY <2>3, <1>5 DEF t, A, N, P
  <1>12. Null \notin U /\ g.next[f] = Null  BY <1>2, <1>3, <1>4, <1>6 DEF Apart
  <1>13. Lists(g.next, g.prev, At(g), U, H \cup {f}, l + 1)
    <2> HIDE DEF f
    <2> QED  BY <1>11, <1>12, ListsHead
  <1>14. U \ {} = Used(g, E) \ {} /\ U \ {} = U  BY <1>5
  <1>15. \A o \in E : g.scope[Self(o)] \in 0 .. (l + 1)  BY <1>2, <1>5
  <1> QED  BY <1>4, <1>5, <1>10, <1>13, <1>14, <1>15 DEF Good

(* d_scopeList.pop_back(): the list of the dying scope is only read forward *)
(* from here on.                                                           *)
LEMMA PopScopeGood ==
    ASSUME NEW h, NEW E, E \subseteq Obj, NEW l \in Level, NEW k \in Nat, l = k + 1,
           Good(h, E, l, l, {})
    PROVE  Good(h, E, l, k, {})
  <1> DEFINE U == Used(h, E) \ {}
             H == Heads(l)
  <1>1. \A d \in U \cup H : At(h)[d] <= k => At(h)[d] <= l
    <2>1. \A d \in U \cup H : At(h)[d] \in 0 .. l  BY LevelsBounded
    <2> QED  BY <2>1
  <1>2. Lists(h.next, h.prev, At(h), U, H, l)  BY DEF Good
  <1>3. Lists(h.next, h.prev, At(h), U, H, k)
    <2> HIDE DEF U, H
    <2> QED  BY <1>1, <1>2, ListsSame
  <1> QED  BY <1>3 DEF Good

(* ContextMemoryManager::pop at the end of Context::pop: when the list of  *)
(* the dying scope is empty, no copy is in the region that goes.           *)
LEMMA PopRegionGood ==
    ASSUME NEW h, NEW E, E \subseteq Obj, NEW l \in Level, l + 1 \in Level,
           Good(h, E, l + 1, l, {}), h.next[Scope(l + 1)] = Null,
           NEW g, g = [h EXCEPT !.region =
                          [a \in Addr |-> IF h.region[a] = l + 1 THEN None ELSE h.region[a]]]
    PROVE  g = h /\ Good(g, E, l, l, {})
  <1> DEFINE T == l + 1
             U == Used(h, E)
             H == Heads(T)
             f == Scope(T)
  <1>1. h \in Heap /\ \A a \in Addr : h.region[a] # None => CopyOK(h, E, a)  BY DEF Good
  <1>2. l \in Nat /\ f \in Addr /\ \A k \in 0 .. T : k \in Level  BY <1>1, Names, UsedCells
  <1>3. Apart(U, H) /\ Lists(h.next, h.prev, At(h), U, H, l)
    <2>1. U \ {} = U  OBVIOUS
    <2>2. Apart(U \ {}, H)  BY <1>1, UsedCells
    <2> QED  BY <2>1, <2>2 DEF Good
  <1>4. f \in H /\ \A d \in H : At(h)[d] = At(h)[f] => d = f
    <2>1. T \in 0 .. T  BY <1>2
    <2>2. \A k \in Level : At(h)[Scope(k)] = k  BY <1>1, UsedCells
    <2> QED  BY <2>1, <2>2, <1>2 DEF Heads
  <1>5. At(h)[f] = T  BY <1>1, UsedCells
  <1>6. \A x \in U : At(h)[x] # T /\ At(h)[x] = h.scope[x]
    <2>1. \A x \in U : At(h)[x] # At(h)[f]
      <3> HIDE DEF U, H
      <3> QED  BY <1>3, <1>4, ListEmpty
    <2>2. \A x \in U : At(h)[x] = h.scope[x]  BY <1>1, UsedCells
    <2> QED  BY <2>1, <2>2, <1>5
  <1>7. ASSUME NEW a \in Addr, h.region[a] = T  PROVE FALSE
    <2>1. h.region[a] # None  BY <1>7, Names
    <2>2. PICK x \in U : h.restore[x] = a  BY <2>1, <1>1 DEF CopyOK
    <2>3. a # Null
      <3>1. a[2] # Null[2]  BY <2>1, <1>1, Names DEF CopyOK, Null
      <3> QED  BY <3>1
    <2>4. h.region[a] = h.scope[x]  BY <2>2, <2>3 DEF Good, RestoreOK
    <2> QED  BY <2>2, <2>4, <1>6, <1>7
  <1>8. g = h
    <2>1. h.region \in [Addr -> Level \cup {None}]  BY <1>1, HeapFields
    <2>2. [a \in Addr |-> IF h.region[a] = l + 1 THEN None ELSE h.region[a]] = h.region
      BY <2>1, <1>7
    <2>3. [h EXCEPT !.region = h.region] = h  BY <1>1 DEF Heap
    <2> QED  BY <2>2, <2>3
  <1>9. \A o \in E : h.scope[Self(o)] \in 0 .. l
    <2> TAKE o \in E
    <2>1. h.scope[Self(o)] \in 0 .. T  BY DEF Good
    <2>2. Self(o) \in U  BY DEF Used
    <2>3. h.scope[Self(o)] # T  BY <2>2, <1>6
    <2> QED  BY <2>1, <2>3, <1>2
  <1>10. H = Heads(l) \cup {f}
    <2>1. 0 .. T = (0 .. l) \cup {T}  BY <1>2
    <2> QED  BY <2>1 DEF Heads
  <1>11. Lists(h.next, h.prev, At(h), U, Heads(l), l)
    <2>1. Null \notin U /\ h.next[f] = Null  BY <1>3 DEF Apart
    <2> HIDE DEF U, H, f
    <2> QED  BY <2>1, <1>3, <1>10, ListsHead
  <1>12. U \ {} = U  OBVIOUS
  <1>13. Good(h, E, l, l, {})  BY <1>9, <1>11, <1>12 DEF Good
  <1> QED  BY <1>8, <1>13

(* The first cell of the list of the dying scope is an object: every copy  *)
(* is older than its object.                                               *)
LEMMA FirstIsObject ==
    ASSUME NEW h, NEW E, E \subseteq Obj, NEW l \in Level, l + 1 \in Level,
           Good(h, E, l + 1, l, {}), NEW c, c = h.next[Scope(l + 1)], c # Null
    PROVE  /\ c[1] \in E /\ c = Self(c[1]) /\ h.scope[c] = l + 1
           /\ h.restore[c] # Null
           /\ Good([h EXCEPT !.next = [@ EXCEPT ![Scope(l + 1)] = h.next[c]]],
                   E, l + 1, l, {c})
  <1> DEFINE T == l + 1
             U == Used(h, E)
             H == Heads(T)
             f == Scope(T)
             n == h.next[c]
             g == [h EXCEPT !.next = [@ EXCEPT ![f] = n]]
  <1>1. h \in Heap /\ \A a \in Addr : h.region[a] # None => CopyOK(h, E, a)  BY DEF Good
  <1>2. l \in Nat /\ f \in Addr  BY Names
  <1>3. Apart(U, H) /\ Lists(h.next, h.prev, At(h), U, H, l)
    <2>1. U \ {} = U  OBVIOUS
    <2>2. Apart(U \ {}, H)  BY <1>1, UsedCells
    <2> QED  BY <2>1, <2>2 DEF Good
  <1>4. f \in H /\ At(h)[f] = T
    <2>1. T \in 0 .. T  BY <1>2
    <2>2. At(h)[f] = T  BY <1>1, UsedCells
    <2> QED  BY <2>1, <2>2 DEF Heads
  <1>5. c \in U /\ At(h)[c] = T
    <2> HIDE DEF U, H, T
    <2> QED  BY <1>3, <1>4 DEF Lists, LinkedLists, T
  <1>6. c \in Addr /\ c[1] \in E /\ h.scope[c] = T /\ (c = Self(c[1]) \/ h.region[c] # None)
    BY <1>1, <1>5, UsedCells
  <1>7. h.region[c] = None
    <2> SUFFICES ASSUME h.region[c] # None  PROVE FALSE  OBVIOUS
    <2>1. c[2] = T /\ c[2] < h.scope[Self(c[1])]  BY <1>1, <1>6 DEF CopyOK
    <2>2. h.scope[Self(c[1])] \in 0 .. T  BY <1>6 DEF Good
    <2> QED  BY <2>1, <2>2, <1>2
  <1>8. h.restore[c] # Null
    <2>1. RestoreOK(h, c)  BY <1>5 DEF Good
    <2>2. h.scope[c] # 0  BY <1>2, <1>6
    <2> QED  BY <2>1, <2>2 DEF RestoreOK
  <1>9. h.next \in [Addr -> Addr] /\ n \in Addr  BY <1>1, <1>6, HeapFields
  <1>10. /\ g \in Heap /\ g.scope = h.scope /\ g.restore = h.restore /\ g.region = h.region
         /\ g.prev = h.prev /\ g.next = [h.next EXCEPT ![f] = n]
    <2>1. [h.next EXCEPT ![f] = n] \in [Addr -> Addr]  BY <1>2, <1>9
    <2> HIDE DEF n
    <2> QED  BY <2>1, <1>1 DEF Heap
  <1> HIDE DEF g
  <1>11. /\ Used(g, E) = U /\ At(g) = At(h)
         /\ \A o \in E : g.scope[Self(o)] \in 0 .. T
         /\ \A a \in Addr : g.region[a] # None => CopyOK(g, E, a)
         /\ \A x \in Used(g, E) : RestoreOK(g, x)
    BY <1>10, SameVersions
  <1>12. Removes(h.next, h.prev, At(h), U, H, l, f, c, g.next, g.prev)
    <2>1. ~(At(h)[c] <= l)  BY <1>2, <1>5
    <2>2. g.next[f] = n /\ \A d \in Addr : d # f => g.next[d] = h.next[d]  BY <1>2, <1>9, <1>10
    <2>3. \A d \in U \cup H : d \in Addr  BY <1>3 DEF Apart
    <2> HIDE DEF U, H, T
    <2> QED  BY <2>1, <2>2, <2>3, <1>4, <1>5, <1>10 DEF Removes, T
  <1>13. Lists(g.next, g.prev, At(h), U \ {c}, H, l)
    <2> HIDE DEF U, H, f
    <2> QED  BY <1>3, <1>12, ListsRemove
  <1>14. Good(g, E, T, l, {c})  BY <1>10, <1>11, <1>13 DEF Good
  <1> QED  BY <1>6, <1>7, <1>8, <1>14 DEF g

(* A turn of the loop of ~Scope: c is the first cell of the list of the    *)
(* dying scope, and m the heap with c off the list.                        *)
Turn(h, T, c, m, k, g) ==
    /\ c = h.next[Scope(T)] /\ c # Null
    /\ m = [h EXCEPT !.next = [@ EXCEPT ![Scope(T)] = h.next[c]]]
    /\ k = restoreAndContinue(h, c[1])
    /\ g = [k EXCEPT !.next = [@ EXCEPT ![Scope(T)] = h.next[c]]]

LEMMA RestoreNextGood ==
    ASSUME NEW h, NEW E, E \subseteq Obj, NEW l \in Level, NEW u \in Level, u = l + 1,
           Good(h, E, u, l, {}), NEW c, NEW mm, NEW kk, NEW g, Turn(h, u, c, mm, kk, g)
    PROVE  /\ Good(g, E, u, l, {})
           /\ c[1] \in E /\ c = Self(c[1]) /\ h.scope[c] = u /\ h.restore[c] # Null
           /\ kk.data = g.data
           /\ Restores(mm, g, c[1])
  <1> DEFINE T == l + 1
             U == Used(h, E)
             H == Heads(T)
             f == Scope(T)
             n == h.next[c]
             o == c[1]
             r == h.restore[c]
             m == [h EXCEPT !.next = [@ EXCEPT ![f] = n]]
             k == restoreAndContinue(h, o)
  <1>a. /\ c = h.next[Scope(l + 1)] /\ c # Null /\ Good(h, E, l + 1, l, {}) /\ l + 1 \in Level
        /\ g = [k EXCEPT !.next = [@ EXCEPT ![Scope(l + 1)] = h.next[c]]]
        /\ m = mm /\ k = kk
    BY DEF Turn
  <1>1. h \in Heap /\ \A a \in Addr : h.region[a] # None => CopyOK(h, E, a)  BY DEF Good
  <1>2. l \in Nat /\ f \in Addr /\ T # l /\ T \in Level  BY <1>a, Names
  <1>3. /\ o \in E /\ c = Self(o) /\ h.scope[c] = T /\ r # Null
        /\ Good(m, E, T, l, {c})
    BY <1>a, FirstIsObject, SMTT(30)
  <1>4. c \in Addr /\ c \in U /\ o \in Obj /\ c # f
    BY <1>1, <1>2, <1>3, UsedCells, Names DEF Used
  <1>5. r \in Addr /\ r \in U /\ r # c /\ r[1] = o /\ r[2] \in Level /\ h.scope[r] = r[2]
        /\ r[2] \in Nat /\ r[2] < T
    <2>1. /\ h.restore[Self(o)] \in Addr /\ h.restore[Self(o)] \in U
          /\ h.restore[Self(o)] # Self(o) /\ h.restore[Self(o)][1] = o
          /\ h.restore[Self(o)][2] \in Level
          /\ h.scope[h.restore[Self(o)]] = h.restore[Self(o)][2]
          /\ h.restore[Self(o)][2] < h.scope[Self(o)]
      <3> DEFINE X == {}
      <3>1. Good(h, E, T, l, X) /\ h.restore[Self(o)] # Null /\ o \in E /\ T \in Level /\ l \in Nat
        BY <1>a, <1>2, <1>3
      <3> HIDE DEF o, T, X
      <3>2. FromCopy(h, E, o)  BY <3>1, RestoredCopy
      <3> QED  BY <3>2 DEF FromCopy
    <2>2. r[2] \in Level  BY <2>1, <1>3
    <2>3. r[2] \in Nat  BY <2>2, Names
    <2> QED  BY <2>1, <2>3, <1>3
  <1>6. Apart(U, H) /\ Lists(h.next, h.prev, At(h), U, H, l)
    <2>1. U \ {} = U  OBVIOUS
    <2>2. Apart(U \ {}, H)  BY <1>1, <1>2, UsedCells
    <2> QED  BY <2>1, <2>2, <1>a DEF Good
  <1>7. At(h)[r] = r[2] /\ At(h)[r] <= l /\ At(h)[c] = T /\ At(h)[f] = T
    <2>1. At(h)[r] = h.scope[r] /\ At(h)[c] = h.scope[c]  BY <1>1, <1>2, <1>4, <1>5, UsedCells
    <2>2. At(h)[f] = T  BY <1>1, <1>2, UsedCells
    <2> QED  BY <2>1, <2>2, <1>2, <1>3, <1>5
  <1>8. /\ h.next[r] # r /\ h.prev[r] \in U \cup H /\ h.prev[r] # r
        /\ At(h)[h.prev[r]] = At(h)[r]
    <2> HIDE DEF U, H, r
    <2> QED  BY <1>5, <1>6, <1>7, Neighbours
  <1>9. h.next[r] # Null => At(h)[h.next[r]] = At(h)[r]
    <2> HIDE DEF U, H, r
    <2> QED  BY <1>5, <1>6 DEF Lists, LinkedLists
  <1>10. c # Null  BY <1>3, <1>4, Names
  <1>11. h.next[r] # c /\ h.prev[r] # c /\ h.prev[r] # f
    <2>1. At(h)[r] # T  BY <1>5, <1>7
    <2> HIDE DEF r, T, f
    <2> QED  BY <2>1, <1>7, <1>8, <1>9, <1>10
  <1>12. r # f /\ f # c  BY <1>2, <1>4, <1>5, Names
  <1>13. Restores(h, k, o)
    <2>1. c = Self(o) /\ r = h.restore[c]  BY <1>3
    <2> HIDE DEF o, r, k
    <2>2. Restores(h, restoreAndContinue(h, o), o)
      BY <2>1, <1>1, <1>3, <1>4, <1>5, <1>8, <1>11, RestoreFields
    <2> QED  BY <2>2 DEF k
  <1>14. h.next \in [Addr -> Addr] /\ n \in Addr /\ k \in Heap /\ k.next \in [Addr -> Addr]
    <2>1. k \in Heap  BY <1>13 DEF Restores
    <2> HIDE DEF k
    <2> QED  BY <2>1, <1>1, <1>4, HeapFields
  <1>15. /\ m.scope = h.scope /\ m.restore = h.restore /\ m.region = h.region /\ m.data = h.data
         /\ m.prev = h.prev /\ m.next = [h.next EXCEPT ![f] = n] /\ m \in Heap
    <2>1. m \in Heap  BY <1>3 DEF Good
    <2> HIDE DEF n
    <2> QED  BY <2>1, <1>1 DEF Heap
  <1>16. /\ g.scope = k.scope /\ g.restore = k.restore /\ g.region = k.region /\ g.data = k.data
         /\ g.prev = k.prev /\ g.next = [k.next EXCEPT ![f] = n] /\ g \in Heap
    <2>1. [k.next EXCEPT ![f] = n] \in [Addr -> Addr]  BY <1>2, <1>14
    <2>2. g = [k EXCEPT !.next = [@ EXCEPT ![f] = n]]  BY <1>a
    <2> HIDE DEF k, n
    <2> QED  BY <2>1, <2>2, <1>14 DEF Heap
  <1>17. /\ m.next[f] = n /\ \A a \in Addr : a # f => m.next[a] = h.next[a]
         /\ g.next[f] = n /\ \A a \in Addr : a # f => g.next[a] = k.next[a]
    BY <1>2, <1>14, <1>15, <1>16
  <1>18. Restores(m, g, o)
    <2> DEFINE p == h.prev[r]
    <2>1. p \in Addr  BY <1>6, <1>8 DEF Apart
    <2>2. /\ k.scope[c] = h.scope[r] /\ k.restore[c] = h.restore[r] /\ k.data[c] = h.data[r]
          /\ \A a \in Addr : a # c /\ a # r => /\ k.scope[a] = h.scope[a] /\ k.restore[a] = h.restore[a]
                                               /\ k.data[a] = h.data[a]
          /\ k.region[r] = None
          /\ \A a \in Addr : a # r => k.region[a] = h.region[a]
          /\ k.next[c] = h.next[r] /\ k.next[p] = c
          /\ \A a \in Addr : a # c /\ a # r /\ a # p => k.next[a] = h.next[a]
          /\ k.prev[c] = h.prev[r]
          /\ h.next[r] # Null => k.prev[h.next[r]] = c
          /\ \A a \in Addr : a # c /\ a # r /\ a # h.next[r] => k.prev[a] = h.prev[a]
      <3>1. Self(o) = c  BY <1>3
      <3> HIDE DEF k, o
      <3> QED  BY <3>1, <1>13 DEF Restores
    <2>3. m.next[r] = h.next[r] /\ m.prev[r] = p /\ m.restore[c] = r /\ Self(o) = c
      BY <1>3, <1>5, <1>12, <1>15, <1>17
    <2>4. g.next[c] = m.next[r] /\ g.next[p] = c
          /\ \A a \in Addr : a # c /\ a # r /\ a # p => g.next[a] = m.next[a]
      <3> HIDE DEF k, m, r, p, f, n
      <3> QED  BY <2>1, <2>2, <2>3, <1>4, <1>11, <1>12, <1>17 DEF p
    <2> DEFINE d == Self(o)
               q == m.restore[d]
    <2>5. d = c /\ q = r  BY <2>3
    <2> HIDE DEF k, m, r, p, f, n, o, d, q
    <2>6. /\ g.scope[d] = m.scope[q] /\ g.restore[d] = m.restore[q] /\ g.data[d] = m.data[q]
          /\ \A a \in Addr : a # d /\ a # q => /\ g.scope[a] = m.scope[a] /\ g.restore[a] = m.restore[a]
                                               /\ g.data[a] = m.data[a]
          /\ g.region[q] = None
          /\ \A a \in Addr : a # q => g.region[a] = m.region[a]
      <3>1. /\ g.scope = k.scope /\ g.restore = k.restore /\ g.region = k.region /\ g.data = k.data
            /\ m.scope = h.scope /\ m.restore = h.restore /\ m.region = h.region /\ m.data = h.data
        BY <1>15, <1>16
      <3>2. /\ g.scope[c] = m.scope[r] /\ g.restore[c] = m.restore[r] /\ g.data[c] = m.data[r]
            /\ g.region[r] = None
        BY <3>1, <2>2
      <3>3. \A a \in Addr : a # c /\ a # r => /\ g.scope[a] = m.scope[a] /\ g.restore[a] = m.restore[a]
                                              /\ g.data[a] = m.data[a]
        BY <3>1, <2>2
      <3>4. \A a \in Addr : a # r => g.region[a] = m.region[a]  BY <3>1, <2>2
      <3> QED  BY <3>2, <3>3, <3>4, <2>5
    <2>7. /\ g.next[d] = m.next[q] /\ g.next[m.prev[q]] = d
          /\ \A a \in Addr : a # d /\ a # q /\ a # m.prev[q] => g.next[a] = m.next[a]
      BY <2>3, <2>4, <2>5
    <2>8. /\ g.prev[d] = m.prev[q]
          /\ m.next[q] # Null => g.prev[m.next[q]] = d
          /\ \A a \in Addr : a # d /\ a # q /\ a # m.next[q] => g.prev[a] = m.prev[a]
      <3>1. g.prev = k.prev /\ m.prev = h.prev /\ m.next[q] = h.next[r]  BY <2>3, <2>5, <1>15, <1>16
      <3> QED  BY <3>1, <2>2, <2>5
    <2> QED  BY <2>6, <2>7, <2>8, <1>16 DEF Restores, d, q
  <1>19. Good(g, E, T, l, {})
    <2>1. m.restore[Self(o)] # Null /\ m.scope[Self(o)] <= l + 1  BY <1>2, <1>3, <1>15
    <2>2. Good(m, E, T, l, {Self(o)}) /\ l \in Nat /\ T \in Level /\ o \in E  BY <1>2, <1>3
    <2> HIDE DEF m, o, T
    <2> QED  BY <2>1, <2>2, <1>18, RestoreGood
  <1> HIDE DEF m, k
  <1> QED  BY <1>a, <1>3, <1>16, <1>18, <1>19

(* ContextObj::makeCurrent, field by field where a later step needs it.    *)
LEMMA MakeCurrentGood ==
    ASSUME NEW h, NEW E, E \subseteq Obj, NEW top \in Level,
           Good(h, E, top, top, {}), NEW o \in E
    PROVE  LET g == makeCurrent(h, o, top)
               s == Copy(o, h.scope[Self(o)])
           IN /\ Good(g, E, top, top, {})
              /\ \A a \in Addr : a # s => g.data[a] = h.data[a] /\ g.region[a] = h.region[a]
              /\ \/ g.data[s] = h.data[s] /\ g.region[s] = h.region[s]
                 \/ g.data[s] = h.data[Self(o)]
              /\ h.scope[Self(o)] \in Level
  <1> DEFINE c == Self(o)
             s == Copy(o, h.scope[c])
             g == update(h, o, top)
  <1>1. h.scope[c] \in Level
    <2>1. h.scope[c] \in 0 .. top  BY DEF Good
    <2>2. top \in Nat  BY Names
    <2> QED  BY <2>1, <2>2, ConstantsAssumption DEF Level
  <1>2. CASE h.scope[c] = top
    BY <1>1, <1>2 DEF makeCurrent
  <1>3. CASE h.scope[c] # top
    <2>1. /\ Good(g, E, top, top, {})
          /\ g.data = [h.data EXCEPT ![s] = h.data[c]]
          /\ g.region = [h.region EXCEPT ![s] = top]
      BY <1>3, UpdateGood
    <2>2. h.data \in [Addr -> Val \cup {Absent}] /\ h.region \in [Addr -> Level \cup {None}]
      BY HeapFields DEF Good
    <2>3. s \in Addr  BY <1>1, Names
    <2>4. makeCurrent(h, o, top) = g  BY <1>3 DEF makeCurrent
    <2> HIDE DEF g, s, c
    <2>5. /\ \A a \in Addr : a # s => g.data[a] = h.data[a] /\ g.region[a] = h.region[a]
          /\ g.data[s] = h.data[c]
      BY <2>1, <2>2, <2>3
    <2> QED  BY <2>1, <2>4, <2>5, <1>1 DEF s, c
  <1> QED  BY <1>2, <1>3

-----------------------------------------------------------------------------
(* What the scopes see of an object. *)

(* The version of object o in the heap h that the scope at level l sees.   *)
SavedTo(h, o, l) == {k \in 0 .. l : h.region[Copy(o, k)] # None}

VersionAt(h, o, l) ==
    IF h.scope[Self(o)] <= l THEN h.data[Self(o)]
    ELSE h.data[Copy(o, CHOOSE k \in SavedTo(h, o, l) : \A j \in SavedTo(h, o, l) : j <= k)]

(* ValueAt in terms of the heap.                                           *)
LEMMA ValueIsVersion ==
    /\ \A o, l : ValueAt(o, l) = IF o \notin live THEN Blank[o] ELSE VersionAt(heap, o, l)
    /\ \A o, l : ValueAt(o, l)' = IF o \notin live' THEN Blank[o] ELSE VersionAt(heap', o, l)
  BY DEF ValueAt, VersionAt, SavedTo

(* The newest copy that is not newer than l.                               *)
LEMMA NewestCopy ==
    ASSUME NEW h, NEW o, NEW l \in Nat, ~(h.scope[Self(o)] <= l), NEW k \in 0 .. l,
           h.region[Copy(o, k)] # None,
           \A j \in 0 .. l : h.region[Copy(o, j)] # None => j <= k
    PROVE  VersionAt(h, o, l) = h.data[Copy(o, k)]
  <1> DEFINE S == SavedTo(h, o, l)
  <1>1. k \in S /\ (\A j \in S : j <= k) /\ \A j \in S : j \in Nat  BY DEF SavedTo
  <1>2. PICK n : n = CHOOSE i \in S : \A j \in S : j <= i  OBVIOUS
  <1>3. VersionAt(h, o, l) = h.data[Copy(o, n)]  BY <1>2 DEF VersionAt
  <1> HIDE DEF S
  <1>4. n \in S /\ \A j \in S : j <= n  BY <1>1, <1>2
  <1>5. n = k  BY <1>1, <1>4
  <1> QED  BY <1>3, <1>5

(* An enclosing scope older than the object has a copy to go back to.      *)
LEMMA HasNewestCopy ==
    ASSUME NEW h, NEW E, E \subseteq Obj, NEW T \in Level, NEW top, NEW X, Good(h, E, T, top, X),
           NEW o \in E, NEW l \in Nat, ~(h.scope[Self(o)] <= l)
    PROVE  \E k \in 0 .. l : /\ k \in Level /\ h.region[Copy(o, k)] # None
                             /\ \A j \in 0 .. l : j \in Level /\ h.region[Copy(o, j)] # None => j <= k
  <1> DEFINE V == {c \in Used(h, E) : c[1] = o /\ ~(h.scope[c] <= l)}
             S == {h.scope[c] : c \in V}
  <1>1. h \in Heap /\ \A a \in Addr : h.region[a] # None => CopyOK(h, E, a)  BY DEF Good
  <1>2. \A c \in Used(h, E) : h.scope[c] \in 0 .. T /\ c \in Addr /\ RestoreOK(h, c)
    <2>1. \A c \in Used(h, E) : At(h)[c] \in 0 .. T  BY LevelsBounded
    <2> QED  BY <2>1, <1>1, UsedCells DEF Good
  <1>3. S \subseteq Nat /\ S # {}
    <2>1. Self(o) \in V  BY Names DEF Used
    <2>2. \A c \in V : h.scope[c] \in Nat  BY <1>2
    <2> QED  BY <2>1, <2>2
  <1>4. PICK n \in S : \A m \in S : n <= m
    <2> HIDE DEF S
    <2> QED  BY <1>3, ContextLeastElement
  <1>5. PICK c \in V : h.scope[c] = n  BY <1>4
  <1>6. c \in Used(h, E) /\ c[1] = o /\ n > l /\ n \in Nat  BY <1>3, <1>5
  <1> DEFINE r == h.restore[c]
  <1>7. r # Null /\ r[1] = o /\ r[2] = h.scope[r] /\ r[2] < n /\ h.region[r] = n
        /\ \A j \in Level : h.region[Copy(o, j)] # None /\ j < n => j <= r[2]
    BY <1>2, <1>5, <1>6 DEF RestoreOK
  <1>8. r \in Addr /\ h.region[r] # None /\ r \in Used(h, E)
    BY <1>1, <1>2, <1>6, <1>7, HeapFields DEF None, Used
  <1>9. r[2] \in Level /\ r = Copy(o, r[2])  BY <1>1, <1>7, <1>8, Names DEF CopyOK
  <1>10. r[2] <= l
    <2> SUFFICES ASSUME ~(r[2] <= l)  PROVE FALSE  OBVIOUS
    <2>1. r \in V  BY <1>7, <1>8
    <2>2. r[2] \in S  BY <2>1, <1>7
    <2>3. r[2] \in Nat  BY <1>9, Names
    <2> HIDE DEF S, r
    <2> QED  BY <2>2, <2>3, <1>4, <1>6, <1>7
  <1>11. r[2] \in 0 .. l  BY <1>9, <1>10, Names
  <1> HIDE DEF r, V, S
  <1>12. \A j \in 0 .. l : j < n  BY <1>6
  <1> QED  BY <1>7, <1>8, <1>9, <1>11, <1>12

(* What is saved of an object decides what an enclosing scope sees.        *)
LEMMA SameVersion ==
    ASSUME NEW h, NEW E, E \subseteq Obj, NEW T \in Level, NEW top, NEW X, Good(h, E, T, top, X),
           NEW o \in E, NEW l \in Level, NEW g,
           g.scope[Self(o)] = h.scope[Self(o)], g.data[Self(o)] = h.data[Self(o)],
           \A k \in 0 .. l : k \in Level => /\ g.region[Copy(o, k)] = h.region[Copy(o, k)]
                                            /\ g.data[Copy(o, k)] = h.data[Copy(o, k)]
    PROVE  VersionAt(g, o, l) = VersionAt(h, o, l)
  <1>1. l \in Nat /\ \A k \in 0 .. l : k \in Level  BY Names, ConstantsAssumption DEF Level
  <1>2. CASE h.scope[Self(o)] <= l  BY <1>2 DEF VersionAt
  <1>3. CASE ~(h.scope[Self(o)] <= l)
    <2>1. PICK k \in 0 .. l : /\ h.region[Copy(o, k)] # None
                             /\ \A j \in 0 .. l : j \in Level /\ h.region[Copy(o, j)] # None => j <= k
      BY <1>1, <1>3, HasNewestCopy
    <2>2. VersionAt(h, o, l) = h.data[Copy(o, k)]  BY <1>1, <1>3, <2>1, NewestCopy
    <2>3. VersionAt(g, o, l) = g.data[Copy(o, k)]  BY <1>1, <1>3, <2>1, NewestCopy
    <2> QED  BY <2>2, <2>3, <1>1
  <1> QED  BY <1>2, <1>3

(* ContextObj::makeCurrent turns h into m: what it does to the versions.   *)
MadeCurrent(h, o, top, m) ==
    LET c == Self(o)
        s == Copy(o, h.scope[c])
    IN /\ m.scope[c] = top /\ \A a \in Addr : a # s /\ a # c => m.scope[a] = h.scope[a]
       /\ \A a \in Addr : a # s => m.data[a] = h.data[a] /\ m.region[a] = h.region[a]
       /\ h.scope[c] # top => m.data[s] = h.data[c] /\ m.region[s] = top
       /\ h.scope[c] = top => m = h

LEMMA MakeCurrentFields ==
    ASSUME NEW h, NEW E, E \subseteq Obj, NEW top \in Level, Good(h, E, top, top, {}), NEW o \in E
    PROVE  MadeCurrent(h, o, top, makeCurrent(h, o, top))
  <1> DEFINE c == Self(o)
             s == Copy(o, h.scope[c])
             u == update(h, o, top)
  <1>1. h.data \in [Addr -> Val \cup {Absent}] /\ h.region \in [Addr -> Level \cup {None}]
    BY HeapFields DEF Good
  <1>2. CASE h.scope[c] = top  BY <1>2 DEF makeCurrent, MadeCurrent
  <1>3. CASE h.scope[c] # top
    <2>1. makeCurrent(h, o, top) = u  BY <1>3 DEF makeCurrent
    <2>2. /\ Good(u, E, top, top, {})
          /\ h.scope[c] \in Level /\ h.scope[c] < top /\ h.region[s] = None
          /\ u.scope[c] = top
          /\ \A a \in Addr : a # s /\ a # c => u.scope[a] = h.scope[a]
          /\ u.data = [h.data EXCEPT ![s] = h.data[c]]
          /\ u.region = [h.region EXCEPT ![s] = top]
      BY <1>3, UpdateGood
    <2>3. s \in Addr  BY <2>2, Names
    <2> HIDE DEF u, s, c
    <2>4. /\ \A a \in Addr : a # s => u.data[a] = h.data[a] /\ u.region[a] = h.region[a]
          /\ u.data[s] = h.data[c] /\ u.region[s] = top
      BY <2>2, <2>3, <1>1
    <2> QED  BY <2>1, <2>2, <2>4, <1>3 DEF s, c, MadeCurrent
  <1> QED  BY <1>2, <1>3

(* The client writes v to object o of the heap h, which gives g.           *)
Puts(h, E, top, o, v, g) ==
    /\ E \subseteq Obj /\ Good(h, E, top, top, {}) /\ o \in E
    /\ v \in Val /\ g = SetData(makeCurrent(h, o, top), o, v)

(* Writing an object changes no version but the one of the top scope.      *)
LEMMA WriteKeeps ==
    ASSUME NEW h, NEW E, NEW top \in Level, NEW o, NEW v, NEW g, Puts(h, E, top, o, v, g)
    PROVE  /\ \A p \in E, l \in Level : p # o => VersionAt(g, p, l) = VersionAt(h, p, l)
           /\ \A l \in 0 .. top - 1 : VersionAt(g, o, l) = VersionAt(h, o, l)
  <1> DEFINE c == Self(o)
             old == h.scope[c]
             s == Copy(o, old)
             m == makeCurrent(h, o, top)
  <1>a. E \subseteq Obj /\ Good(h, E, top, top, {}) /\ o \in E /\ v \in Val  BY DEF Puts
  <1>1. h \in Heap /\ \A a \in Addr : h.region[a] # None => CopyOK(h, E, a)  BY <1>a DEF Good
  <1>2. /\ h.scope \in [Addr -> Level \cup {None}]
        /\ h.data \in [Addr -> Val \cup {Absent}] /\ h.region \in [Addr -> Level \cup {None}]
    BY <1>1, HeapFields
  <1>3. o \in Obj /\ top \in Nat /\ old \in 0 .. top /\ old \in Level /\ old \in Nat
    <2>1. old \in 0 .. top /\ top \in Nat  BY <1>a, Names DEF Good
    <2> QED  BY <2>1, <1>a, <1>1, UsedCells
  <1>4. c \in Addr /\ s \in Addr /\ s # c /\ c[1] = o /\ s[1] = o /\ s[2] = old  BY <1>3, Names
  <1>5. /\ m.scope[c] = top /\ \A a \in Addr : a # s /\ a # c => m.scope[a] = h.scope[a]
        /\ \A a \in Addr : a # s => m.data[a] = h.data[a] /\ m.region[a] = h.region[a]
        /\ old # top => m.data[s] = h.data[c] /\ m.region[s] = top
        /\ old = top => m = h
        /\ Good(m, E, top, top, {})
    <2>1. Good(m, E, top, top, {})  BY <1>a, MakeCurrentGood
    <2>2. MadeCurrent(h, o, top, m)  BY <1>a, MakeCurrentFields
    <2> HIDE DEF m
    <2> QED  BY <2>1, <2>2 DEF MadeCurrent
  <1> HIDE DEF m
  <1>6. g.data = [m.data EXCEPT ![c] = v] /\ g.scope = m.scope /\ g.region = m.region
    <2> DEFINE k == SetData(m, o, v)
    <2>1. /\ Good(k, E, top, top, {})
          /\ k.data = [m.data EXCEPT ![c] = v] /\ k.scope = m.scope /\ k.region = m.region
      BY <1>a, <1>3, <1>5, SetDataGood
    <2> HIDE DEF k
    <2>2. g = k  BY DEF k, m, Puts
    <2> QED  BY <2>1, <2>2
  <1>7. m.data \in [Addr -> Val \cup {Absent}]  BY <1>5, HeapFields DEF Good
  <1>8. /\ g.scope[c] = top /\ \A a \in Addr : a # s /\ a # c => g.scope[a] = h.scope[a]
        /\ \A a \in Addr : a # s => g.region[a] = h.region[a]
        /\ \A a \in Addr : a # s /\ a # c => g.data[a] = h.data[a]
        /\ old # top => g.data[s] = h.data[c] /\ g.region[s] = top
        /\ old = top => g.data[s] = h.data[s] /\ g.region[s] = h.region[s]
    <2> HIDE DEF s, c, old
    <2> QED  BY <1>4, <1>5, <1>6, <1>7
  <1>9. ASSUME NEW p \in E, NEW l \in Level, p # o  PROVE VersionAt(g, p, l) = VersionAt(h, p, l)
    <2>1. p \in Obj /\ Self(p) \in Addr /\ Self(p)[1] = p  BY <1>a, Names
    <2>2. \A k \in Level : Copy(p, k) \in Addr /\ Copy(p, k)[1] = p  BY <2>1, Names
    <2>3. g.scope[Self(p)] = h.scope[Self(p)] /\ g.data[Self(p)] = h.data[Self(p)]
      BY <2>1, <1>4, <1>8, <1>9
    <2>4. \A k \in Level : /\ g.region[Copy(p, k)] = h.region[Copy(p, k)]
                           /\ g.data[Copy(p, k)] = h.data[Copy(p, k)]
      BY <2>2, <1>4, <1>8, <1>9
    <2> QED  BY <2>3, <2>4, <1>a, SameVersion
  <1>10. ASSUME NEW l \in 0 .. top - 1  PROVE VersionAt(g, o, l) = VersionAt(h, o, l)
    <2>1. l \in Nat /\ ~(g.scope[c] <= l) /\ l < top  BY <1>3, <1>8
    <2>2. \A k \in 0 .. l : k \in Level
      <3>1. \A k \in 0 .. top : k \in Level  BY <1>a, <1>1, UsedCells
      <3> QED  BY <3>1, <2>1, <1>3
    <2>3. \A k \in Level : /\ Copy(o, k) \in Addr /\ Copy(o, k)[1] = o /\ Copy(o, k)[2] = k
                           /\ Copy(o, k) # c
      BY <1>3, Names
    <2>4. \A k \in Level : h.region[Copy(o, k)] # None => k < old
      BY <2>3, <1>1 DEF CopyOK
    <2>5. CASE old <= l
      <3>1. old # top /\ old \in 0 .. l  BY <2>1, <2>5, <1>3
      <3>2. g.region[Copy(o, old)] # None /\ g.data[Copy(o, old)] = h.data[c]
        BY <3>1, <1>3, <1>8 DEF None
      <3>3. \A j \in 0 .. l : g.region[Copy(o, j)] # None => j <= old
        <4> SUFFICES ASSUME NEW j \in 0 .. l, g.region[Copy(o, j)] # None, j # old  PROVE j <= old
          BY <1>3
        <4>1. Copy(o, j) # s /\ Copy(o, j) \in Addr  BY <2>2, <2>3, <1>4
        <4>2. j < old  BY <4>1, <2>2, <2>4, <1>8
        <4> QED  BY <4>2, <1>3
      <3>4. VersionAt(g, o, l) = g.data[Copy(o, old)]
        <4> HIDE DEF old
        <4> QED  BY <3>1, <3>2, <3>3, <2>1, NewestCopy
      <3>5. VersionAt(h, o, l) = h.data[c]  BY <2>5 DEF VersionAt
      <3> QED  BY <3>2, <3>4, <3>5
    <2>6. CASE ~(old <= l)
      <3>1. PICK k \in 0 .. l : /\ k \in Level /\ h.region[Copy(o, k)] # None
                               /\ \A j \in 0 .. l : j \in Level /\ h.region[Copy(o, j)] # None => j <= k
        BY <2>1, <2>6, <1>a, HasNewestCopy
      <3>2. \A j \in 0 .. l : Copy(o, j) # s /\ Copy(o, j) \in Addr /\ Copy(o, j) # c
        BY <2>1, <2>2, <2>3, <2>6, <1>3, <1>4
      <3>3. \A j \in 0 .. l : /\ g.region[Copy(o, j)] = h.region[Copy(o, j)]
                              /\ g.data[Copy(o, j)] = h.data[Copy(o, j)]
        BY <3>2, <1>8
      <3>4. VersionAt(h, o, l) = h.data[Copy(o, k)]  BY <3>1, <2>1, <2>2, <2>6, NewestCopy
      <3>5. VersionAt(g, o, l) = g.data[Copy(o, k)]  BY <3>1, <3>3, <2>1, <2>2, NewestCopy
      <3> QED  BY <3>3, <3>4, <3>5
    <2> QED  BY <2>5, <2>6
  <1> QED  BY <1>9, <1>10

(* A new object shows its blank to every scope, and the others are as they *)
(* were.                                                                   *)
LEMMA NewKeeps ==
    ASSUME NEW h, NEW E, E \subseteq Obj, NEW top \in Level, Good(h, E, top, top, {}),
           NEW o \in Obj, o \notin E
    PROVE  LET g == NewContextObj(h, o) IN
           /\ \A p \in E, l \in Level : VersionAt(g, p, l) = VersionAt(h, p, l)
           /\ \A l \in Level : VersionAt(g, o, l) = Blank[o]
  <1> DEFINE c == Self(o)
             g == NewContextObj(h, o)
  <1>1. h \in Heap  BY DEF Good
  <1>2. h.scope \in [Addr -> Level \cup {None}] /\ h.data \in [Addr -> Val \cup {Absent}]
    BY <1>1, HeapFields
  <1> DEFINE F == E \cup {o}
  <1>3. /\ Good(g, F, top, top, {})
        /\ g.scope = [h.scope EXCEPT ![c] = 0]
        /\ g.data = [h.data EXCEPT ![c] = Blank[o]]
        /\ g.region = h.region
    BY NewContextObjGood
  <1> HIDE DEF g
  <1>4. c \in Addr /\ c[1] = o /\ c[2] = Live  BY Names
  <1>5. ASSUME NEW p \in E, NEW l \in Level  PROVE VersionAt(g, p, l) = VersionAt(h, p, l)
    <2>1. p \in Obj /\ Self(p) \in Addr /\ Self(p) # c  BY Names
    <2>2. \A k \in Level : Copy(p, k) \in Addr /\ Copy(p, k) # c  BY <2>1, Names
    <2> HIDE DEF c
    <2>3. g.scope[Self(p)] = h.scope[Self(p)] /\ g.data[Self(p)] = h.data[Self(p)]
      BY <2>1, <1>2, <1>3
    <2>4. \A k \in Level : /\ g.region[Copy(p, k)] = h.region[Copy(p, k)]
                           /\ g.data[Copy(p, k)] = h.data[Copy(p, k)]
      BY <2>2, <1>2, <1>3
    <2> QED  BY <2>3, <2>4, SameVersion
  <1>6. g.scope[c] = 0 /\ g.data[c] = Blank[o]
    <2> HIDE DEF c
    <2> QED  BY <1>2, <1>3, <1>4
  <1>7. \A l \in Level : 0 <= l  BY Names
  <1> QED  BY <1>5, <1>6, <1>7 DEF VersionAt, g

(* Object o goes back to its newest copy r: the versions in g, after h.    *)
BackTo(h, o, c, r, g) ==
    /\ c = Self(o) /\ r = h.restore[c] /\ g.scope[c] = h.scope[r] /\ g.data[c] = h.data[r]
    /\ \A a \in Addr : a # c /\ a # r => g.scope[a] = h.scope[a] /\ g.data[a] = h.data[a]
    /\ \A a \in Addr : a # r => g.region[a] = h.region[a]

(* Going back to the newest copy changes nothing for the scopes below.     *)
LEMMA RestoreKeeps ==
    ASSUME NEW h, NEW E, E \subseteq Obj, NEW T \in Level, NEW top, NEW X, Good(h, E, T, top, X),
           NEW o \in E, FromCopy(h, E, o), NEW c, NEW r, NEW g, BackTo(h, o, c, r, g)
    PROVE  /\ \A p \in E, l \in Level : p # o => VersionAt(g, p, l) = VersionAt(h, p, l)
           /\ \A l \in Level : l < h.scope[c] => VersionAt(g, o, l) = VersionAt(h, o, l)
  <1>a. /\ c = Self(o) /\ r = h.restore[c] /\ g.scope[c] = h.scope[r] /\ g.data[c] = h.data[r]
        /\ \A a \in Addr : a # c /\ a # r => g.scope[a] = h.scope[a] /\ g.data[a] = h.data[a]
        /\ \A a \in Addr : a # r => g.region[a] = h.region[a]
    BY DEF BackTo
  <1>1. /\ r \in Addr /\ r # c /\ r[1] = o /\ r[2] \in Level /\ h.scope[r] = r[2]
        /\ r[2] < h.scope[c] /\ h.scope[c] \in Nat /\ h.region[r] # None
        /\ \A a \in Addr : h.region[a] # None /\ a[1] = o => a[2] <= r[2]
    BY <1>a DEF FromCopy
  <1>2. c \in Addr /\ c[1] = o /\ o \in Obj /\ r = Copy(o, r[2]) /\ r[2] \in Nat  BY <1>a, <1>1, Names
  <1>3. ASSUME NEW p \in E, NEW l \in Level, p # o  PROVE VersionAt(g, p, l) = VersionAt(h, p, l)
    <2>1. p \in Obj /\ Self(p) \in Addr /\ Self(p)[1] = p  BY Names
    <2>2. \A k \in Level : Copy(p, k) \in Addr /\ Copy(p, k)[1] = p  BY <2>1, Names
    <2>3. g.scope[Self(p)] = h.scope[Self(p)] /\ g.data[Self(p)] = h.data[Self(p)]
      BY <2>1, <1>a, <1>1, <1>2, <1>3
    <2>4. \A k \in Level : /\ g.region[Copy(p, k)] = h.region[Copy(p, k)]
                           /\ g.data[Copy(p, k)] = h.data[Copy(p, k)]
      BY <2>2, <1>a, <1>1, <1>2, <1>3
    <2> QED  BY <2>3, <2>4, SameVersion
  <1>4. ASSUME NEW l \in Level, l < h.scope[c]  PROVE VersionAt(g, o, l) = VersionAt(h, o, l)
    <2>1. l \in Nat /\ ~(h.scope[Self(o)] <= l) /\ \A k \in 0 .. l : k \in Level
      <3>1. l \in Nat /\ \A k \in 0 .. l : k \in Level  BY Names, ConstantsAssumption DEF Level
      <3> QED  BY <3>1, <1>a, <1>1, <1>4
    <2>2. \A k \in Level : /\ Copy(o, k) \in Addr /\ Copy(o, k)[1] = o /\ Copy(o, k)[2] = k
                           /\ Copy(o, k) # c
      BY <1>a, <1>2, Names
    <2>3. CASE r[2] <= l
      <3>1. r[2] \in 0 .. l /\ h.region[Copy(o, r[2])] # None  BY <2>1, <2>3, <1>1, <1>2
      <3>2. \A j \in 0 .. l : h.region[Copy(o, j)] # None => j <= r[2]  BY <2>1, <2>2, <1>1
      <3>3. VersionAt(h, o, l) = h.data[Copy(o, r[2])]  BY <3>1, <3>2, <2>1, NewestCopy
      <3>4. VersionAt(g, o, l) = g.data[c]  BY <2>3, <1>a, <1>1 DEF VersionAt
      <3> QED  BY <3>3, <3>4, <1>a, <1>2
    <2>4. CASE ~(r[2] <= l)
      <3>1. PICK k \in 0 .. l : /\ k \in Level /\ h.region[Copy(o, k)] # None
                               /\ \A j \in 0 .. l : j \in Level /\ h.region[Copy(o, j)] # None => j <= k
        BY <2>1, HasNewestCopy
      <3>2. \A j \in 0 .. l : Copy(o, j) # r /\ Copy(o, j) \in Addr /\ Copy(o, j) # c
        <4> SUFFICES ASSUME NEW j \in 0 .. l  PROVE Copy(o, j) # r /\ Copy(o, j) \in Addr /\ Copy(o, j) # c
          OBVIOUS
        <4>1. j # r[2]  BY <2>1, <2>4, <1>2
        <4> QED  BY <4>1, <2>1, <2>2
      <3>3. \A j \in 0 .. l : /\ g.region[Copy(o, j)] = h.region[Copy(o, j)]
                              /\ g.data[Copy(o, j)] = h.data[Copy(o, j)]
        BY <3>2, <1>a
      <3>4. VersionAt(h, o, l) = h.data[Copy(o, k)]  BY <3>1, <2>1, NewestCopy
      <3>5. ~(g.scope[Self(o)] <= l)  BY <2>4, <1>a, <1>1
      <3>6. VersionAt(g, o, l) = g.data[Copy(o, k)]  BY <3>1, <3>3, <3>5, <2>1, NewestCopy
      <3> QED  BY <3>3, <3>4, <3>6
    <2> QED  BY <2>3, <2>4
  <1> QED  BY <1>3, <1>4

-----------------------------------------------------------------------------
(* The invariant of Context: the heap is in order for the objects and the  *)
(* scopes that exist, and so is what is on its way out of its map.         *)
Top == IF stage = "restore" THEN level + 1 ELSE level

HeapOK == Good(heap, Existing, Top, level, {})

(* An element that is in no map is on d_garbage or is being destroyed, and *)
(* only the bottom scope knows a version of it that was in no map.         *)
Leaving ==
    /\ dying \notin live
    /\ \A o \in live \cap Elem : heap.data[Self(o)] = Absent => \E i \in DOMAIN garbage : garbage[i] = o
    /\ \A o \in Elem, l \in Level :
          heap.region[Copy(o, l)] # None /\ heap.data[Copy(o, l)] = Absent => l = 0
    /\ \A i \in DOMAIN garbage :
          /\ garbage[i] \in live \cap Elem
          /\ heap.scope[Self(garbage[i])] = 0 /\ heap.data[Self(garbage[i])] = Absent
    /\ \A i, j \in DOMAIN garbage : garbage[i] = garbage[j] => i = j
    /\ garbage # <<>> => stage = "restore"
    /\ stage = "restore" /\ dying # NoObj => heap.scope[Self(dying)] = 0

ContextInv == IInv /\ HeapOK /\ Leaving

(* A freshly constructed Context. *)
LEMMA InitContextInv == Init => ContextInv
  <1> SUFFICES ASSUME Init  PROVE HeapOK /\ Leaving  BY InitIInv DEF ContextInv
  <1>1. IInv  BY InitIInv
  <1>2. Existing = {} /\ Top = 0 /\ level = 0 /\ garbage = <<>> /\ dying = NoObj /\ live = {} /\ stage = "idle"
    BY DEF Init, Existing, Top
  <1>3. heap \in Heap  BY <1>1 DEF IInv, TypeOK
  <1>4. \A a \in Addr : heap.region[a] = None /\ heap.next[a] = Null  BY DEF Init
  <1>5. Used(heap, {}) = {}  BY <1>4 DEF Used
  <1>6. \A d \in Heads(0) : d \in Addr
    <2>1. \A l \in 0 .. 0 : l \in Level  BY Names
    <2> QED  BY <2>1, Names DEF Heads
  <1>7. Lists(heap.next, heap.prev, At(heap), {}, Heads(0), 0)
    <2> DEFINE rank == [a \in Addr |-> 0]
    <2>1. \A d \in {} \cup Heads(0) : heap.next[d] = Null  BY <1>4, <1>6
    <2>2. LinkedLists(heap.next, heap.prev, At(heap), {}, Heads(0), 0)  BY <2>1 DEF LinkedLists
    <2>3. rank \in [Addr -> Nat] /\ Forward(rank, heap.next, {}, Heads(0))  BY <2>1 DEF Forward
    <2> QED  BY <2>2, <2>3 DEF Lists
  <1>8. {} \ {} = {}  OBVIOUS
  <1>9. Good(heap, {}, 0, 0, {})  BY <1>3, <1>4, <1>5, <1>7, <1>8 DEF Good
  <1>10. HeapOK  BY <1>2, <1>9 DEF HeapOK
  <1>11. \A o \in Elem, l \in Level : heap.region[Copy(o, l)] = None
    BY <1>4, Names, ConstantsAssumption
  <1> QED  BY <1>2, <1>10, <1>11 DEF Leaving

(* The parts of ContextInv that the steps use.                             *)
LEMMA ContextFacts ==
    ASSUME ContextInv
    PROVE  /\ heap \in Heap /\ level \in Level /\ level \in Nat /\ live \subseteq Obj
           /\ garbage \in Seq(Obj) /\ Existing \subseteq Obj /\ dying \in Obj \cup {NoObj}
           /\ dying = NoObj => Existing = live
           /\ dying # NoObj => dying \in Obj /\ Existing = live \cup {dying}
           /\ stage = "restore" => level + 1 \in Level /\ Good(heap, Existing, level + 1, level, {})
           /\ stage # "restore" => Good(heap, Existing, level, level, {}) /\ garbage = <<>>
           /\ stage = "pre" => level > 0
           /\ \A p, q \in Obj : p # q => Self(p) # Self(q)
           /\ \A p, q \in Obj, l \in Level : Self(p) # Copy(q, l)
           /\ \A p \in Obj : Self(p) \in Addr
           /\ \A p \in Obj, l \in Level : Copy(p, l) \in Addr
  <1>1. IInv  BY DEF ContextInv
  <1>2. /\ heap \in Heap /\ level \in Level /\ live \subseteq Obj
        /\ garbage \in Seq(Obj) /\ dying \in Obj \cup {NoObj}
        /\ stage = "pre" => level > 0
        /\ stage = "restore" => level < MaxLevel
    BY <1>1 DEF IInv, TypeOK, StageOK
  <1>3. level \in Nat  BY <1>2, Names
  <1>4. /\ Existing \subseteq Obj /\ (dying = NoObj => Existing = live)
        /\ dying # NoObj => dying \in Obj /\ Existing = live \cup {dying}
    BY <1>2 DEF Existing
  <1>5. stage = "restore" => level + 1 \in Level /\ Good(heap, Existing, level + 1, level, {})
    <2> SUFFICES ASSUME stage = "restore"  PROVE level + 1 \in Level /\ Good(heap, Existing, level + 1, level, {})
      OBVIOUS
    <2>1. level + 1 \in Level  BY <1>2, <1>3, ConstantsAssumption DEF Level
    <2>2. Top = level + 1  BY DEF Top
    <2> QED  BY <2>1, <2>2 DEF ContextInv, HeapOK
  <1>6. stage # "restore" => Good(heap, Existing, level, level, {}) /\ garbage = <<>>
    <2> SUFFICES ASSUME stage # "restore"  PROVE Good(heap, Existing, level, level, {}) /\ garbage = <<>>
      OBVIOUS
    <2>1. Top = level  BY DEF Top
    <2> QED  BY <2>1 DEF ContextInv, HeapOK, Leaving
  <1> QED  BY <1>2, <1>3, <1>4, <1>5, <1>6, Names

(* The next states of HeapOK, from the heap lemmas.                        *)
LEMMA HeapNext ==
    /\ stage' = "restore" /\ Good(heap', Existing', level' + 1, level', {}) => HeapOK'
    /\ stage' # "restore" /\ Good(heap', Existing', level', level', {}) => HeapOK'
  BY DEF HeapOK, Top

(* Context::push. *)
LEMMA PushInv == ContextInv /\ IInv' /\ push => ContextInv'
  <1> SUFFICES ASSUME ContextInv, IInv', push  PROVE HeapOK' /\ Leaving'  BY DEF ContextInv
  <1>1. /\ stage = "idle" /\ stage' = "idle" /\ dying = NoObj /\ level' = level + 1
        /\ heap' = [heap EXCEPT !.next = [@ EXCEPT ![Scope(level + 1)] = Null]]
        /\ live' = live /\ garbage' = garbage /\ dying' = dying
    BY DEF push
  <1>2. level + 1 \in Level /\ level \in Level /\ Existing \subseteq Obj /\ heap \in Heap
        /\ Good(heap, Existing, level, level, {})
    BY <1>1, ContextFacts DEF IInv, TypeOK
  <1>3. Existing' = Existing  BY <1>1 DEF Existing
  <1>4. Good(heap', Existing, level + 1, level + 1, {})
    BY <1>1, <1>2, PushGood
  <1>5. HeapOK'  BY <1>1, <1>3, <1>4, HeapNext
  <1>6. heap'.data = heap.data /\ heap'.region = heap.region /\ heap'.scope = heap.scope
    BY <1>1, <1>2 DEF Heap
  <1>7. Leaving'  BY <1>1, <1>6 DEF ContextInv, Leaving
  <1> QED  BY <1>5, <1>7

(* The steps of Context::pop that leave the heap alone, and the start of   *)
(* the destruction of an object.                                           *)
LEMMA QuietInv ==
    ContextInv /\ IInv' /\ (pop \/ PopScope \/ PopEnd \/ DeleteGarbage \/ \E o \in Obj : Destroy(o))
       => ContextInv'
  <1> SUFFICES ASSUME ContextInv, IInv'
               PROVE  (pop \/ PopScope \/ PopEnd \/ DeleteGarbage \/ \E o \in Obj : Destroy(o))
                         => HeapOK' /\ Leaving'
    BY DEF ContextInv
  <1>a. /\ heap \in Heap /\ level \in Level /\ level \in Nat /\ live \subseteq Obj
        /\ garbage \in Seq(Obj) /\ Existing \subseteq Obj
        /\ stage = "restore" => level + 1 \in Level /\ Good(heap, Existing, level + 1, level, {})
        /\ stage # "restore" => Good(heap, Existing, level, level, {}) /\ garbage = <<>>
        /\ stage = "pre" => level > 0
    BY ContextFacts
  <1>b. Leaving  BY DEF ContextInv
  <1>1. CASE pop \/ PopEnd
    <2>1. /\ stage # "restore" /\ stage' # "restore" /\ level' = level /\ live' = live
          /\ heap' = heap /\ garbage' = garbage /\ dying' = dying
      BY <1>1 DEF pop, PopEnd
    <2>2. Existing' = Existing  BY <2>1 DEF Existing
    <2>3. HeapOK'  BY <2>1, <2>2, <1>a, HeapNext
    <2>4. Leaving'  BY <2>1, <1>a, <1>b DEF Leaving
    <2> QED  BY <2>3, <2>4
  <1>2. CASE PopScope
    <2>1. /\ stage = "pre" /\ stage' = "restore" /\ dying = NoObj /\ level' = level - 1 /\ live' = live
          /\ heap' = heap /\ garbage' = garbage /\ dying' = dying
      BY <1>2 DEF PopScope
    <2>2. Existing' = Existing  BY <2>1 DEF Existing
    <2>3. level' \in Nat /\ level = level' + 1  BY <2>1, <1>a
    <2>4. Good(heap, Existing, level, level, {})  BY <2>1, <1>a
    <2>5. Good(heap, Existing, level, level', {})  BY <2>3, <2>4, <1>a, PopScopeGood
    <2>6. HeapOK'  BY <2>1, <2>2, <2>3, <2>5, HeapNext
    <2>7. Leaving'  BY <2>1, <1>a, <1>b DEF Leaving
    <2> QED  BY <2>6, <2>7
  <1>3. CASE DeleteGarbage
    <2>1. /\ stage = "restore" /\ stage' = "restore" /\ dying = NoObj /\ garbage # <<>>
          /\ dying' = Head(garbage) /\ live' = live \ {Head(garbage)} /\ garbage' = Tail(garbage)
          /\ level' = level /\ heap' = heap
      BY <1>3 DEF DeleteGarbage
    <2>2. /\ Head(garbage) = garbage[1] /\ 1 \in DOMAIN garbage
          /\ \A i \in DOMAIN garbage' : i + 1 \in DOMAIN garbage /\ garbage'[i] = garbage[i + 1]
          /\ \A i \in DOMAIN garbage : i # 1 => i - 1 \in DOMAIN garbage'
          /\ \A i \in DOMAIN garbage : i \in Nat
      BY <2>1, <1>a
    <2>3. \A i \in DOMAIN garbage : i # 1 => garbage'[i - 1] = garbage[i]
      BY <2>2
    <2>4. Head(garbage) \in live /\ heap.scope[Self(Head(garbage))] = 0  BY <2>2, <1>b DEF Leaving
    <2>5. Existing' = Existing
      <3>1. NoObj \notin Obj  BY Names
      <3> QED  BY <3>1, <2>1, <2>4, <1>a DEF Existing
    <2>6. HeapOK'  BY <2>1, <2>5, <1>a, HeapNext
    <2>7. Leaving'
      <3>1. \A o \in live' \cap Elem : heap.data[Self(o)] = Absent => \E i \in DOMAIN garbage' : garbage'[i] = o
        <4> SUFFICES ASSUME NEW o \in live' \cap Elem, heap.data[Self(o)] = Absent
                     PROVE  \E i \in DOMAIN garbage' : garbage'[i] = o
          OBVIOUS
        <4>1. o \in live \cap Elem /\ o # garbage[1]  BY <2>1, <2>2
        <4>2. PICK i \in DOMAIN garbage : garbage[i] = o  BY <4>1, <1>b DEF Leaving
        <4> QED  BY <4>1, <4>2, <2>2, <2>3
      <3>2. \A i \in DOMAIN garbage' :
               /\ garbage'[i] \in live' \cap Elem
               /\ heap.scope[Self(garbage'[i])] = 0 /\ heap.data[Self(garbage'[i])] = Absent
        <4> SUFFICES ASSUME NEW i \in DOMAIN garbage'
                     PROVE  /\ garbage'[i] \in live' \cap Elem
                            /\ heap.scope[Self(garbage'[i])] = 0 /\ heap.data[Self(garbage'[i])] = Absent
          OBVIOUS
        <4>1. i + 1 \in DOMAIN garbage /\ garbage'[i] = garbage[i + 1]  BY <2>2
        <4>2. i + 1 # 1
          <5>1. Len(garbage) \in Nat /\ DOMAIN garbage' = 1 .. (Len(garbage) - 1)  BY <2>1, <1>a
          <5> QED  BY <5>1
        <4>3. garbage[i + 1] # garbage[1]  BY <4>1, <4>2, <2>2, <1>b DEF Leaving
        <4> QED  BY <4>1, <4>3, <2>1, <2>2, <1>b DEF Leaving
      <3>3. \A i, j \in DOMAIN garbage' : garbage'[i] = garbage'[j] => i = j
        <4> SUFFICES ASSUME NEW i \in DOMAIN garbage', NEW j \in DOMAIN garbage', garbage'[i] = garbage'[j]
                     PROVE  i = j
          OBVIOUS
        <4>1. i + 1 = j + 1  BY <2>2, <1>b DEF Leaving
        <4>2. i \in Int /\ j \in Int
          <5>1. Len(garbage) \in Nat /\ DOMAIN garbage' = 1 .. (Len(garbage) - 1)  BY <2>1, <1>a
          <5> QED  BY <5>1
        <4> QED  BY <4>1, <4>2
      <3> QED  BY <3>1, <3>2, <3>3, <2>1, <2>4, <1>b DEF Leaving
    <2> QED  BY <2>6, <2>7
  <1>4. ASSUME NEW o \in Obj, Destroy(o)  PROVE HeapOK' /\ Leaving'
    <2>1. /\ stage # "restore" /\ stage' = stage /\ dying = NoObj /\ o \in live
          /\ live' = live \ {o} /\ dying' = o /\ level' = level /\ heap' = heap /\ garbage' = garbage
      BY <1>4 DEF Destroy, ClientRuns
    <2>2. Existing' = Existing
      <3>1. NoObj \notin Obj  BY Names
      <3> QED  BY <3>1, <2>1, <1>a DEF Existing
    <2>3. HeapOK'  BY <2>1, <2>2, <1>a, HeapNext
    <2>4. garbage = <<>>  BY <2>1, <1>a
    <2>5. Leaving'  BY <2>1, <2>4, <1>b DEF Leaving
    <2> QED  BY <2>3, <2>5
  <1> QED  BY <1>1, <1>2, <1>3, <1>4

(* A turn of the loop of ~Scope. *)
LEMMA RestoreNextInv ==
    ContextInv /\ IInv' /\ RestoreNext
       => ContextInv' /\ \A p \in live, l \in 0 .. level : VersionAt(heap', p, l) = VersionAt(heap, p, l)
  <1> SUFFICES ASSUME ContextInv, IInv', RestoreNext
               PROVE  /\ HeapOK' /\ Leaving'
                      /\ \A p \in live, l \in 0 .. level : VersionAt(heap', p, l) = VersionAt(heap, p, l)
    BY DEF ContextInv
  <1> DEFINE c == heap.next[Scope(level + 1)]
             o == c[1]
             r == heap.restore[c]
             m == [heap EXCEPT !.next = [@ EXCEPT ![Scope(level + 1)] = heap.next[c]]]
  <1>1. /\ stage = "restore" /\ stage' = "restore" /\ dying = NoObj /\ c # Null
        /\ heap' = [restoreAndContinue(heap, o) EXCEPT !.next =
                       [@ EXCEPT ![Scope(level + 1)] = heap.next[c]]]
        /\ garbage' = IF o \in Elem /\ restoreAndContinue(heap, o).data[c] = Absent
                      THEN Append(garbage, o) ELSE garbage
        /\ level' = level /\ live' = live /\ dying' = dying
    BY DEF RestoreNext
  <1>2. /\ level \in Level /\ level \in Nat /\ level + 1 \in Level /\ heap \in Heap /\ live \subseteq Obj
        /\ garbage \in Seq(Obj) /\ Existing \subseteq Obj /\ Existing = live
        /\ Good(heap, Existing, level + 1, level, {})
        /\ \A p \in Obj, l \in Level : Copy(p, l) \in Addr
        /\ \A p \in Obj : Self(p) \in Addr
        /\ \A p, q \in Obj : p # q => Self(p) # Self(q)
        /\ \A p, q \in Obj, l \in Level : Self(p) # Copy(q, l)
    BY <1>1, ContextFacts
  <1>3. /\ Good(heap', Existing, level + 1, level, {})
        /\ o \in Existing /\ c = Self(o) /\ heap.scope[c] = level + 1 /\ heap.restore[c] # Null
        /\ restoreAndContinue(heap, o).data = heap'.data
        /\ Restores(m, heap', o)
    <2> DEFINE T == level + 1
               k == restoreAndContinue(heap, o)
               E == Existing
    <2>1. Turn(heap, T, c, m, k, heap')  BY <1>1 DEF Turn
    <2>2. Good(heap, E, T, level, {}) /\ level \in Level /\ T \in Level /\ T = level + 1
          /\ E \subseteq Obj
      BY <1>2
    <2> HIDE DEF c, m, k, T, E
    <2>3. /\ Good(heap', E, T, level, {})
          /\ c[1] \in E /\ c = Self(c[1]) /\ heap.scope[c] = T /\ heap.restore[c] # Null
          /\ k.data = heap'.data
          /\ Restores(m, heap', c[1])
      BY <2>1, <2>2, RestoreNextGood
    <2> QED  BY <2>3 DEF T, k, E
  <1>4. Existing' = Existing  BY <1>1 DEF Existing
  <1>5. HeapOK'  BY <1>1, <1>3, <1>4, HeapNext
  <1>6. /\ m.scope = heap.scope /\ m.restore = heap.restore /\ m.data = heap.data
        /\ m.region = heap.region
    BY <1>2 DEF Heap
  <1>7. /\ r \in Addr /\ r[1] = o /\ r[2] \in Level /\ heap.scope[r] = r[2]
        /\ heap.region[r] # None /\ r # c /\ FromCopy(heap, Existing, o)
    <2>1. heap.restore[Self(o)] # Null /\ o \in Existing  BY <1>3
    <2>2. /\ heap.restore[Self(o)] \in Addr /\ heap.restore[Self(o)][1] = o
          /\ heap.restore[Self(o)][2] \in Level
          /\ heap.scope[heap.restore[Self(o)]] = heap.restore[Self(o)][2]
          /\ heap.region[heap.restore[Self(o)]] # None /\ heap.restore[Self(o)] # Self(o)
          /\ FromCopy(heap, Existing, o)
      <3> DEFINE T == level + 1
                 E == Existing
                 X == {}
      <3>1. /\ T \in Level /\ Good(heap, E, T, level, X) /\ E \subseteq Obj /\ level \in Nat
            /\ o \in E /\ heap.restore[Self(o)] # Null
        BY <2>1, <1>2
      <3> HIDE DEF o, T, E, X
      <3>2. FromCopy(heap, E, o)  BY <3>1, RestoredCopy
      <3> QED  BY <3>2 DEF FromCopy, E
    <2> QED  BY <2>2, <1>3
  <1>8. r = Copy(o, r[2])  BY <1>7, Names
  <1>9. /\ heap'.scope[c] = heap.scope[r] /\ heap'.data[c] = heap.data[r]
        /\ \A a \in Addr : a # c /\ a # r => heap'.scope[a] = heap.scope[a] /\ heap'.data[a] = heap.data[a]
        /\ heap'.region[r] = None
        /\ \A a \in Addr : a # r => heap'.region[a] = heap.region[a]
    <2>1. Self(o) = c /\ m.restore[Self(o)] = r  BY <1>3, <1>6
    <2> HIDE DEF m, c, r, o
    <2> QED  BY <2>1, <1>3, <1>6 DEF Restores
  <1> HIDE DEF m, r
  <1>10. o \in live /\ o \in Obj /\ c \in Addr  BY <1>2, <1>3
  <1>11. Leaving  BY DEF ContextInv
  <1>12. \A p \in Obj : p # o => Self(p) \in Addr /\ Self(p) # c /\ Self(p) # r
    BY <1>2, <1>3, <1>7, <1>8, <1>10
  <1>13. \A i \in DOMAIN garbage : garbage[i] # o
    <2>1. level + 1 # 0  BY <1>2
    <2>2. heap.scope[Self(o)] # 0  BY <2>1, <1>3
    <2> HIDE DEF o
    <2> QED  BY <2>2, <1>11 DEF Leaving
  <1>14. \A i \in DOMAIN garbage : /\ garbage[i] \in live \cap Elem /\ garbage[i] \in Obj
                                   /\ heap'.scope[Self(garbage[i])] = 0
                                   /\ heap'.data[Self(garbage[i])] = Absent
    BY <1>2, <1>9, <1>11, <1>12, <1>13 DEF Leaving
  <1>15. \A p \in live \cap Elem : p # o /\ heap'.data[Self(p)] = Absent => \E i \in DOMAIN garbage : garbage[i] = p
    BY <1>2, <1>9, <1>11, <1>12 DEF Leaving
  <1>16. \A p \in Elem, l \in Level :
            heap'.region[Copy(p, l)] # None /\ heap'.data[Copy(p, l)] = Absent => l = 0
    <2> SUFFICES ASSUME NEW p \in Elem, NEW l \in Level, heap'.region[Copy(p, l)] # None,
                        heap'.data[Copy(p, l)] = Absent
                 PROVE  l = 0
      OBVIOUS
    <2>1. p \in Obj  BY ConstantsAssumption
    <2>2. Copy(p, l) \in Addr /\ Copy(p, l) # c  BY <2>1, <1>2, <1>3, <1>10
    <2>3. Copy(p, l) # r  BY <1>9
    <2> QED  BY <2>2, <2>3, <1>9, <1>11 DEF Leaving
  <1>17. \A p \in live, l \in 0 .. level : VersionAt(heap', p, l) = VersionAt(heap, p, l)
    <2>1. BackTo(heap, o, c, r, heap')  BY <1>3, <1>9 DEF BackTo, r
    <2> DEFINE T == level + 1
               X == {}
    <2>2. Good(heap, live, T, level, X) /\ T \in Level /\ FromCopy(heap, live, o)  BY <1>2, <1>7
    <2>3. \A l \in 0 .. level : l \in Level /\ l < T  BY <1>2, ConstantsAssumption DEF Level
    <2>4. heap.scope[c] = T  BY <1>3
    <2> HIDE DEF o, c, T, X
    <2>5. /\ \A p \in live, l \in Level : p # o => VersionAt(heap', p, l) = VersionAt(heap, p, l)
          /\ \A l \in Level : l < heap.scope[c] => VersionAt(heap', o, l) = VersionAt(heap, o, l)
      BY <2>1, <2>2, <1>2, <1>10, RestoreKeeps
    <2> QED  BY <2>3, <2>4, <2>5
  <1>18. CASE ~(o \in Elem /\ heap'.data[c] = Absent)
    <2>1. garbage' = garbage  BY <1>1, <1>3, <1>18
    <2>2. \A p \in live \cap Elem : heap'.data[Self(p)] = Absent => \E i \in DOMAIN garbage : garbage[i] = p
      BY <1>3, <1>15, <1>18
    <2> HIDE DEF o, c
    <2>3. Leaving'  BY <2>1, <2>2, <1>1, <1>11, <1>14, <1>16 DEF Leaving
    <2> QED  BY <2>3, <1>5, <1>17
  <1>19. CASE o \in Elem /\ heap'.data[c] = Absent
    <2>1. garbage' = Append(garbage, o)  BY <1>1, <1>3, <1>19
    <2>2. heap'.scope[Self(o)] = 0
      <3>1. heap.data[Copy(o, r[2])] = Absent /\ heap.region[Copy(o, r[2])] # None
        BY <1>7, <1>8, <1>9, <1>19
      <3>2. r[2] = 0  BY <3>1, <1>7, <1>11, <1>19 DEF Leaving
      <3> QED  BY <3>2, <1>3, <1>7, <1>9
    <2> HIDE DEF o, c
    <2>3. /\ DOMAIN garbage' = DOMAIN garbage \cup {Len(garbage) + 1}
          /\ garbage'[Len(garbage) + 1] = o
          /\ \A i \in DOMAIN garbage : garbage'[i] = garbage[i]
      BY <2>1, <1>2, <1>10
    <2>4. \A p \in live \cap Elem : heap'.data[Self(p)] = Absent => \E i \in DOMAIN garbage' : garbage'[i] = p
      <3> SUFFICES ASSUME NEW p \in live \cap Elem, heap'.data[Self(p)] = Absent
                   PROVE  \E i \in DOMAIN garbage' : garbage'[i] = p
        OBVIOUS
      <3>1. CASE p = o  BY <3>1, <2>3
      <3>2. CASE p # o  BY <3>2, <2>3, <1>15
      <3> QED  BY <3>1, <3>2
    <2>5. \A i \in DOMAIN garbage' :
             /\ garbage'[i] \in live \cap Elem
             /\ heap'.scope[Self(garbage'[i])] = 0 /\ heap'.data[Self(garbage'[i])] = Absent
      BY <2>2, <2>3, <1>3, <1>10, <1>14, <1>19
    <2>6. \A i, j \in DOMAIN garbage' : garbage'[i] = garbage'[j] => i = j
      BY <2>3, <1>11, <1>13 DEF Leaving
    <2>7. Leaving'  BY <2>4, <2>5, <2>6, <1>1, <1>11, <1>16 DEF Leaving
    <2> QED  BY <2>7, <1>5, <1>17
  <1> QED  BY <1>18, <1>19

(* The end of ~Scope and ContextMemoryManager::pop. *)
LEMMA PopRegionInv == ContextInv /\ IInv' /\ PopRegion => ContextInv'
  <1> SUFFICES ASSUME ContextInv, IInv', PopRegion  PROVE HeapOK' /\ Leaving'  BY DEF ContextInv
  <1>1. /\ stage = "restore" /\ stage' = "post" /\ dying = NoObj /\ heap.next[Scope(level + 1)] = Null
        /\ garbage = <<>>
        /\ heap' = [heap EXCEPT !.region =
                       [a \in Addr |-> IF heap.region[a] = level + 1 THEN None ELSE heap.region[a]]]
        /\ level' = level /\ live' = live /\ dying' = dying /\ garbage' = garbage
    BY DEF PopRegion
  <1>2. /\ level \in Level /\ level + 1 \in Level /\ Existing \subseteq Obj
        /\ Good(heap, Existing, level + 1, level, {})
    BY <1>1, ContextFacts
  <1>3. heap' = heap /\ Good(heap', Existing, level, level, {})  BY <1>1, <1>2, PopRegionGood
  <1>4. Existing' = Existing  BY <1>1 DEF Existing
  <1>5. HeapOK'  BY <1>1, <1>3, <1>4, HeapNext
  <1>6. Leaving'
    <2>1. /\ stage' = "post" /\ dying' = dying /\ garbage' = garbage /\ garbage = <<>> /\ live' = live
          /\ heap' = heap
      BY <1>1, <1>3
    <2>2. Leaving  BY DEF ContextInv
    <2> QED  BY <2>1, <2>2 DEF Leaving
  <1> QED  BY <1>5, <1>6

(* What the end of a version of object d does to the others.               *)
LEMMA OthersLeave ==
    ASSUME ContextInv, NEW d \in Obj, d \notin live, NEW h,
           \A p \in Obj : p # d => /\ h.data[Self(p)] = heap.data[Self(p)]
                                   /\ h.scope[Self(p)] = heap.scope[Self(p)],
           \A p \in Obj, l \in Level : h.region[Copy(p, l)] # None =>
              /\ heap.region[Copy(p, l)] # None
              /\ h.data[Copy(p, l)] = heap.data[Copy(p, l)],
           live' = live, garbage' = garbage, stage' = stage, heap' = h,
           dying' \notin live, stage = "restore" => dying' = NoObj
    PROVE  Leaving'
  <1>1. Leaving /\ live \subseteq Obj /\ Elem \subseteq Obj
    BY ContextFacts, ConstantsAssumption DEF ContextInv
  <1>2. \A p \in live : p \in Obj /\ p # d  BY <1>1
  <1>3. \A p \in live \cap Elem : h.data[Self(p)] = Absent => \E i \in DOMAIN garbage : garbage[i] = p
    BY <1>1, <1>2 DEF Leaving
  <1>4. \A p \in Elem, l \in Level : h.region[Copy(p, l)] # None /\ h.data[Copy(p, l)] = Absent => l = 0
    <2> SUFFICES ASSUME NEW p \in Elem, NEW l \in Level, h.region[Copy(p, l)] # None,
                        h.data[Copy(p, l)] = Absent
                 PROVE  l = 0
      OBVIOUS
    <2>1. heap.region[Copy(p, l)] # None /\ heap.data[Copy(p, l)] = Absent  BY <1>1
    <2> QED  BY <2>1, <1>1 DEF Leaving
  <1>5. \A i \in DOMAIN garbage :
           /\ garbage[i] \in live \cap Elem
           /\ h.scope[Self(garbage[i])] = 0 /\ h.data[Self(garbage[i])] = Absent
    BY <1>1, <1>2 DEF Leaving
  <1>6. /\ \A i, j \in DOMAIN garbage : garbage[i] = garbage[j] => i = j
        /\ garbage # <<>> => stage = "restore"
    BY <1>1 DEF Leaving
  <1> QED  BY <1>3, <1>4, <1>5, <1>6 DEF Leaving

(* A turn of the loop of ContextObj::destroy. *)
LEMMA DestroyStepInv ==
    ContextInv /\ IInv' /\ DestroyStep
       => ContextInv' /\ \A p \in live, l \in Level : VersionAt(heap', p, l) = VersionAt(heap, p, l)
  <1> SUFFICES ASSUME ContextInv, IInv', DestroyStep
               PROVE  /\ HeapOK' /\ Leaving'
                      /\ \A p \in live, l \in Level : VersionAt(heap', p, l) = VersionAt(heap, p, l)
    BY DEF ContextInv
  <1> DEFINE o == dying
             c == Self(o)
             h == Unlink(heap, c)
             E == Existing
             T == Top
  <1>1. /\ dying # NoObj /\ level' = level /\ live' = live /\ garbage' = garbage /\ stage' = stage
        /\ h.restore[c] = Null => heap' = Release(h, c) /\ dying' = NoObj
        /\ h.restore[c] # Null => heap' = restoreAndContinue(h, o) /\ dying' = dying
    BY DEF DestroyStep
  <1>2. /\ heap \in Heap /\ level \in Level /\ level \in Nat /\ live \subseteq Obj
        /\ E \subseteq Obj /\ o \in Obj /\ E = live \cup {o}
        /\ stage = "restore" => level + 1 \in Level
        /\ \A p, q \in Obj : p # q => Self(p) # Self(q)
        /\ \A p, q \in Obj, l \in Level : Self(p) # Copy(q, l)
        /\ \A p \in Obj : Self(p) \in Addr
        /\ \A p \in Obj, l \in Level : Copy(p, l) \in Addr
    BY <1>1, ContextFacts
  <1>3. o \notin live /\ T \in Level /\ Good(heap, E, T, level, {})
    <2>1. T \in Level  BY <1>2 DEF Top
    <2> QED  BY <2>1 DEF ContextInv, HeapOK, Leaving
  <1>4. heap.scope[c] <= level
    <2>1. CASE stage = "restore"
      <3>1. heap.scope[c] = 0  BY <2>1, <1>1 DEF ContextInv, Leaving
      <3> QED  BY <3>1, <1>2
    <2>2. CASE stage # "restore"
      <3>1. T = level  BY <2>2 DEF Top
      <3>2. heap.scope[c] \in 0 .. level  BY <3>1, <1>2, <1>3 DEF Good
      <3> QED  BY <3>2, <1>2
    <2> QED  BY <2>1, <2>2
  <1>5. /\ Good(h, E, T, level, {c})
        /\ h.scope = heap.scope /\ h.restore = heap.restore
        /\ h.data = heap.data /\ h.region = heap.region
    <2>1. o \in E  BY <1>2
    <2> HIDE DEF o, E, T
    <2> QED  BY <2>1, <1>2, <1>3, <1>4, UnlinkGood
  <1>6. T' = T  BY <1>1 DEF Top
  <1>7. c \in Addr /\ o \in E  BY <1>2
  <1>8. ASSUME NEW g, g = heap',
                \A a \in Addr : a[1] # o => /\ g.scope[a] = heap.scope[a] /\ g.data[a] = heap.data[a]
                                           /\ g.region[a] = heap.region[a]
         PROVE  \A p \in live, l \in Level : VersionAt(heap', p, l) = VersionAt(heap, p, l)
    <2> SUFFICES ASSUME NEW p \in live, NEW l \in Level
                 PROVE  VersionAt(g, p, l) = VersionAt(heap, p, l)
      BY <1>8
    <2>1. p \in E /\ p # o /\ p \in Obj  BY <1>2, <1>3
    <2>2. Self(p) \in Addr /\ Self(p)[1] = p  BY <2>1, Names
    <2>3. \A k \in Level : Copy(p, k) \in Addr /\ Copy(p, k)[1] = p  BY <2>1, Names
    <2>4. g.scope[Self(p)] = heap.scope[Self(p)] /\ g.data[Self(p)] = heap.data[Self(p)]
      BY <2>1, <2>2, <1>8
    <2>5. \A k \in Level : /\ g.region[Copy(p, k)] = heap.region[Copy(p, k)]
                           /\ g.data[Copy(p, k)] = heap.data[Copy(p, k)]
      BY <2>1, <2>3, <1>8
    <2> HIDE DEF E, T, o
    <2> QED  BY <2>1, <2>4, <2>5, <1>2, <1>3, SameVersion
  <1> HIDE DEF h
  <1>9. CASE h.restore[c] = Null
    <2> DEFINE g == Release(h, c)
    <2>1. heap' = g /\ dying' = NoObj  BY <1>1, <1>9
    <2>2. /\ Good(g, E \ {o}, T, level, {})
          /\ \A a \in Addr : a # c => g.scope[a] = h.scope[a] /\ g.data[a] = h.data[a]
          /\ g.region = h.region
      <3> DEFINE F == E \ {o}
      <3>1. Ends(h, E, T, level, o, g, F)  BY <1>2, <1>5, <1>7, <1>9 DEF Ends
      <3> HIDE DEF o, E, T, g, F
      <3>2. /\ Good(g, F, T, level, {})
            /\ \A a \in Addr : a # Self(o) => g.scope[a] = h.scope[a] /\ g.data[a] = h.data[a]
            /\ g.region = h.region
        BY <3>1, <1>3, ReleaseGood
      <3> QED  BY <3>2 DEF F
    <2> HIDE DEF g
    <2>3. Existing' = E \ {o}
      <3>1. Existing' = live  BY <2>1, <1>1 DEF Existing
      <3> QED  BY <3>1, <1>2, <1>3
    <2>4. HeapOK'
      <3>1. Good(heap', Existing', Top', level', {})  BY <2>1, <2>2, <2>3, <1>1, <1>6
      <3> QED  BY <3>1 DEF HeapOK
    <2>5. \A p \in Obj : p # o => g.data[Self(p)] = heap.data[Self(p)] /\ g.scope[Self(p)] = heap.scope[Self(p)]
      BY <2>2, <1>2, <1>5
    <2>6. \A p \in Obj, l \in Level : g.region[Copy(p, l)] # None =>
             heap.region[Copy(p, l)] # None /\ g.data[Copy(p, l)] = heap.data[Copy(p, l)]
      <3> SUFFICES ASSUME NEW p \in Obj, NEW l \in Level
                   PROVE  /\ g.region[Copy(p, l)] = heap.region[Copy(p, l)]
                          /\ g.data[Copy(p, l)] = heap.data[Copy(p, l)]
        OBVIOUS
      <3>1. Copy(p, l) \in Addr /\ Copy(p, l) # c  BY <1>2
      <3> QED  BY <3>1, <2>2, <1>5
    <2>7. NoObj \notin live  BY <1>2, Names
    <2>8. Leaving'  BY <2>1, <2>5, <2>6, <2>7, <1>1, <1>2, <1>3, OthersLeave
    <2>9. \A a \in Addr : a[1] # o => /\ g.scope[a] = heap.scope[a] /\ g.data[a] = heap.data[a]
                                      /\ g.region[a] = heap.region[a]
      <3>1. c[1] = o  BY <1>2, Names
      <3> QED  BY <3>1, <2>2, <1>5
    <2>10. \A p \in live, l \in Level : VersionAt(heap', p, l) = VersionAt(heap, p, l)
      BY <2>1, <2>9, <1>8
    <2> QED  BY <2>4, <2>8, <2>10
  <1>10. CASE h.restore[c] # Null
    <2> DEFINE g == restoreAndContinue(h, o)
               r == h.restore[c]
    <2>1. heap' = g /\ dying' = dying  BY <1>1, <1>10
    <2>2. h.scope[c] <= level  BY <1>4, <1>5
    <2>3. Good(g, E, T, level, {}) /\ Restores(h, g, o) /\ FromCopy(h, E, o)
      <3> DEFINE X == {c}
      <3>1. Good(h, E, T, level, {Self(o)}) /\ h.restore[Self(o)] # Null /\ h.scope[Self(o)] <= level
            /\ Good(h, E, T, level, X)
        BY <2>2, <1>5, <1>10
      <3> HIDE DEF o, E, T, X
      <3>2. FromCopy(h, E, o)  BY <3>1, <1>2, <1>3, <1>7, RestoredCopy
      <3> QED  BY <3>1, <3>2, <1>2, <1>3, <1>7, DestroyBackGood
    <2> HIDE DEF g
    <2>4. Existing' = E  BY <2>1, <1>1 DEF Existing
    <2>5. HeapOK'
      <3>1. Good(heap', Existing', Top', level', {})  BY <2>1, <2>3, <2>4, <1>1, <1>6
      <3> QED  BY <3>1 DEF HeapOK
    <2>6. r \in Addr /\ r[1] = o /\ r[2] \in Level /\ h.scope[c] # 0  BY <2>3 DEF FromCopy
    <2>7. r = Copy(o, r[2])  BY <2>6, Names
    <2>8. /\ \A a \in Addr : a # c /\ a # r => g.scope[a] = h.scope[a] /\ g.data[a] = h.data[a]
          /\ g.region[r] = None
          /\ \A a \in Addr : a # r => g.region[a] = h.region[a]
      BY <2>3 DEF Restores
    <2> HIDE DEF r
    <2>9. \A p \in Obj : p # o => g.data[Self(p)] = heap.data[Self(p)] /\ g.scope[Self(p)] = heap.scope[Self(p)]
      <3> SUFFICES ASSUME NEW p \in Obj, p # o
                   PROVE  g.data[Self(p)] = heap.data[Self(p)] /\ g.scope[Self(p)] = heap.scope[Self(p)]
        OBVIOUS
      <3>1. Self(p) \in Addr /\ Self(p) # c /\ Self(p) # r  BY <2>6, <2>7, <1>2
      <3> QED  BY <3>1, <2>8, <1>5
    <2>10. \A p \in Obj, l \in Level : g.region[Copy(p, l)] # None =>
              heap.region[Copy(p, l)] # None /\ g.data[Copy(p, l)] = heap.data[Copy(p, l)]
      <3> SUFFICES ASSUME NEW p \in Obj, NEW l \in Level, g.region[Copy(p, l)] # None
                   PROVE  heap.region[Copy(p, l)] # None /\ g.data[Copy(p, l)] = heap.data[Copy(p, l)]
        OBVIOUS
      <3>1. Copy(p, l) \in Addr /\ Copy(p, l) # c /\ Copy(p, l) # r  BY <2>8, <1>2
      <3> QED  BY <3>1, <2>8, <1>5
    <2>11. stage # "restore"
      <3> SUFFICES ASSUME stage = "restore"  PROVE FALSE  OBVIOUS
      <3>1. heap.scope[c] = 0  BY <1>1 DEF ContextInv, Leaving
      <3> QED  BY <3>1, <2>6, <1>5
    <2>12. Leaving'  BY <2>1, <2>9, <2>10, <2>11, <1>1, <1>2, <1>3, OthersLeave
    <2>13. \A a \in Addr : a[1] # o => /\ g.scope[a] = heap.scope[a] /\ g.data[a] = heap.data[a]
                                       /\ g.region[a] = heap.region[a]
      <3>1. c[1] = o  BY <1>2, Names
      <3> QED  BY <3>1, <2>6, <2>8, <1>5
    <2>14. \A p \in live, l \in Level : VersionAt(heap', p, l) = VersionAt(heap, p, l)
      BY <2>1, <2>13, <1>8
    <2> QED  BY <2>5, <2>12, <2>14
  <1> QED  BY <1>9, <1>10

(* The objects E are in their maps, and only the bottom scope has versions *)
(* that are not.                                                           *)
InMaps(h, E) ==
    /\ \A p \in E \cap Elem : h.data[Self(p)] # Absent
    /\ \A p \in Elem, l \in Level :
          h.region[Copy(p, l)] # None /\ h.data[Copy(p, l)] = Absent => l = 0

(* The client writes v to object o: the heap h is in order for E, and g is *)
(* h with o current and v in it.                                           *)
Writes(h, E, top, o, v, g) ==
    /\ E \subseteq Obj /\ Good(h, E, top, top, {}) /\ InMaps(h, E \ {o})
    /\ o \in E /\ (h.data[Self(o)] = Absent => h.scope[Self(o)] = 0 \/ o \notin Elem)
    /\ v \in Val /\ g = SetData(makeCurrent(h, o, top), o, v)

(* Writing an object keeps the shape of the heap.                          *)
LEMMA WriteGood ==
    ASSUME NEW h, NEW E, NEW top \in Level, NEW o, NEW v, NEW g, Writes(h, E, top, o, v, g)
    PROVE  Good(g, E, top, top, {}) /\ InMaps(g, E)
  <1> DEFINE c == Self(o)
             s == Copy(o, h.scope[c])
             m == makeCurrent(h, o, top)
  <1>a. /\ E \subseteq Obj /\ Good(h, E, top, top, {}) /\ InMaps(h, E \ {o})
        /\ o \in E /\ (h.data[c] = Absent => h.scope[c] = 0 \/ o \notin Elem)
        /\ v \in Val /\ g = SetData(m, o, v)
    BY DEF Writes
  <1>1. /\ Good(m, E, top, top, {})
        /\ \A a \in Addr : a # s => m.data[a] = h.data[a] /\ m.region[a] = h.region[a]
        /\ \/ m.data[s] = h.data[s] /\ m.region[s] = h.region[s]
           \/ m.data[s] = h.data[c]
        /\ h.scope[c] \in Level
    BY <1>a, MakeCurrentGood
  <1> HIDE DEF m
  <1>2. g = SetData(m, o, v) /\ o \in Obj /\ v \in Val  BY <1>a
  <1>3. /\ Good(g, E, top, top, {})
        /\ g.data = [m.data EXCEPT ![c] = v] /\ g.region = m.region
    <2> DEFINE k == SetData(m, o, v)
    <2>1. /\ Good(k, E, top, top, {})
          /\ k.data = [m.data EXCEPT ![c] = v] /\ k.region = m.region
      BY <1>a, <1>1, <1>2, SetDataGood
    <2> HIDE DEF k
    <2>2. g = k  BY <1>2 DEF k
    <2> QED  BY <2>1, <2>2
  <1>4. m.data \in [Addr -> Val \cup {Absent}]  BY <1>1, HeapFields DEF Good
  <1>5. c \in Addr /\ s \in Addr /\ s # c /\ s[1] = o /\ s[2] = h.scope[c]
    BY <1>1, <1>2, Names
  <1> HIDE DEF s
  <1>6. g.data[c] = v /\ \A a \in Addr : a # c => g.data[a] = m.data[a]  BY <1>3, <1>4, <1>5
  <1>7. v # Absent  BY <1>2, ConstantsAssumption
  <1>8. ASSUME NEW p \in E \cap Elem  PROVE g.data[Self(p)] # Absent
    <2>1. CASE p = o  BY <2>1, <1>6, <1>7
    <2>2. CASE p # o
      <3>1. Self(p) \in Addr /\ Self(p) # c /\ Self(p)[1] = p  BY <2>2, <1>a, Names
      <3>2. h.data[Self(p)] # Absent  BY <2>2, <1>a DEF InMaps
      <3> QED  BY <3>1, <3>2, <2>2, <1>1, <1>5, <1>6
    <2> QED  BY <2>1, <2>2
  <1>9. ASSUME NEW p \in Elem, NEW l \in Level, g.region[Copy(p, l)] # None, g.data[Copy(p, l)] = Absent
        PROVE  l = 0
    <2> DEFINE a == Copy(p, l)
    <2>1. a \in Addr /\ a[1] = p /\ a[2] = l /\ a # c  BY <1>2, Names, ConstantsAssumption
    <2>2. m.region[a] # None /\ m.data[a] = Absent  BY <2>1, <1>3, <1>6, <1>9
    <2> HIDE DEF a
    <2>3. CASE a # s \/ (m.data[s] = h.data[s] /\ m.region[s] = h.region[s])
      <3>1. h.region[a] # None /\ h.data[a] = Absent  BY <2>1, <2>2, <2>3, <1>1
      <3> QED  BY <3>1, <1>a DEF a, InMaps
    <2>4. CASE a = s /\ m.data[s] = h.data[c]
      <3>1. p = o /\ h.data[c] = Absent /\ l = h.scope[c]  BY <2>1, <2>2, <2>4, <1>5
      <3> QED  BY <3>1, <1>a, <1>9
    <2> QED  BY <2>3, <2>4, <1>1
  <1> QED  BY <1>3, <1>8, <1>9 DEF InMaps

(* The client constructs an object, or writes one. *)
LEMMA ClientInv ==
    ASSUME ContextInv, IInv', NEW o \in Obj,
           \/ Construct(o)
           \/ \E v \in DataOf[o] : ConstructWith(o, v) \/ set(o, v)
    PROVE  ContextInv'
  <1>1. /\ stage # "restore" /\ stage' = stage /\ dying = NoObj /\ dying' = dying
        /\ level' = level /\ garbage' = garbage
    BY DEF Construct, ConstructWith, set, ClientRuns
  <1>2. /\ heap \in Heap /\ level \in Level /\ level \in Nat /\ live \subseteq Obj
        /\ Existing = live /\ garbage = <<>> /\ Good(heap, live, level, level, {})
    BY <1>1, ContextFacts
  <1>3. live' \subseteq Obj /\ NoObj \notin live' /\ Existing' = live'
    <2>1. live' \subseteq Obj  BY DEF IInv, TypeOK
    <2> QED  BY <2>1, <1>1, Names DEF Existing
  <1>4. InMaps(heap, live)
    <2>1. Leaving  BY DEF ContextInv
    <2> QED  BY <2>1, <1>2 DEF Leaving, InMaps
  <1>5. ASSUME Good(heap', live', level, level, {}), InMaps(heap', live')  PROVE ContextInv'
    <2>1. HeapOK'  BY <1>1, <1>3, <1>5, HeapNext
    <2>2. Leaving'  BY <1>1, <1>2, <1>3, <1>5 DEF Leaving, InMaps
    <2> QED  BY <2>1, <2>2 DEF ContextInv
  <1> DEFINE n == NewContextObj(heap, o)
             F == live \cup {o}
  <1>6. ASSUME o \notin live
        PROVE  /\ Good(n, F, level, level, {})
               /\ InMaps(n, live) /\ n.scope[Self(o)] = 0
    <2>1. /\ Good(n, F, level, level, {})
          /\ n.scope = [heap.scope EXCEPT ![Self(o)] = 0]
          /\ n.data = [heap.data EXCEPT ![Self(o)] = Blank[o]]
          /\ n.region = heap.region
      BY <1>2, <1>6, NewContextObjGood
    <2> HIDE DEF n
    <2>2. heap.data \in [Addr -> Val \cup {Absent}] /\ heap.scope \in [Addr -> Level \cup {None}]
      BY <1>2, HeapFields
    <2>3. Self(o) \in Addr /\ \A p \in Obj : Self(p) \in Addr /\ (p # o => Self(p) # Self(o))
      BY Names
    <2>4. \A p \in Elem, l \in Level : Copy(p, l) \in Addr /\ Copy(p, l) # Self(o)
      BY Names, ConstantsAssumption
    <2>5. \A p \in Elem, l \in Level : n.data[Copy(p, l)] = heap.data[Copy(p, l)]
      BY <2>1, <2>2, <2>4
    <2>6. \A p \in live \cap Elem : n.data[Self(p)] # Absent
      BY <2>1, <2>2, <2>3, <1>2, <1>4, <1>6 DEF InMaps
    <2>7. \A p \in Elem, l \in Level :
             n.region[Copy(p, l)] # None /\ n.data[Copy(p, l)] = Absent => l = 0
      BY <2>1, <2>5, <1>4 DEF InMaps
    <2> QED  BY <2>1, <2>2, <2>3, <2>6, <2>7 DEF InMaps
  <1> HIDE DEF n
  <1>7. CASE Construct(o)
    <2>1. o \notin live /\ o \notin Elem /\ live' = F /\ heap' = n  BY <1>7 DEF Construct, n
    <2>2. InMaps(n, F)  BY <2>1, <1>6 DEF InMaps
    <2> QED  BY <2>1, <2>2, <1>5, <1>6
  <1>8. ASSUME NEW v \in DataOf[o], ConstructWith(o, v)  PROVE ContextInv'
    <2>1. o \notin live /\ live' = F /\ heap' = SetData(makeCurrent(n, o, level), o, v)
      BY <1>8 DEF ConstructWith, n
    <2>2. v \in Val /\ F \subseteq Obj /\ o \in F /\ F \ {o} = live  BY <2>1, <1>2 DEF Val
    <2> HIDE DEF F
    <2>3. Writes(n, F, level, o, v, heap')  BY <2>1, <2>2, <1>6 DEF Writes
    <2> QED  BY <2>1, <2>3, <1>2, <1>5, WriteGood
  <1>9. ASSUME NEW v \in DataOf[o], set(o, v)  PROVE ContextInv'
    <2>1. o \in live /\ live' = live /\ heap' = SetData(makeCurrent(heap, o, level), o, v)
      BY <1>9 DEF set
    <2>2. v \in Val  BY DEF Val
    <2>3. InMaps(heap, live \ {o}) /\ (o \in Elem => heap.data[Self(o)] # Absent)
      BY <2>1, <1>4 DEF InMaps
    <2>4. Writes(heap, live, level, o, v, heap')  BY <2>1, <2>2, <2>3, <1>2 DEF Writes
    <2> QED  BY <2>1, <2>4, <1>2, <1>5, WriteGood
  <1> QED  BY <1>7, <1>8, <1>9

(* Every operation keeps the invariant. *)
LEMMA NextContextInv == ContextInv /\ [Next]_vars => ContextInv'
  <1> SUFFICES ASSUME ContextInv, [Next]_vars  PROVE ContextInv'  OBVIOUS
  <1>1. IInv /\ IInv'  BY NextIInv DEF ContextInv
  <1>2. CASE push  BY <1>1, <1>2, PushInv
  <1>3. CASE pop \/ PopScope \/ PopEnd \/ DeleteGarbage \/ \E o \in Obj : Destroy(o)
    BY <1>1, <1>3, QuietInv
  <1>4. CASE RestoreNext  BY <1>1, <1>4, RestoreNextInv
  <1>5. CASE PopRegion  BY <1>1, <1>5, PopRegionInv
  <1>6. CASE DestroyStep  BY <1>1, <1>6, DestroyStepInv
  <1>7. ASSUME NEW o \in Obj,
               Construct(o) \/ \E v \in DataOf[o] : ConstructWith(o, v) \/ set(o, v)
        PROVE  ContextInv'
    BY <1>1, <1>7, ClientInv
  <1>8. CASE UNCHANGED vars
    BY <1>1, <1>8 DEF vars, ContextInv, HeapOK, Leaving, Existing, Top
  <1> QED  BY <1>2, <1>3, <1>4, <1>5, <1>6, <1>7, <1>8 DEF Next

-----------------------------------------------------------------------------
(* In every reachable state a version is restored from an older version of *)
(* the same object, in memory that goes with the scope that restores it    *)
(* (update and restoreAndContinue in context.cpp), however objects are     *)
(* written, scopes popped and objects destroyed, and for any depth.        *)
THEOREM RestoreChainsHold == Spec => []RestoreChains
  <1>1. ASSUME ContextInv  PROVE RestoreChains
    <2>1. \A c \in InUse : RestoreOK(heap, c)
      <3>1. InUse = Used(heap, Existing)  BY DEF InUse, Used
      <3> QED  BY <3>1, <1>1 DEF ContextInv, HeapOK, Good
    <2> QED  BY <2>1 DEF RestoreOK, RestoreChains
  <1> QED  BY <1>1, InitContextInv, NextContextInv, PTL DEF Spec

(* In every reachable state in which the client runs, callbacks included,  *)
(* no object has a version in a scope that is gone, and every saved copy   *)
(* has the version that will be restored from it (Scope::~Scope).          *)
THEOREM NothingIsLeftBehind == Spec => []NothingLeftBehind
  <1>1. ASSUME ContextInv  PROVE NothingLeftBehind
    <2> SUFFICES ASSUME ClientRuns
                 PROVE  /\ \A o \in live : heap.scope[Self(o)] \in 0 .. level
                        /\ \A a \in InUse : heap.region[a] # None => \E c \in InUse : heap.restore[c] = a
      BY DEF NothingLeftBehind
    <2>1. Good(heap, live, level, level, {}) /\ Existing = live /\ live \subseteq Obj
          /\ level \in Level
      BY <1>1, ContextFacts DEF ClientRuns
    <2>2. InUse = Used(heap, live)  BY <2>1 DEF InUse, Used
    <2>3. heap \in Heap /\ \A a \in Addr : heap.region[a] # None => CopyOK(heap, live, a)
      BY <2>1 DEF Good
    <2>4. ASSUME NEW a \in InUse, heap.region[a] # None  PROVE \E c \in InUse : heap.restore[c] = a
      <3>1. a \in Addr  BY <2>1, <2>2, <2>3, UsedCells
      <3> QED  BY <3>1, <2>2, <2>3, <2>4 DEF CopyOK
    <2> QED  BY <2>1, <2>4 DEF Good
  <1> QED  BY <1>1, InitContextInv, NextContextInv, PTL DEF Spec

(* In every reachable state the elements on d_garbage are there once, are  *)
(* alive and back in the bottom scope with nothing to restore, and no map  *)
(* shows the client an element that has left it (CDOhash_map::restore in   *)
(* cdhashmap.h, the second loop of ~Scope).                                *)
THEOREM GarbageRestored == Spec => []GarbageIsRestored
  <1>1. ASSUME ContextInv  PROVE GarbageIsRestored
    <2>1. Leaving /\ live \subseteq Existing /\ \A c \in Used(heap, Existing) : RestoreOK(heap, c)
      BY <1>1 DEF ContextInv, HeapOK, Good, Existing
    <2>2. ASSUME NEW i \in DOMAIN garbage
          PROVE  LET c == Self(garbage[i]) IN
                 garbage[i] \in live /\ heap.scope[c] = 0 /\ heap.restore[c] = Null
      <3>1. garbage[i] \in live /\ heap.scope[Self(garbage[i])] = 0  BY <2>1 DEF Leaving
      <3>2. Self(garbage[i]) \in Used(heap, Existing)  BY <3>1, <2>1 DEF Used
      <3> QED  BY <3>1, <3>2, <2>1 DEF RestoreOK
    <2>3. ClientRuns => \A o \in live \cap Elem : heap.data[Self(o)] # Absent
      <3> SUFFICES ASSUME ClientRuns  PROVE \A o \in live \cap Elem : heap.data[Self(o)] # Absent  OBVIOUS
      <3>1. garbage = <<>>  BY <1>1, ContextFacts DEF ClientRuns
      <3> QED  BY <3>1, <2>1 DEF Leaving
    <2>4. \A i, j \in DOMAIN garbage : garbage[i] = garbage[j] => i = j  BY <2>1 DEF Leaving
    <2> QED  BY <2>2, <2>3, <2>4 DEF GarbageIsRestored
  <1> QED  BY <1>1, InitContextInv, NextContextInv, PTL DEF Spec

-----------------------------------------------------------------------------
(* Following a list.  f[n] is what can be reached from s in n steps of N.  *)
Reach(f, N, s, n) ==
    /\ f[0] = {s}
    /\ \A i \in 1 .. n : f[i] = f[i - 1] \cup {N[a] : a \in f[i - 1] \ {Null}}

(* Induction along 0 .. n, in the form the provers can instantiate.        *)
LEMMA ContextUpTo ==
    ASSUME NEW n \in Nat, NEW S, 0 \in S,
           \A i \in 1 .. n : i - 1 \in S => i \in S
    PROVE  0 .. n \subseteq S
  <1> DEFINE B == {i \in 0 .. n : i \notin S}
  <1> SUFFICES ASSUME B # {}  PROVE FALSE  OBVIOUS
  <1>1. B \subseteq Nat  OBVIOUS
  <1> HIDE DEF B
  <1>2. PICK m \in B : \A k \in B : m <= k  BY <1>1, ContextLeastElement
  <1>3. m \in 0 .. n /\ m \notin S /\ m # 0  BY DEF B
  <1>4. m \in 1 .. n /\ m - 1 \in 0 .. n /\ ~(m <= m - 1)  BY <1>3
  <1>5. m - 1 \in S  BY <1>2, <1>4 DEF B
  <1> QED  BY <1>3, <1>4, <1>5

(* Following the links for n steps defines a function.                     *)
LEMMA ReachExists ==
    ASSUME NEW N \in [Addr -> Addr], NEW s \in Addr, NEW n \in Nat
    PROVE  \E f \in [0 .. n -> SUBSET Addr] : Reach(f, N, s, n)
  <1> DEFINE P == {j \in Nat : \E f \in [0 .. j -> SUBSET Addr] : Reach(f, N, s, j)}
  <1>1. 0 \in P
    <2> DEFINE f == [i \in 0 .. 0 |-> {s}]
    <2>1. f \in [0 .. 0 -> SUBSET Addr] /\ Reach(f, N, s, 0)  BY DEF Reach
    <2> QED  BY <2>1
  <1>2. ASSUME NEW i \in 1 .. n, i - 1 \in P  PROVE i \in P
    <2>1. i \in Nat /\ i - 1 \in Nat  OBVIOUS
    <2>2. PICK f \in [0 .. i - 1 -> SUBSET Addr] : Reach(f, N, s, i - 1)  BY <1>2
    <2> DEFINE last == f[i - 1] \cup {N[a] : a \in f[i - 1] \ {Null}}
               g == [j \in 0 .. i |-> IF j = i THEN last ELSE f[j]]
    <2>3. last \in SUBSET Addr
      <3>1. f[i - 1] \in SUBSET Addr  BY <2>1
      <3> QED  BY <3>1
    <2> HIDE DEF last
    <2>4. g \in [0 .. i -> SUBSET Addr]
      <3> SUFFICES ASSUME NEW j \in 0 .. i  PROVE g[j] \in SUBSET Addr  OBVIOUS
      <3>1. j = i \/ j \in 0 .. i - 1  BY <2>1
      <3> QED  BY <3>1, <2>3
    <2>5. g[0] = {s}  BY <2>1, <2>2 DEF Reach
    <2>6. ASSUME NEW j \in 1 .. i  PROVE g[j] = g[j - 1] \cup {N[a] : a \in g[j - 1] \ {Null}}
      <3>1. g[j - 1] = f[j - 1]  BY <2>1
      <3>2. CASE j = i
        <4>1. g[i] = last  BY <2>1
        <4> QED  BY <4>1, <3>1, <3>2 DEF last
      <3>3. CASE j # i
        <4>1. j \in 1 .. i - 1 /\ g[j] = f[j]  BY <3>3, <2>1
        <4> QED  BY <4>1, <3>1, <2>2 DEF Reach
      <3> QED  BY <3>2, <3>3
    <2> HIDE DEF g
    <2>7. Reach(g, N, s, i)  BY <2>5, <2>6 DEF Reach
    <2> QED  BY <2>1, <2>4, <2>7
  <1> HIDE DEF P
  <1>3. n \in Nat /\ n \in 0 .. n  OBVIOUS
  <1>4. n \in P  BY <1>1, <1>2, <1>3, ContextUpTo
  <1> QED  BY <1>4 DEF P

(* There are finitely many addresses.                                      *)
LEMMA AddrFinite == IsFiniteSet(Addr) /\ Cardinality(Addr) \in Nat
  <1>1. IsFiniteSet(Obj \cup {NoObj})  BY FiniteObjects, FS_AddElement
  <1>2. IsFiniteSet(Level \cup {Live})
    <2>1. IsFiniteSet(Level)  BY ConstantsAssumption, FS_Interval DEF Level
    <2> QED  BY <2>1, FS_AddElement
  <1>3. IsFiniteSet(Addr)  BY <1>1, <1>2, FS_Product DEF Addr
  <1> QED  BY <1>3, FS_CardinalityType

(* CellsOf follows the list of the scope.                                  *)
LEMMA CellsOfReach ==
    ASSUME heap \in Heap, NEW l \in Level
    PROVE  LET n == Cardinality(Addr) IN
           \E f \in [0 .. n -> SUBSET Addr] :
              Reach(f, heap.next, heap.next[Scope(l)], n) /\ CellsOf(l) = f[n] \ {Null}
  <1> DEFINE n == Cardinality(Addr)
             N == heap.next
             s == heap.next[Scope(l)]
             F(g) == [i \in 0 .. n |-> IF i = 0 THEN {s}
                                       ELSE g[i - 1] \cup {N[a] : a \in g[i - 1] \ {Null}}]
             h == CHOOSE g : g = F(g)
  <1>1. n \in Nat /\ N \in [Addr -> Addr] /\ s \in Addr  BY AddrFinite, HeapFields, Names
  <1>2. PICK f \in [0 .. n -> SUBSET Addr] : Reach(f, N, s, n)
    <2> HIDE DEF n, N, s
    <2> QED  BY <1>1, ReachExists
  <1>3. f = F(f)
    <2>1. \A i \in 0 .. n : f[i] = F(f)[i]
      <3> TAKE i \in 0 .. n
      <3>1. CASE i = 0  BY <3>1, <1>2 DEF Reach
      <3>2. CASE i # 0
        <4>1. i \in 1 .. n  BY <3>2
        <4> QED  BY <4>1, <3>2, <1>2 DEF Reach
      <3> QED  BY <3>1, <3>2
    <2> QED  BY <2>1
  <1>4. h = F(h)  BY <1>3
  <1>5. CellsOf(l) = h[n] \ {Null}  BY DEF CellsOf
  <1> HIDE DEF h
  <1>6. h[0] = {s}  BY <1>1, <1>4
  <1>7. \A i \in 1 .. n : h[i] = h[i - 1] \cup {N[a] : a \in h[i - 1] \ {Null}}
    <2> TAKE i \in 1 .. n
    <2>1. i \in 0 .. n /\ i # 0  OBVIOUS
    <2> QED  BY <2>1, <1>4
  <1>8. 0 .. n \subseteq {i \in 0 .. n : h[i] = f[i]}
    <2> DEFINE E == {i \in 0 .. n : h[i] = f[i]}
    <2> HIDE DEF n, N, s
    <2>1. 0 \in E
      <3>1. 0 \in 0 .. n /\ h[0] = f[0]  BY <1>1, <1>2, <1>6 DEF Reach
      <3> QED  BY <3>1
    <2>2. ASSUME NEW i \in 1 .. n, i - 1 \in E  PROVE i \in E
      <3>1. h[i - 1] = f[i - 1] /\ i \in 0 .. n  BY <2>2, <1>1
      <3>2. f[i] = f[i - 1] \cup {N[a] : a \in f[i - 1] \ {Null}}  BY <1>2 DEF Reach
      <3>3. h[i] = f[i]  BY <3>1, <3>2, <1>7
      <3> QED  BY <3>1, <3>3
    <2> HIDE DEF E
    <2>3. 0 .. n \subseteq E  BY <2>1, <2>2, <1>1, ContextUpTo
    <2> QED  BY <2>3 DEF E
  <1>9. h[n] = f[n]  BY <1>1, <1>8
  <1> QED  BY <1>2, <1>5, <1>9

(* After as many steps as there are addresses nothing new is reached.      *)
LEMMA ReachClosed ==
    ASSUME NEW N \in [Addr -> Addr], NEW s \in Addr, NEW n, n = Cardinality(Addr),
           NEW f \in [0 .. n -> SUBSET Addr], Reach(f, N, s, n)
    PROVE  s \in f[n] /\ \A a \in f[n] : a # Null => N[a] \in f[n]
  <1> DEFINE Closed(S) == \A a \in S : a # Null => N[a] \in S
             G == {i \in 0 .. n : /\ s \in f[i]
                                  /\ Closed(f[i]) \/ i + 1 <= Cardinality(f[i])}
  <1>1. n \in Nat /\ IsFiniteSet(Addr)  BY AddrFinite
  <1>2. \A i \in 0 .. n : IsFiniteSet(f[i]) /\ Cardinality(f[i]) <= n /\ Cardinality(f[i]) \in Nat
    BY <1>1, FS_Subset, FS_CardinalityType
  <1>3. 0 \in G
    <2>1. f[0] = {s} /\ Cardinality({s}) = 1  BY FS_Singleton DEF Reach
    <2>2. 0 \in 0 .. n /\ s \in f[0] /\ Cardinality(f[0]) = 1  BY <2>1, <1>1
    <2>3. 0 + 1 <= Cardinality(f[0])  BY <2>2
    <2> HIDE DEF Closed
    <2> QED  BY <2>2, <2>3
  <1>4. ASSUME NEW i \in 1 .. n, i - 1 \in G  PROVE i \in G
    <2> DEFINE A == f[i - 1]
    <2>1. f[i] = A \cup {N[a] : a \in A \ {Null}}  BY DEF Reach
    <2>2. i - 1 \in 0 .. n /\ i \in 0 .. n /\ s \in A /\ i \in Nat  BY <1>1, <1>4
    <2>3. IsFiniteSet(A) /\ Cardinality(A) \in Nat /\ IsFiniteSet(f[i]) /\ Cardinality(f[i]) \in Nat
      BY <2>2, <1>2
    <2>4. CASE Closed(A)
      <3>1. f[i] = A  BY <2>1, <2>4
      <3> QED  BY <3>1, <2>2, <2>4
    <2>5. CASE ~Closed(A)
      <3>1. i <= Cardinality(A)  BY <2>2, <2>5, <1>4
      <3>2. PICK a \in A : a # Null /\ N[a] \notin A  BY <2>5
      <3> DEFINE B == A \cup {N[a]}
      <3>3. B \subseteq f[i]  BY <2>1, <3>2
      <3> HIDE DEF A
      <3>4. Cardinality(B) = Cardinality(A) + 1
        <4> DEFINE x == N[a]
        <4>1. x \notin A  BY <3>2
        <4> HIDE DEF x
        <4>2. Cardinality(A \cup {x}) = Cardinality(A) + 1  BY <4>1, <2>3, FS_AddElement
        <4> QED  BY <4>2 DEF x
      <3> HIDE DEF B
      <3>5. Cardinality(B) <= Cardinality(f[i])  BY <2>3, <3>3, FS_Subset
      <3>6. i + 1 <= Cardinality(f[i])  BY <3>1, <3>4, <3>5, <2>2, <2>3
      <3>7. s \in f[i]  BY <2>1, <2>2
      <3> QED  BY <3>6, <3>7, <2>2
    <2> QED  BY <2>4, <2>5
  <1>5. 0 .. n \subseteq G
    <2> HIDE DEF G
    <2> QED  BY <1>1, <1>3, <1>4, ContextUpTo
  <1>6. n \in G /\ n \in 0 .. n  BY <1>1, <1>5
  <1>7. ~(n + 1 <= Cardinality(f[n]))  BY <1>1, <1>2, <1>6
  <1> QED  BY <1>6, <1>7

(* f follows the list of the head g for as many steps as there are         *)
(* addresses.                                                              *)
Follows(f, n, N, P, at, C, H, top, g) ==
    /\ N \in [Addr -> Addr]
    /\ Apart(C, H) /\ Lists(N, P, at, C, H, top)
    /\ g \in H /\ \A d \in H : at[d] = at[g] => d = g
    /\ n = Cardinality(Addr)
    /\ f \in [0 .. n -> SUBSET Addr] /\ Reach(f, N, N[g], n)

(* What f has reached is the cells at the level of g.                      *)
ReachesLevel(f, n, at, C, g) == f[n] \ {Null} = {c \in C : at[c] = at[g]}

(* The list of a scope is exactly the cells at its level.                  *)
LEMMA ListIsLevel ==
    ASSUME NEW N, NEW P, NEW at, NEW C, NEW H, NEW top, NEW g, NEW n, NEW f,
           Follows(f, n, N, P, at, C, H, top, g)
    PROVE  ReachesLevel(f, n, at, C, g)
  <1>0. /\ N \in [Addr -> Addr] /\ Apart(C, H) /\ Lists(N, P, at, C, H, top)
        /\ g \in H /\ \A d \in H : at[d] = at[g] => d = g
        /\ n = Cardinality(Addr)
        /\ f \in [0 .. n -> SUBSET Addr] /\ Reach(f, N, N[g], n)
    BY DEF Follows
  <1> USE <1>0
  <1>1. LinkedLists(N, P, at, C, H, top)  BY DEF Lists
  <1>2. PICK rank \in [Addr -> Nat] : Forward(rank, N, C, H)  BY DEF Lists
  <1>3. n \in Nat /\ g \in Addr /\ N[g] \in Addr  BY AddrFinite DEF Apart
  <1>4. N[g] \in f[n] /\ \A a \in f[n] : a # Null => N[a] \in f[n]  BY <1>3, ReachClosed
  <1> DEFINE L == {c \in C : at[c] = at[g]}
             G == {i \in 0 .. n : f[i] \subseteq L \cup {Null}}
  <1>5. \A d \in L \cup {g} : N[d] \in L \cup {Null}  BY <1>1 DEF LinkedLists
  <1>6. 0 \in G  BY <1>3, <1>5 DEF Reach
  <1>7. ASSUME NEW i \in 1 .. n, i - 1 \in G  PROVE i \in G
    <2>1. f[i] = f[i - 1] \cup {N[a] : a \in f[i - 1] \ {Null}}  BY DEF Reach
    <2>2. f[i - 1] \subseteq L \cup {Null} /\ i \in 0 .. n  BY <1>3, <1>7
    <2> QED  BY <2>1, <2>2, <1>5
  <1>8. f[n] \subseteq L \cup {Null}
    <2>1. 0 .. n \subseteq G
      <3> HIDE DEF G
      <3> QED  BY <1>3, <1>6, <1>7, ContextUpTo
    <2>2. n \in G  BY <2>1, <1>3
    <2> QED  BY <2>2
  <1>9. L \subseteq f[n]
    <2> DEFINE B == L \ f[n]
               R == {rank[c] : c \in B}
    <2> SUFFICES ASSUME B # {}  PROVE FALSE  OBVIOUS
    <2>1. R \subseteq Nat /\ R # {}  BY <1>2 DEF Apart
    <2>2. PICK m \in R : \A k \in R : m <= k
      <3> HIDE DEF R
      <3> QED  BY <2>1, ContextLeastElement
    <2>3. PICK c \in B : rank[c] = m  BY <2>2
    <2>4. c \in C /\ at[c] = at[g] /\ c # Null /\ c \notin f[n]  BY <2>3 DEF Apart
    <2>5. PICK d \in C \cup H : N[d] = c  BY <1>1, <2>4 DEF LinkedLists
    <2>6. at[d] = at[g] /\ rank[d] < rank[c] /\ d \in Addr /\ d # Null
      BY <1>1, <1>2, <2>4, <2>5 DEF LinkedLists, Forward, Apart
    <2>7. d # g  BY <1>4, <2>4, <2>5
    <2>8. d \in L  BY <2>5, <2>6, <2>7
    <2>9. d \notin f[n]  BY <1>4, <2>4, <2>5, <2>6
    <2>10. rank[d] \in R  BY <2>8, <2>9
    <2>11. rank[d] \in Nat /\ rank[c] \in Nat /\ rank[c] <= rank[d]
      BY <2>2, <2>3, <2>4, <2>6, <2>10 DEF Apart
    <2> QED  BY <2>6, <2>11
  <1>10. Null \notin L  BY DEF Apart
  <1> QED  BY <1>8, <1>9, <1>10 DEF ReachesLevel

(* In every reachable state the list of a scope links exactly the versions *)
(* of that scope, and is doubly linked up to the top scope, so that a cell *)
(* can be replaced or removed in place (addToChain, update,                *)
(* restoreAndContinue and destroy in context.cpp), for any number of       *)
(* objects and any depth.                                                  *)
THEOREM ScopeListsHold == Spec => []ScopeLists
  <1>1. ASSUME ContextInv  PROVE ScopeLists
    <2> DEFINE E == Existing
               U == Used(heap, E)
               H == Heads(Top)
               N == heap.next
               P == heap.prev
    <2>1. /\ heap \in Heap /\ level \in Level /\ level \in Nat /\ E \subseteq Obj
          /\ (stage = "restore" => level + 1 \in Level)
      BY <1>1, ContextFacts
    <2>2. Top \in Level /\ Good(heap, E, Top, level, {})  BY <2>1, <1>1 DEF Top, ContextInv, HeapOK
    <2>3. Scopes = 0 .. Top /\ InUse = U  BY DEF Scopes, Top, InUse, Used
    <2>4. \A a \in Addr : heap.region[a] # None => CopyOK(heap, E, a)  BY <2>2 DEF Good
    <2>5. /\ \A c \in U : At(heap)[c] = heap.scope[c]
          /\ \A l \in Level : At(heap)[Scope(l)] = l
          /\ \A l \in 0 .. Top : l \in Level
      BY <2>1, <2>2, <2>4, UsedCells
    <2>6. Apart(U, H) /\ Lists(N, P, At(heap), U, H, level)
      <3>1. U \ {} = U  OBVIOUS
      <3>2. Apart(U \ {}, H)  BY <2>1, <2>2, <2>4, UsedCells
      <3> QED  BY <3>1, <3>2, <2>2 DEF Good
    <2>7. N \in [Addr -> Addr]  BY <2>1, HeapFields
    <2>8. ASSUME NEW l \in Scopes
          PROVE  /\ CellsOf(l) = {c \in InUse : heap.scope[c] = l}
                 /\ l <= level =>
                       \A c \in CellsOf(l) :
                          /\ heap.next[heap.prev[c]] = c
                          /\ heap.next[c] # Null => heap.prev[heap.next[c]] = c
      <3> DEFINE g == Scope(l)
                 A == At(heap)
                 n == Cardinality(Addr)
      <3>1. l \in Level /\ l \in 0 .. Top  BY <2>3, <2>5
      <3>2. g \in H /\ A[g] = l /\ \A d \in H : A[d] = A[g] => d = g
        BY <3>1, <2>5 DEF Heads
      <3>3. PICK f \in [0 .. n -> SUBSET Addr] : Reach(f, N, N[g], n) /\ CellsOf(l) = f[n] \ {Null}
        BY <3>1, <2>1, CellsOfReach
      <3>4. f[n] \ {Null} = {c \in U : A[c] = A[g]}
        <4>1. n = Cardinality(Addr) /\ Lists(N, P, A, U, H, level)  BY <2>6
        <4>2. f \in [0 .. n -> SUBSET Addr] /\ Reach(f, N, N[g], n)  BY <3>3
        <4> HIDE DEF A, U, H, N, P, g
        <4>3. Follows(f, n, N, P, A, U, H, level, g)
          BY <4>1, <4>2, <3>2, <2>6, <2>7 DEF Follows
        <4> HIDE DEF n
        <4>4. ReachesLevel(f, n, A, U, g)  BY <4>3, ListIsLevel
        <4> QED  BY <4>4 DEF ReachesLevel
      <3>5. CellsOf(l) = {c \in U : heap.scope[c] = l}  BY <3>2, <3>3, <3>4, <2>5
      <3>6. ASSUME l <= level, NEW c \in CellsOf(l)
            PROVE  N[P[c]] = c /\ (N[c] # Null => P[N[c]] = c)
        <4>1. c \in U /\ A[c] <= level  BY <3>5, <3>6, <2>5
        <4> HIDE DEF A, U, H, N, P
        <4>2. N[P[c]] = c  BY <4>1, <2>6, Neighbours DEF A
        <4> QED  BY <4>1, <4>2, <2>6 DEF Lists, LinkedLists, A
      <3> QED  BY <3>5, <3>6, <2>3
    <2> QED  BY <2>8 DEF ScopeLists
  <1> QED  BY <1>1, InitContextInv, NextContextInv, PTL DEF Spec

-----------------------------------------------------------------------------
(* Context implements a stack of snapshots. *)

(* f is a function. *)
IsMap(f) == f = [x \in DOMAIN f |-> f[x]]

(* The stack of snapshots with one more.                                   *)
LEMMA OneMoreSnapshot ==
    ASSUME NEW n \in Nat, NEW s, NEW t, NEW e, IsMap(s), IsMap(t),
           DOMAIN s = 1 .. n, DOMAIN t = 1 .. n + 1,
           \A l \in 1 .. n : t[l] = s[l], t[n + 1] = e
    PROVE  t = Append(s, e)
  <1> DEFINE S == {s[l] : l \in 1 .. n} \cup {e}
  <1>1. s \in Seq(S) /\ Len(s) = n  BY DEF IsMap
  <1>2. t \in Seq(S) /\ Len(t) = n + 1  BY DEF IsMap
  <1> HIDE DEF S
  <1> QED  BY <1>1, <1>2

(* The stack of snapshots without its last one.                            *)
LEMMA OneSnapshotLess ==
    ASSUME NEW n \in Nat \ {0}, NEW s, NEW t, IsMap(s), IsMap(t),
           DOMAIN s = 1 .. n, DOMAIN t = 1 .. n - 1,
           \A l \in 1 .. n - 1 : t[l] = s[l]
    PROVE  s # <<>> /\ Len(s) = n /\ t = SubSeq(s, 1, n - 1)
  <1> DEFINE S == {s[l] : l \in 1 .. n}
  <1>1. s \in Seq(S) /\ Len(s) = n  BY DEF IsMap
  <1>2. t \in Seq(S) /\ Len(t) = n - 1  BY DEF IsMap
  <1> HIDE DEF S
  <1> QED  BY <1>1, <1>2

(* A new Context is an empty stack of snapshots.                           *)
LEMMA InitIsSnapshot == Init => Snapshots!Init
  <1> SUFFICES ASSUME Init  PROVE Snapshots!Init  OBVIOUS
  <1>1. live = {} /\ level = 0  BY DEF Init
  <1>2. \A o \in Obj : ValueAt(o, level) = Blank[o]  BY <1>1, ValueIsVersion
  <1>3. [o \in Obj |-> ValueAt(o, level)] = Blank  BY <1>2 DEF Blank
  <1>4. [l \in 1 .. level |-> [o \in Obj |-> ValueAt(o, l - 1)]] = <<>>  BY <1>1
  <1> QED  BY <1>3, <1>4 DEF Snapshots!Init

(* The steps that no enclosing scope can see.                              *)
LEMMA Stutters ==
    ASSUME level \in Nat, level' = level,
           \A p \in Obj, l \in 0 .. level : ValueAt(p, l)' = ValueAt(p, l)
    PROVE  UNCHANGED Snapshots!vars
  <1>1. [o \in Obj |-> ValueAt(o, level)]' = [o \in Obj |-> ValueAt(o, level)]
    <2>1. \A p \in Obj : ValueAt(p, level)' = ValueAt(p, level)
      <3> SUFFICES ASSUME NEW p \in Obj  PROVE ValueAt(p, level)' = ValueAt(p, level)  OBVIOUS
      <3>1. \A l : l = level => ValueAt(p, l)' = ValueAt(p, l)  OBVIOUS
      <3>2. PICK l : l = level  OBVIOUS
      <3>3. ValueAt(p, l)' = ValueAt(p, l)  BY <3>1, <3>2
      <3> QED  BY <3>2, <3>3, ValueIsVersion
    <2> QED  BY <2>1
  <1>2. ASSUME NEW l \in 1 .. level
        PROVE  [o \in Obj |-> ValueAt(o, l - 1)]' = [o \in Obj |-> ValueAt(o, l - 1)]
    <2>1. l - 1 \in 0 .. level  OBVIOUS
    <2>2. \A p \in Obj : ValueAt(p, l - 1)' = ValueAt(p, l - 1)  BY <2>1
    <2> QED  BY <2>2
  <1>3. [l \in 1 .. level |-> [o \in Obj |-> ValueAt(o, l - 1)]]'
          = [l \in 1 .. level |-> [o \in Obj |-> ValueAt(o, l - 1)]]
    BY <1>2
  <1> QED  BY <1>1, <1>3 DEF Snapshots!vars

(* A step that changes object o in the top scope, or nothing.              *)
LEMMA IsWrite ==
    ASSUME level \in Nat, level' = level, NEW o \in Obj,
           \A p \in Obj, l \in 0 .. level : p # o \/ l # level => ValueAt(p, l)' = ValueAt(p, l)
    PROVE  Snapshots!Next
  <1> DEFINE Cur == [p \in Obj |-> ValueAt(p, level)]
             Stk == [l \in 1 .. level |-> [p \in Obj |-> ValueAt(p, l - 1)]]
  <1>1. \A p \in Obj : p # o => ValueAt(p, level)' = ValueAt(p, level)
    <2> SUFFICES ASSUME NEW p \in Obj, p # o  PROVE ValueAt(p, level)' = ValueAt(p, level)  OBVIOUS
    <2>1. PICK l : l = level  OBVIOUS
    <2>2. ValueAt(p, l)' = ValueAt(p, l)  BY <2>1
    <2> QED  BY <2>1, <2>2, ValueIsVersion
  <1>2. Cur' = [Cur EXCEPT ![o] = Cur'[o]]  BY <1>1
  <1>3. ASSUME NEW l \in 1 .. level
        PROVE  [p \in Obj |-> ValueAt(p, l - 1)]' = [p \in Obj |-> ValueAt(p, l - 1)]
    <2>1. l - 1 \in 0 .. level /\ l - 1 # level  OBVIOUS
    <2>2. \A p \in Obj : ValueAt(p, l - 1)' = ValueAt(p, l - 1)  BY <2>1
    <2> QED  BY <2>2
  <1>4. Stk' = Stk  BY <1>3
  <1> QED  BY <1>2, <1>4 DEF Snapshots!Next, Snapshots!Write

(* The client's operations on an object are writes, or not visible.        *)
LEMMA ClientIsWrite ==
    ASSUME ContextInv, NEW o \in Obj,
           \/ Construct(o)
           \/ \E v \in DataOf[o] : ConstructWith(o, v) \/ set(o, v)
    PROVE  Snapshots!Next
  <1>1. /\ stage # "restore" /\ dying = NoObj /\ level' = level
    BY DEF Construct, ConstructWith, set, ClientRuns
  <1>2. /\ level \in Level /\ level \in Nat /\ live \subseteq Obj
        /\ Good(heap, live, level, level, {})
    BY <1>1, ContextFacts
  <1>3. \A l \in 0 .. level : l \in Level /\ (l # level => l \in 0 .. level - 1)
    BY <1>2, ConstantsAssumption DEF Level
  <1> DEFINE n == NewContextObj(heap, o)
             F == live \cup {o}
  <1>4. ASSUME o \notin live
        PROVE  /\ Good(n, F, level, level, {})
               /\ \A p \in live, l \in Level : VersionAt(n, p, l) = VersionAt(heap, p, l)
               /\ \A l \in Level : VersionAt(n, o, l) = Blank[o]
    <2>1. /\ Good(n, F, level, level, {})
          /\ n.scope = [heap.scope EXCEPT ![Self(o)] = 0]
          /\ n.data = [heap.data EXCEPT ![Self(o)] = Blank[o]]
          /\ n.region = heap.region
      BY <1>2, <1>4, NewContextObjGood
    <2>2. /\ \A p \in live, l \in Level : VersionAt(n, p, l) = VersionAt(heap, p, l)
          /\ \A l \in Level : VersionAt(n, o, l) = Blank[o]
      BY <1>2, <1>4, NewKeeps
    <2> QED  BY <2>1, <2>2
  <1> HIDE DEF n
  <1>5. CASE Construct(o)
    <2>1. o \notin live /\ live' = F /\ heap' = n  BY <1>5 DEF Construct, n
    <2>2. \A p \in Obj, l \in 0 .. level : ValueAt(p, l)' = ValueAt(p, l)
      <3> SUFFICES ASSUME NEW p \in Obj, NEW l \in 0 .. level  PROVE ValueAt(p, l)' = ValueAt(p, l)
        OBVIOUS
      <3>1. CASE p = o  BY <3>1, <2>1, <1>3, <1>4, ValueIsVersion
      <3>2. CASE p # o  BY <3>2, <2>1, <1>3, <1>4, ValueIsVersion
      <3> QED  BY <3>1, <3>2
    <2> QED  BY <2>2, <1>1, <1>2, IsWrite
  <1>6. ASSUME NEW v \in DataOf[o], ConstructWith(o, v)  PROVE Snapshots!Next
    <2>1. o \notin live /\ live' = F /\ heap' = SetData(makeCurrent(n, o, level), o, v)
      BY <1>6 DEF ConstructWith, n
    <2>2. v \in Val /\ F \subseteq Obj /\ o \in F /\ \A p \in Obj : p # o => (p \in F <=> p \in live)
      BY <1>2 DEF Val
    <2>3. Puts(n, F, level, o, v, heap')  BY <2>1, <2>2, <1>4 DEF Puts
    <2> HIDE DEF F
    <2>4. /\ \A p \in F, l \in Level : p # o => VersionAt(heap', p, l) = VersionAt(n, p, l)
          /\ \A l \in 0 .. level - 1 : VersionAt(heap', o, l) = VersionAt(n, o, l)
      BY <2>3, <1>2, WriteKeeps
    <2>5. \A p \in Obj, l \in 0 .. level : p # o \/ l # level => ValueAt(p, l)' = ValueAt(p, l)
      <3> SUFFICES ASSUME NEW p \in Obj, NEW l \in 0 .. level, p # o \/ l # level
                   PROVE  ValueAt(p, l)' = ValueAt(p, l)
        OBVIOUS
      <3>1. CASE p = o  BY <3>1, <2>1, <2>2, <2>4, <1>3, <1>4, ValueIsVersion
      <3>2. CASE p # o  BY <3>2, <2>1, <2>2, <2>4, <1>3, <1>4, ValueIsVersion
      <3> QED  BY <3>1, <3>2
    <2> QED  BY <2>5, <1>1, <1>2, IsWrite
  <1>7. ASSUME NEW v \in DataOf[o], set(o, v)  PROVE Snapshots!Next
    <2>1. o \in live /\ live' = live /\ heap' = SetData(makeCurrent(heap, o, level), o, v)
      BY <1>7 DEF set
    <2>2. v \in Val  BY DEF Val
    <2>3. Puts(heap, live, level, o, v, heap')  BY <2>1, <2>2, <1>2 DEF Puts
    <2>4. /\ \A p \in live, l \in Level : p # o => VersionAt(heap', p, l) = VersionAt(heap, p, l)
          /\ \A l \in 0 .. level - 1 : VersionAt(heap', o, l) = VersionAt(heap, o, l)
      BY <2>3, <1>2, WriteKeeps
    <2>5. \A p \in Obj, l \in 0 .. level : p # o \/ l # level => ValueAt(p, l)' = ValueAt(p, l)
      <3> SUFFICES ASSUME NEW p \in Obj, NEW l \in 0 .. level, p # o \/ l # level
                   PROVE  ValueAt(p, l)' = ValueAt(p, l)
        OBVIOUS
      <3>1. CASE p = o  BY <3>1, <2>1, <2>4, <1>3, ValueIsVersion
      <3>2. CASE p # o  BY <3>2, <2>1, <2>4, <1>3, ValueIsVersion
      <3> QED  BY <3>1, <3>2
    <2> QED  BY <2>5, <1>1, <1>2, IsWrite
  <1> QED  BY <1>5, <1>6, <1>7

(* Context::push takes a snapshot. *)
LEMMA PushIsPush ==
    ASSUME ContextInv, push  PROVE Snapshots!Next
  <1> DEFINE Cur == [p \in Obj |-> ValueAt(p, level)]
             Stk == [l \in 1 .. level |-> [p \in Obj |-> ValueAt(p, l - 1)]]
  <1>1. /\ stage = "idle" /\ dying = NoObj /\ level' = level + 1 /\ live' = live
        /\ heap' = [heap EXCEPT !.next = [@ EXCEPT ![Scope(level + 1)] = Null]]
    BY DEF push
  <1>2. heap \in Heap /\ level \in Nat /\ Good(heap, live, level, level, {})  BY <1>1, ContextFacts
  <1>3. heap'.data = heap.data /\ heap'.region = heap.region /\ heap'.scope = heap.scope
    BY <1>1, <1>2 DEF Heap
  <1>a. \A p, l : VersionAt(heap', p, l) = VersionAt(heap, p, l)
    <2>1. PICK g : g = heap'  OBVIOUS
    <2>2. g.data = heap.data /\ g.region = heap.region /\ g.scope = heap.scope  BY <2>1, <1>3
    <2>3. \A p, l : VersionAt(g, p, l) = VersionAt(heap, p, l)  BY <2>2 DEF VersionAt, SavedTo
    <2> QED  BY <2>1, <2>3
  <1>4. \A p, l : ValueAt(p, l)' = ValueAt(p, l)  BY <1>1, <1>a, ValueIsVersion
  <1>5. \A p \in Obj : \A l : l = level + 1 => ValueAt(p, l)' = ValueAt(p, level)
    <2> SUFFICES ASSUME NEW p \in Obj, NEW l, l = level + 1  PROVE ValueAt(p, l)' = ValueAt(p, level)
      OBVIOUS
    <2>1. CASE p \notin live  BY <2>1, <1>1, ValueIsVersion
    <2>2. CASE p \in live
      <3>1. heap.scope[Self(p)] \in 0 .. level  BY <2>2, <1>2 DEF Good
      <3>2. heap.scope[Self(p)] <= level /\ heap'.scope[Self(p)] <= l  BY <3>1, <1>2, <1>3
      <3>3. VersionAt(heap, p, level) = heap.data[Self(p)] /\ VersionAt(heap', p, l) = heap'.data[Self(p)]
        BY <3>2 DEF VersionAt
      <3> QED  BY <3>3, <2>2, <1>1, <1>3, ValueIsVersion
    <2> QED  BY <2>1, <2>2
  <1>6. Cur' = Cur
    <2>1. \A p \in Obj : ValueAt(p, level)' = ValueAt(p, level)
      <3> SUFFICES ASSUME NEW p \in Obj  PROVE ValueAt(p, level)' = ValueAt(p, level)  OBVIOUS
      <3>1. PICK l : l = level + 1  OBVIOUS
      <3>2. ValueAt(p, l)' = ValueAt(p, level)  BY <3>1, <1>5
      <3>3. ValueAt(p, level)' = ValueAt(p, l)'  BY <3>1, <1>1, ValueIsVersion
      <3> QED  BY <3>2, <3>3
    <2> QED  BY <2>1
  <1>7. Stk' = Append(Stk, Cur)
    <2>1. \A l \in 1 .. level + 1 : Stk'[l] = [p \in Obj |-> ValueAt(p, l - 1)]
      <3> SUFFICES ASSUME NEW l \in 1 .. level + 1  PROVE Stk'[l] = [p \in Obj |-> ValueAt(p, l - 1)]
        OBVIOUS
      <3>1. \A p \in Obj : ValueAt(p, l - 1)' = ValueAt(p, l - 1)  BY <1>4
      <3>2. Stk'[l] = [p \in Obj |-> ValueAt(p, l - 1)']  BY <1>1
      <3> QED  BY <3>1, <3>2
    <2>2. \A l \in 1 .. level : Stk[l] = [p \in Obj |-> ValueAt(p, l - 1)]  OBVIOUS
    <2>3. Stk'[level + 1] = Cur
      <3>1. level + 1 \in 1 .. level + 1 /\ (level + 1) - 1 = level  BY <1>2
      <3> QED  BY <3>1, <2>1
    <2>4. DOMAIN Stk' = 1 .. level' /\ DOMAIN Stk = 1 .. level  BY Zenon
    <2>5. IsMap(Stk') /\ IsMap(Stk)  BY Zenon DEF IsMap
    <2> HIDE DEF Cur, Stk
    <2> QED  BY <2>1, <2>2, <2>3, <2>4, <2>5, <1>1, <1>2, OneMoreSnapshot
  <1> QED  BY <1>6, <1>7 DEF Snapshots!Next, Snapshots!Push

(* Once the scope is off the list, the top scope is the one below.         *)
LEMMA PopIsPop ==
    ASSUME ContextInv, PopScope  PROVE Snapshots!Next
  <1> DEFINE Cur == [p \in Obj |-> ValueAt(p, level)]
             Stk == [l \in 1 .. level |-> [p \in Obj |-> ValueAt(p, l - 1)]]
  <1>1. stage = "pre" /\ level' = level - 1 /\ live' = live /\ heap' = heap  BY DEF PopScope
  <1>2. level \in Nat \ {0}  BY <1>1, ContextFacts
  <1>3. \A p, l : ValueAt(p, l)' = ValueAt(p, l)  BY <1>1, ValueIsVersion
  <1>4. Cur' = Stk[level]
    <2>1. \A p \in Obj : ValueAt(p, level)' = ValueAt(p, level - 1)
      BY <1>1, ValueIsVersion
    <2>2. Stk[level] = [p \in Obj |-> ValueAt(p, level - 1)]  BY <1>2
    <2> QED  BY <2>1, <2>2
  <1>5. Stk # <<>> /\ Len(Stk) = level /\ Stk' = SubSeq(Stk, 1, level - 1)
    <2>1. \A l \in 1 .. level - 1 : Stk'[l] = Stk[l]
      <3> SUFFICES ASSUME NEW l \in 1 .. level - 1  PROVE Stk'[l] = Stk[l]  OBVIOUS
      <3>1. \A p \in Obj : ValueAt(p, l - 1)' = ValueAt(p, l - 1)  BY <1>3
      <3>2. Stk'[l] = [p \in Obj |-> ValueAt(p, l - 1)']  BY <1>1
      <3>3. Stk[l] = [p \in Obj |-> ValueAt(p, l - 1)]  BY <1>2
      <3> QED  BY <3>1, <3>2, <3>3
    <2>2. DOMAIN Stk' = 1 .. level' /\ DOMAIN Stk = 1 .. level  BY Zenon
    <2>3. IsMap(Stk') /\ IsMap(Stk)  BY Zenon DEF IsMap
    <2> HIDE DEF Cur, Stk
    <2> QED  BY <2>1, <2>2, <2>3, <1>1, <1>2, OneSnapshotLess
  <1> QED  BY <1>4, <1>5 DEF Snapshots!Next, Snapshots!Pop

(* An object that is destroyed is gone for every scope. *)
LEMMA DestroyForgets ==
    ASSUME ContextInv, NEW o \in Obj, Destroy(o)  PROVE Snapshots!Next
  <1> DEFINE Cur == [p \in Obj |-> ValueAt(p, level)]
             Stk == [l \in 1 .. level |-> [p \in Obj |-> ValueAt(p, l - 1)]]
  <1>1. live' = live \ {o} /\ level' = level /\ heap' = heap  BY DEF Destroy
  <1>2. level \in Nat  BY ContextFacts
  <1>3. \A p, l : ValueAt(p, l)' = IF p = o THEN Blank[o] ELSE ValueAt(p, l)
    BY <1>1, ValueIsVersion
  <1>4. Cur' = [Cur EXCEPT ![o] = Blank[o]]
    <2>1. \A p \in Obj : ValueAt(p, level)' = IF p = o THEN Blank[o] ELSE ValueAt(p, level)
      BY <1>1, ValueIsVersion
    <2> QED  BY <2>1
  <1>5. Stk' = [i \in 1 .. Len(Stk) |-> [Stk[i] EXCEPT ![o] = Blank[o]]]
    <2>1. Len(Stk) = level
      <3>1. DOMAIN Stk = 1 .. level  BY Zenon
      <3>2. IsMap(Stk)  BY Zenon DEF IsMap
      <3> DEFINE S == {Stk[l] : l \in 1 .. level}
      <3> HIDE DEF Stk
      <3>3. Stk \in Seq(S)  BY <3>1, <3>2, <1>2 DEF IsMap
      <3> HIDE DEF S
      <3> QED  BY <3>1, <3>3, <1>2
    <2>2. ASSUME NEW l \in 1 .. level  PROVE Stk'[l] = [Stk[l] EXCEPT ![o] = Blank[o]]
      <3>1. \A p \in Obj : ValueAt(p, l - 1)' = IF p = o THEN Blank[o] ELSE ValueAt(p, l - 1)
        BY <1>3
      <3>2. Stk'[l] = [p \in Obj |-> ValueAt(p, l - 1)']  BY <1>1
      <3>3. Stk[l] = [p \in Obj |-> ValueAt(p, l - 1)]  OBVIOUS
      <3> QED  BY <3>1, <3>2, <3>3
    <2>3. DOMAIN Stk' = 1 .. level' /\ IsMap(Stk')  BY Zenon DEF IsMap
    <2> HIDE DEF Stk, Cur
    <2> QED  BY <2>1, <2>2, <2>3, <1>1 DEF IsMap
  <1> QED  BY <1>4, <1>5 DEF Snapshots!Next, Snapshots!Forget

(* Every step is a step of the stack of snapshots, or is not visible.      *)
LEMMA StepIsSnapshot == ContextInv /\ [Next]_vars => [Snapshots!Next]_(Snapshots!vars)
  <1> SUFFICES ASSUME ContextInv, [Next]_vars  PROVE [Snapshots!Next]_(Snapshots!vars)  OBVIOUS
  <1>1. IInv'  BY NextIInv DEF ContextInv
  <1>2. level \in Level /\ level \in Nat /\ live \subseteq Obj  BY ContextFacts
  <1>3. \A l \in 0 .. level : l \in Level  BY <1>2, ConstantsAssumption DEF Level
  <1>4. ASSUME live' = live, level' = level,
               \A p \in live, l \in 0 .. level : VersionAt(heap', p, l) = VersionAt(heap, p, l)
        PROVE  UNCHANGED Snapshots!vars
    <2>1. \A p \in Obj, l \in 0 .. level : ValueAt(p, l)' = ValueAt(p, l)  BY <1>4, ValueIsVersion
    <2> QED  BY <2>1, <1>2, <1>4, Stutters
  <1>5. CASE RestoreNext
    <2>1. live' = live /\ level' = level  BY <1>5 DEF RestoreNext
    <2>2. \A p \in live, l \in 0 .. level : VersionAt(heap', p, l) = VersionAt(heap, p, l)
      BY <1>1, <1>5, RestoreNextInv
    <2> QED  BY <2>1, <2>2, <1>4
  <1>6. CASE DestroyStep
    <2>1. live' = live /\ level' = level  BY <1>6 DEF DestroyStep
    <2>2. \A p \in live, l \in 0 .. level : VersionAt(heap', p, l) = VersionAt(heap, p, l)
      BY <1>1, <1>3, <1>6, DestroyStepInv
    <2> QED  BY <2>1, <2>2, <1>4
  <1>7. CASE DeleteGarbage
    <2> DEFINE o == Head(garbage)
    <2>1. garbage # <<>> /\ live' = live \ {o} /\ level' = level /\ heap' = heap
      BY <1>7 DEF DeleteGarbage
    <2>2. o \in live /\ o \in Elem /\ heap.scope[Self(o)] = 0 /\ heap.data[Self(o)] = Absent
      <3>1. garbage \in Seq(Obj) /\ Leaving  BY ContextFacts DEF ContextInv
      <3>2. 1 \in DOMAIN garbage /\ o = garbage[1]  BY <3>1, <2>1
      <3> HIDE DEF o
      <3> QED  BY <3>1, <3>2 DEF Leaving
    <2>3. o \in Obj /\ Blank[o] = Absent  BY <2>2, <1>2 DEF Blank
    <2> HIDE DEF o
    <2>4. \A l \in 0 .. level : VersionAt(heap, o, l) = Absent
      <3>1. \A l \in 0 .. level : 0 <= l  BY <1>2
      <3> QED  BY <3>1, <2>2 DEF VersionAt
    <2>5. \A p \in Obj, l \in 0 .. level : ValueAt(p, l)' = ValueAt(p, l)
      <3> SUFFICES ASSUME NEW p \in Obj, NEW l \in 0 .. level  PROVE ValueAt(p, l)' = ValueAt(p, l)
        OBVIOUS
      <3>1. CASE p = o  BY <3>1, <2>1, <2>2, <2>3, <2>4, ValueIsVersion
      <3>2. CASE p # o  BY <3>2, <2>1, ValueIsVersion
      <3> QED  BY <3>1, <3>2
    <2> QED  BY <2>1, <2>5, <1>2, Stutters
  <1>8. CASE PopRegion
    <2>1. /\ stage = "restore" /\ dying = NoObj /\ heap.next[Scope(level + 1)] = Null
          /\ heap' = [heap EXCEPT !.region =
                         [a \in Addr |-> IF heap.region[a] = level + 1 THEN None ELSE heap.region[a]]]
          /\ level' = level /\ live' = live
      BY <1>8 DEF PopRegion
    <2>2. /\ level + 1 \in Level /\ Existing \subseteq Obj
          /\ Good(heap, Existing, level + 1, level, {})
      BY <2>1, ContextFacts
    <2>3. heap' = heap /\ Good(heap', Existing, level, level, {})  BY <2>1, <2>2, <1>2, PopRegionGood
    <2> QED  BY <2>1, <2>3, <1>4
  <1>9. CASE pop \/ PopEnd \/ UNCHANGED vars
    <2>1. live' = live /\ level' = level /\ heap' = heap  BY <1>9 DEF pop, PopEnd, vars
    <2> QED  BY <2>1, <1>4
  <1>10. CASE push  BY <1>10, PushIsPush
  <1>11. CASE PopScope  BY <1>11, PopIsPop
  <1>12. ASSUME NEW o \in Obj, Destroy(o)  PROVE Snapshots!Next  BY <1>12, DestroyForgets
  <1>13. ASSUME NEW o \in Obj,
                Construct(o) \/ \E v \in DataOf[o] : ConstructWith(o, v) \/ set(o, v)
         PROVE  Snapshots!Next
    BY <1>13, ClientIsWrite
  <1> QED  BY <1>5, <1>6, <1>7, <1>8, <1>9, <1>10, <1>11, <1>12, <1>13 DEF Next

(* The objects of a Context behave as a stack of snapshots, one for each   *)
(* push(), although nothing is copied on push() and pop() restores only    *)
(* what was written since: for any number of objects, any depth, writes    *)
(* and destructions in any order and from the callbacks of a pop, no       *)
(* enclosing scope ever sees a value other than the one it had when the    *)
(* next scope was pushed (ContextObj::update and restoreAndContinue, and   *)
(* Context::push and pop in context.cpp).                                  *)
THEOREM ContextRefinesSnapshots == Spec => BehavesAsSnapshots
  <1>1. Spec => []ContextInv  BY InitContextInv, NextContextInv, PTL DEF Spec
  <1> QED  BY <1>1, InitIsSnapshot, StepIsSnapshot, PTL DEF Spec, BehavesAsSnapshots, Snapshots!Spec

=============================================================================
