------------------------------ MODULE Context ------------------------------
(***************************************************************************)
(* The backtracking core of cvc5: class Context with its Scopes and the    *)
(* base class ContextObj (src/cvc5/src/context/context.{h,cpp}), with CDO  *)
(* (cdo.h) and the elements of a CDHashMap (cdhashmap.h) as the two kinds  *)
(* of object, and the memory regions of ContextMemoryManager.              *)
(*                                                                         *)
(* Nothing is copied on push.  An object is saved when it is first written *)
(* in a scope: a copy of it takes its place in the list of the scope it    *)
(* leaves, and the object moves to the list of the top scope.  A pop walks *)
(* the list of the dying scope and swaps every object back with its copy.  *)
(* The model keeps the pointers, because that is where the code can go     *)
(* wrong: the list is doubly linked through the ADDRESS OF THE FIELD that  *)
(* points to a cell, and cells of it are replaced in place.                *)
(*                                                                         *)
(* An address is a pair.  <<o, Live>> is the object o itself, <<o, l>> its *)
(* saved copy in the list of the scope at level l, <<NoObj, l>> the Scope  *)
(* at level l and <<NoObj, Live>> the null pointer.  The field             *)
(* d_pContextObjNext of a cell and the field d_pContextObjList of a scope  *)
(* are both in next, so the pointer-to-pointer d_ppContextObjPrev is just  *)
(* the address whose next field it is, and "*prev() = x" is                *)
(* next[prev[c]] := x.                                                     *)
(*                                                                         *)
(* A definition marked "Faulty" is the one after it with a mistake in it;  *)
(* the specification does not use it.  It serves to show that a property   *)
(* would notice the mistake.  The other modules have such variants too.    *)
(***************************************************************************)
EXTENDS Integers, Sequences, FiniteSets

CONSTANTS
    Obj,        (* identities of context-dependent objects                 *)
    NoObj,      (* in addresses that are not those of an object            *)
    Elem,       (* the objects that are elements of a CDHashMap            *)
    DataOf,     (* DataOf[o]: the data that object o may be given          *)
    Default,    (* T(), what the default constructor of the data gives     *)
    Absent,     (* stands for d_map = nullptr: the element is in no map    *)
    MaxLevel    (* bound: the deepest scope                                *)

(* The data an object can hold.                                            *)
Val == UNION {DataOf[o] : o \in Obj}

ASSUME ConstantsAssumption ==
    /\ NoObj \notin Obj
    /\ Elem \subseteq Obj
    /\ Default \in Val
    /\ Absent \notin Val
    /\ MaxLevel \in Nat

(* Objects are in memory: a list of cells can be followed to its end.      *)
ASSUME FiniteObjects == IsFiniteSet(Obj)

VARIABLES
    level,      (* d_scopeList.size() - 1                                  *)
    live,       (* the objects constructed and not yet destroyed           *)
    heap,       (* the fields of all cells, and the region of saved copies *)
    garbage,    (* d_garbage of the scope being destroyed                  *)
    stage,      (* how far the pop in progress is                          *)
    dying       (* the object in the loop of destroy(), or NoObj           *)

vars == <<level, live, heap, garbage, stage, dying>>

Live == -1
Level == 0 .. MaxLevel
Addr == (Obj \cup {NoObj}) \X (Level \cup {Live})
Null == <<NoObj, Live>>
Self(o) == <<o, Live>>
Copy(o, l) == <<o, l>>
Scope(l) == <<NoObj, l>>

(* No scope (d_pScope = nullptr), or no memory region.                     *)
None == -1

(* What an object holds before, and below, the scope that first wrote it.  *)
Blank == [o \in Obj |-> IF o \in Elem THEN Absent ELSE Default]

Heap == [next    : [Addr -> Addr],              \* d_pContextObjNext / List
         prev    : [Addr -> Addr],              \* d_ppContextObjPrev
         scope   : [Addr -> Level \cup {None}], \* d_pScope, as its level
         restore : [Addr -> Addr],              \* d_pContextObjRestore
         data    : [Addr -> Val \cup {Absent}], \* d_data; Absent: no d_map
         region  : [Addr -> Level \cup {None}]] \* region of a saved copy

-----------------------------------------------------------------------------
(* Operations on the cells, each a function from heap to heap.             *)

(* "if (next() != nullptr) next()->prev() = a": write through a pointer    *)
(* that may be null.                                                       *)
SetPrev(prev, c, a) == IF c = Null THEN prev ELSE [prev EXCEPT ![c] = a]

(* Faulty: the old first cell keeps its back link.                         *)
addToChainNoBackLink(h, l, c) ==
    [h EXCEPT !.prev = [@ EXCEPT ![c] = Scope(l)],
              !.next = [@ EXCEPT ![c] = h.next[Scope(l)], ![Scope(l)] = c]]

(* Scope::addToChain: c becomes the first cell of the list of scope l.     *)
addToChain(h, l, c) ==
    LET first == h.next[Scope(l)] IN
    [h EXCEPT !.prev = [SetPrev(@, first, c) EXCEPT ![c] = Scope(l)],
              !.next = [@ EXCEPT ![c] = first, ![Scope(l)] = c]]

(* save() of CDO and CDOhash_map: the copy constructor, which copies the   *)
(* base class too, into memory of the current region.                      *)
save(h, o, top) ==
    LET c == Self(o)  s == Copy(o, h.scope[c]) IN
    [next    |-> [h.next EXCEPT ![s] = h.next[c]],
     prev    |-> [h.prev EXCEPT ![s] = h.prev[c]],
     scope   |-> [h.scope EXCEPT ![s] = h.scope[c]],
     restore |-> [h.restore EXCEPT ![s] = h.restore[c]],
     data    |-> [h.data EXCEPT ![s] = h.data[c]],
     region  |-> [h.region EXCEPT ![s] = top]]

(* Faulty: the cell behind the object is not told of its new neighbour.    *)
updateNoBackLink(h, o, top) ==
    LET c == Self(o)
        s == Copy(o, h.scope[c])
        saved == save(h, o, top)
    IN addToChain([saved EXCEPT !.next = [@ EXCEPT ![saved.prev[c]] = s],
                                !.scope = [@ EXCEPT ![c] = top],
                                !.restore = [@ EXCEPT ![c] = s]], top, c)

(* ContextObj::update: the saved copy replaces the object in the scope it  *)
(* leaves, and the object joins the top scope.                             *)
update(h, o, top) ==
    LET c == Self(o)
        s == Copy(o, h.scope[c])
        saved == save(h, o, top)
        relinked ==
            [saved EXCEPT !.prev = SetPrev(@, saved.next[c], s),
                          !.next = [@ EXCEPT ![saved.prev[c]] = s],
                          !.scope = [@ EXCEPT ![c] = top],
                          !.restore = [@ EXCEPT ![c] = s]]
    IN addToChain(relinked, top, c)

(* Faulty: no test whether the object is current.                          *)
makeCurrentAlways(h, o, top) == update(h, o, top)

(* ContextObj::makeCurrent: save only on the first write in a scope.       *)
makeCurrent(h, o, top) ==
    IF h.scope[Self(o)] = top THEN h ELSE update(h, o, top)

(* The memory of cell c no longer holds an object.                         *)
Release(h, c) ==
    [next    |-> [h.next EXCEPT ![c] = Null],
     prev    |-> [h.prev EXCEPT ![c] = Null],
     scope   |-> [h.scope EXCEPT ![c] = None],
     restore |-> [h.restore EXCEPT ![c] = Null],
     data    |-> [h.data EXCEPT ![c] = Default],
     region  |-> [h.region EXCEPT ![c] = None]]

(* Faulty: d_pContextObjRestore of the copy is not taken over.             *)
restoreKeepsRestore(h, o) ==
    LET c == Self(o)
        r == h.restore[c]
        base == [h EXCEPT !.data = [@ EXCEPT ![c] = h.data[r]],
                          !.scope = [@ EXCEPT ![c] = h.scope[r]],
                          !.next = [@ EXCEPT ![c] = h.next[r]],
                          !.prev = [@ EXCEPT ![c] = h.prev[r]]]
    IN IF r = Null
       THEN [h EXCEPT !.scope = [@ EXCEPT ![c] = None]]
       ELSE Release([base EXCEPT !.prev = SetPrev(@, base.next[c], c),
                                 !.next = [@ EXCEPT ![base.prev[c]] = c]], r)

(* ContextObj::restoreAndContinue, but for the next cell it returns: the   *)
(* data come back from the saved copy r, whose destructor restore() calls, *)
(* and the object takes the place of r in the list.                        *)
restoreAndContinue(h, o) ==
    LET c == Self(o)
        r == h.restore[c]
        base == [h EXCEPT !.data = [@ EXCEPT ![c] = h.data[r]],
                          !.scope = [@ EXCEPT ![c] = h.scope[r]],
                          !.next = [@ EXCEPT ![c] = h.next[r]],
                          !.prev = [@ EXCEPT ![c] = h.prev[r]],
                          !.restore = [@ EXCEPT ![c] = h.restore[r]]]
        relinked == [base EXCEPT !.prev = SetPrev(@, base.next[c], c),
                                 !.next = [@ EXCEPT ![base.prev[c]] = c]]
    IN IF r = Null
       THEN [h EXCEPT !.scope = [@ EXCEPT ![c] = None]]
       ELSE Release(relinked, r)

(* The body of the loop of ContextObj::destroy: take cell c out of its list. *)
Unlink(h, c) ==
    [h EXCEPT !.prev = SetPrev(@, h.next[c], h.prev[c]),
              !.next = [@ EXCEPT ![h.prev[c]] = h.next[c]]]

(* The base class constructor links a new object to the bottom scope.      *)
NewContextObj(h, o) ==
    addToChain([h EXCEPT !.scope = [@ EXCEPT ![Self(o)] = 0],
                         !.restore = [@ EXCEPT ![Self(o)] = Null],
                         !.data = [@ EXCEPT ![Self(o)] = Blank[o]]],
               0, Self(o))

SetData(h, o, v) == [h EXCEPT !.data = [@ EXCEPT ![Self(o)] = v]]

-----------------------------------------------------------------------------
Init ==
    /\ level = 0
    /\ live = {}
    /\ heap = [next    |-> [a \in Addr |-> Null],
               prev    |-> [a \in Addr |-> Null],
               scope   |-> [a \in Addr |-> None],
               restore |-> [a \in Addr |-> Null],
               data    |-> [a \in Addr |-> Default],
               region  |-> [a \in Addr |-> None]]
    /\ garbage = <<>>
    /\ stage = "idle"
    /\ dying = NoObj

(* The client runs: outside a pop, or in a contextNotifyPop() callback that *)
(* Context::pop makes before (pre) or after (post) it restores the objects. *)
ClientRuns == stage \in {"idle", "pre", "post"} /\ dying = NoObj

(* CDO(context): an object that no scope has written yet.                  *)
Construct(o) ==
    /\ ClientRuns
    /\ o \notin live \cup Elem
    /\ live' = live \cup {o}
    /\ heap' = NewContextObj(heap, o)
    /\ UNCHANGED <<level, garbage, stage, dying>>

(* CDO(context, data), and CDHashMap::insert of a new key: the object is   *)
(* written in the top scope as soon as it is linked to the bottom one.     *)
ConstructWith(o, v) ==
    /\ ClientRuns
    /\ o \notin live
    /\ live' = live \cup {o}
    /\ heap' = SetData(makeCurrent(NewContextObj(heap, o), o, level), o, v)
    /\ UNCHANGED <<level, garbage, stage, dying>>

(* Faulty: written without makeCurrent().                                  *)
setNotCurrent(o, v) ==
    /\ ClientRuns
    /\ o \in live
    /\ heap' = SetData(heap, o, v)
    /\ UNCHANGED <<level, live, garbage, stage, dying>>

(* CDO::set, and CDOhash_map::set on a key that is in the map.             *)
set(o, v) ==
    /\ ClientRuns
    /\ o \in live
    /\ heap' = SetData(makeCurrent(heap, o, level), o, v)
    /\ UNCHANGED <<level, live, garbage, stage, dying>>

(* The destructor of an object (of an element: CDHashMap::clear) enters    *)
(* the loop of destroy().                                                  *)
Destroy(o) ==
    /\ ClientRuns
    /\ o \in live
    /\ live' = live \ {o}
    /\ dying' = o
    /\ UNCHANGED <<level, heap, garbage, stage>>

(* One turn of that loop: unlink, then stop or go back one version.        *)
DestroyStep ==
    /\ dying # NoObj
    /\ LET c == Self(dying)
           h == Unlink(heap, c)
       IN IF h.restore[c] = Null
          THEN /\ heap' = Release(h, c)
               /\ dying' = NoObj
          ELSE /\ heap' = restoreAndContinue(h, dying)
               /\ UNCHANGED dying
    /\ UNCHANGED <<level, live, garbage, stage>>

(* Context::push: a new memory region and a new Scope with an empty list.  *)
push ==
    /\ stage = "idle" /\ dying = NoObj
    /\ level < MaxLevel
    /\ level' = level + 1
    /\ heap' = [heap EXCEPT !.next = [@ EXCEPT ![Scope(level + 1)] = Null]]
    /\ UNCHANGED <<live, garbage, stage, dying>>

(* Faulty: the bottom scope can be popped.                                 *)
popBottom ==
    /\ stage = "idle" /\ dying = NoObj
    /\ stage' = "pre"
    /\ UNCHANGED <<level, live, heap, garbage, dying>>

(* Context::pop, in the order of the code.  It starts with the callbacks   *)
(* of the pre-pop listeners.                                               *)
pop ==
    /\ stage = "idle" /\ dying = NoObj
    /\ level > 0
    /\ stage' = "pre"
    /\ UNCHANGED <<level, live, heap, garbage, dying>>

(* d_scopeList.pop_back(): the scope below is the top scope from here on.  *)
PopScope ==
    /\ stage = "pre" /\ dying = NoObj
    /\ level' = level - 1
    /\ stage' = "restore"
    /\ UNCHANGED <<live, heap, garbage, dying>>

(* Faulty: an element that leaves its map is not collected.                *)
RestoreNextNoGarbage ==
    /\ stage = "restore" /\ dying = NoObj
    /\ LET first == heap.next[Scope(level + 1)] IN
       /\ first # Null
       /\ heap' = [restoreAndContinue(heap, first[1]) EXCEPT !.next =
                      [@ EXCEPT ![Scope(level + 1)] = heap.next[first]]]
    /\ UNCHANGED <<level, live, garbage, stage, dying>>

(* A turn of the loop of ~Scope.  An element whose copy is in no map       *)
(* leaves the map and goes to d_garbage of the dying scope.                *)
RestoreNext ==
    /\ stage = "restore" /\ dying = NoObj
    /\ LET first == heap.next[Scope(level + 1)]
           o == first[1]
           h == restoreAndContinue(heap, o)
       IN /\ first # Null
          /\ heap' = [h EXCEPT !.next =
                         [@ EXCEPT ![Scope(level + 1)] = heap.next[first]]]
          /\ garbage' = IF o \in Elem /\ h.data[first] = Absent
                        THEN Append(garbage, o) ELSE garbage
    /\ UNCHANGED <<level, live, stage, dying>>

(* The second loop of ~Scope: deleteSelf() on the garbage, oldest first.   *)
DeleteGarbage ==
    /\ stage = "restore" /\ dying = NoObj
    /\ heap.next[Scope(level + 1)] = Null
    /\ garbage # <<>>
    /\ dying' = Head(garbage)
    /\ live' = live \ {Head(garbage)}
    /\ garbage' = Tail(garbage)
    /\ UNCHANGED <<level, heap, stage>>

(* Faulty: the region is popped before the scope is destroyed.             *)
PopRegionEarly ==
    /\ stage = "restore" /\ dying = NoObj
    /\ heap' = [heap EXCEPT !.region =
                   [a \in Addr |-> IF heap.region[a] = level + 1
                                   THEN None ELSE heap.region[a]]]
    /\ stage' = "post"
    /\ UNCHANGED <<level, live, garbage, dying>>

(* ContextMemoryManager::pop: all memory of the region is gone, whatever   *)
(* it holds.  Then the callbacks of the post-pop listeners.                *)
PopRegion ==
    /\ stage = "restore" /\ dying = NoObj
    /\ heap.next[Scope(level + 1)] = Null
    /\ garbage = <<>>
    /\ heap' = [heap EXCEPT !.region =
                   [a \in Addr |-> IF heap.region[a] = level + 1
                                   THEN None ELSE heap.region[a]]]
    /\ stage' = "post"
    /\ UNCHANGED <<level, live, garbage, dying>>

PopEnd ==
    /\ stage = "post" /\ dying = NoObj
    /\ stage' = "idle"
    /\ UNCHANGED <<level, live, heap, garbage, dying>>

Next ==
    \/ push \/ pop \/ PopScope \/ RestoreNext \/ DeleteGarbage
    \/ PopRegion \/ PopEnd \/ DestroyStep
    \/ \E o \in Obj :
          \/ Construct(o)
          \/ Destroy(o)
          \/ \E v \in DataOf[o] : ConstructWith(o, v) \/ set(o, v)

Spec == Init /\ [][Next]_vars

-----------------------------------------------------------------------------
(* The objects that exist, and the cells that hold one or a saved copy.    *)
Existing == live \cup ({dying} \ {NoObj})
InUse == {Self(o) : o \in Existing} \cup {a \in Addr : heap.region[a] # None}

(* The scopes that exist, the one being destroyed included.                *)
Scopes == 0 .. IF stage = "restore" THEN level + 1 ELSE level

(* The cells on the list of scope l, found by following next from its head. *)
CellsOf(l) ==
    LET after[n \in 0 .. Cardinality(Addr)] ==
            IF n = 0 THEN {heap.next[Scope(l)]}
            ELSE LET s == after[n - 1] IN s \cup {heap.next[a] : a \in s \ {Null}}
    IN after[Cardinality(Addr)] \ {Null}

(* What object o holds for the scope at level l: its newest version that   *)
(* is not newer than l.                                                    *)
ValueAt(o, l) ==
    LET saved == {k \in 0 .. l : heap.region[Copy(o, k)] # None}
        newest == CHOOSE k \in saved : \A j \in saved : j <= k
    IN IF o \notin live THEN Blank[o]
       ELSE IF heap.scope[Self(o)] <= l THEN heap.data[Self(o)]
       ELSE heap.data[Copy(o, newest)]

(* The abstract specification, with the value at each level read off the   *)
(* lazily saved versions.                                                  *)
Snapshots == INSTANCE SnapshotStack WITH
    Part  <- Obj,
    Blank <- Blank,
    cur   <- [o \in Obj |-> ValueAt(o, level)],
    stack <- [l \in 1 .. level |-> [o \in Obj |-> ValueAt(o, l - 1)]]

-----------------------------------------------------------------------------
(* Every variable has its type.                                            *)
TypeOK ==
    /\ level \in Level
    /\ live \subseteq Obj
    /\ heap \in Heap
    /\ garbage \in Seq(Obj)
    /\ stage \in {"idle", "pre", "restore", "post"}
    /\ dying \in Obj \cup {NoObj}

(* Restore pointers (context.cpp, update and restoreAndContinue).  A       *)
(* version is restored from a version of the same object in a lower scope, *)
(* whose memory is in the region of the scope that restores it, so it is   *)
(* neither freed too early nor kept too long; only the bottom scope has    *)
(* versions with nothing to restore.                                       *)
RestoreChains ==
    \A c \in InUse :
        LET r == heap.restore[c] IN
        IF heap.scope[c] = 0
        THEN r = Null
        ELSE /\ r # Null /\ r[1] = c[1]
             /\ r[2] = heap.scope[r] /\ r[2] < heap.scope[c]
             /\ heap.region[r] = heap.scope[c]

(* The lists of the scopes (the assertions in operator<< of Context and    *)
(* Scope, context.cpp).  The list of a scope links exactly the versions    *)
(* that belong to the scope, and below the scope being destroyed it is     *)
(* doubly linked, so that a cell can be replaced or removed in place.      *)
ScopeLists ==
    \A l \in Scopes :
        /\ CellsOf(l) = {c \in InUse : heap.scope[c] = l}
        /\ l <= level =>
              \A c \in CellsOf(l) :
                 /\ heap.next[heap.prev[c]] = c
                 /\ heap.next[c] # Null => heap.prev[heap.next[c]] = c

(* A pop leaves nothing behind (Scope::~Scope): whenever the client runs,  *)
(* no object has a version in a scope that is gone, and every saved copy   *)
(* still has the version that will be restored from it.                    *)
NothingLeftBehind ==
    ClientRuns =>
        /\ \A o \in live : heap.scope[Self(o)] \in 0 .. level
        /\ \A a \in InUse : heap.region[a] # None =>
              \E c \in InUse : heap.restore[c] = a

(* Elements on d_garbage (cdhashmap.h, restore): each is there once, is    *)
(* already back in the bottom scope, so that deleting it restores nothing, *)
(* and a map never shows an element that has left it.                      *)
GarbageIsRestored ==
    /\ \A i, j \in DOMAIN garbage : garbage[i] = garbage[j] => i = j
    /\ \A i \in DOMAIN garbage :
          LET c == Self(garbage[i]) IN
          garbage[i] \in live /\ heap.scope[c] = 0 /\ heap.restore[c] = Null
    /\ ClientRuns => \A o \in live \cap Elem : heap.data[Self(o)] # Absent

(* Saving lazily is not visible: the objects behave as a stack of          *)
(* snapshots, each taken by push() and put back by pop().                  *)
BehavesAsSnapshots == Snapshots!Spec

=============================================================================
