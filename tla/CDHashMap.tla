----------------------------- MODULE CDHashMap -----------------------------
(***************************************************************************)
(* The context-dependent map (src/cvc5/src/context/cdhashmap.h).           *)
(*                                                                         *)
(* The map itself is never saved.  Each of its elements is a ContextObj    *)
(* that saves and restores itself, and that takes itself out of the table  *)
(* and out of the insertion-order list when it is restored to the version  *)
(* in which it was in no map.  It cannot delete itself there, so it goes   *)
(* to d_garbage of the scope being destroyed.                              *)
(*                                                                         *)
(* An element is named by its key.  The Context is the one of module       *)
(* Context, seen from the elements: chain[l] is the list of scope l as the *)
(* keys of the elements with a version there (a saved copy takes the place *)
(* of its element, so the order is that in which they were first written   *)
(* in the scope, latest first), and the restore pointer of an element is   *)
(* its newest saved copy.                                                  *)
(***************************************************************************)
EXTENDS Integers, Sequences, FiniteSets, SequencesExt

CONSTANTS
    Key,        (* the keys                                                *)
    Nil,        (* the null pointer                                        *)
    DataOf,     (* DataOf[k]: the data that elements with key k may have   *)
    MaxLevel    (* bound: the deepest scope                                *)

ASSUME MapAssumption == Nil \notin Key /\ IsFiniteSet(Key) /\ MaxLevel \in Nat

VARIABLES
    level,      (* level of the top scope of the context                   *)
    chain,      (* chain[l]: list of the scope at level l                  *)
    d_map,      (* the keys in the table                                   *)
    d_first,    (* the first element in order of insertion                 *)
    d_next,     (* next element in order of insertion, circular            *)
    d_prev,     (* previous element in order of insertion, circular        *)
    data,       (* the data of each element                                *)
    scope,      (* level of d_pScope of each element                       *)
    saved,      (* saved[k][l]: the copy of element k in the scope at l    *)
    garbage,    (* d_garbage of the scope being destroyed                  *)
    popping     (* TRUE while Context::pop destroys a scope                *)

context == <<level, chain, scope, saved, garbage, popping>>
links == <<d_first, d_next, d_prev>>
vars == <<context, links, d_map, data>>

None == -1
Data == UNION {DataOf[k] : k \in Key}
Level == 0 .. MaxLevel

(* A saved copy: the data, and whether d_map was set.                      *)
Version == [data : Data, inMap : BOOLEAN]
NoCopies == [l \in {} |-> [inMap |-> FALSE]]

(* A new or deleted element has no scope, no copies and no links.          *)
Fresh == [k \in Key |-> Nil]

Init ==
    /\ level = 0
    /\ chain = [l \in Level |-> <<>>]
    /\ d_map = {}
    /\ d_first = Nil
    /\ d_next = Fresh
    /\ d_prev = Fresh
    /\ data = Fresh
    /\ scope = [k \in Key |-> None]
    /\ saved = [k \in Key |-> NoCopies]
    /\ garbage = <<>>
    /\ popping = FALSE

-----------------------------------------------------------------------------
NewestCopy(k) == CHOOSE l \in DOMAIN saved[k] : \A j \in DOMAIN saved[k] : j <= l

(* The saved copies of element k once makeCurrent has left one behind.     *)
WithCopy(k, copy) == [saved EXCEPT ![k] =
                         [l \in DOMAIN @ \cup {copy.scope} |->
                            IF l = copy.scope
                            THEN [data |-> copy.data, inMap |-> copy.inMap]
                            ELSE @[l]]]

(* CDHashMap::insert on a key in the map: CDOhash_map::set.                *)
Update(k, d) ==
    /\ ~popping
    /\ k \in d_map
    /\ data' = [data EXCEPT ![k] = d]
    /\ IF scope[k] = level
       THEN UNCHANGED <<saved, scope, chain>>
       ELSE /\ saved' = WithCopy(k, [scope |-> scope[k], data |-> data[k],
                                     inMap |-> TRUE])
            /\ scope' = [scope EXCEPT ![k] = level]
            /\ chain' = [chain EXCEPT ![level] = <<k>> \o @]
    /\ UNCHANGED <<level, garbage, popping, links, d_map>>

(* The element joins the circular list as the last one.                    *)
LinkLast(k) ==
    IF d_first = Nil
    THEN /\ d_first' = k
         /\ d_next' = [d_next EXCEPT ![k] = k]
         /\ d_prev' = [d_prev EXCEPT ![k] = k]
    ELSE /\ d_next' = [d_next EXCEPT ![k] = d_first, ![d_prev[d_first]] = k]
         /\ d_prev' = [d_prev EXCEPT ![k] = d_prev[d_first], ![d_first] = k]
         /\ UNCHANGED d_first

(* Faulty: d_map is set before makeCurrent().                              *)
FirstCopyInMap(d) == [scope |-> 0, data |-> d, inMap |-> TRUE]

(* The copy that the constructor of an element leaves in the bottom scope. *)
FirstCopy(d) == [scope |-> 0, data |-> d, inMap |-> FALSE]

(* CDHashMap::insert and operator[] on a new key.  The element is linked   *)
(* to the bottom scope, made current while its d_map is still null, and    *)
(* only then gets its d_map: the copy in the bottom scope says "no map".   *)
Insert(k, d) ==
    /\ ~popping
    /\ k \notin d_map
    /\ d_map' = d_map \cup {k}
    /\ data' = [data EXCEPT ![k] = d]
    /\ scope' = [scope EXCEPT ![k] = level]
    /\ LinkLast(k)
    /\ IF level = 0
       THEN /\ chain' = [chain EXCEPT ![0] = <<k>> \o @]
            /\ UNCHANGED saved
       ELSE /\ chain' = [chain EXCEPT ![0] = <<k>> \o @, ![level] = <<k>> \o @]
            /\ saved' = WithCopy(k, FirstCopy(d))
    /\ UNCHANGED <<level, garbage, popping>>

(* CDHashMap::clear, also called by the destructor: every element is       *)
(* destroyed with its d_map reset, so that destroy() restores nothing.     *)
clear ==
    /\ ~popping
    /\ d_map # {}
    /\ d_map' = {}
    /\ d_first' = Nil
    /\ d_next' = Fresh
    /\ d_prev' = Fresh
    /\ data' = Fresh
    /\ scope' = [k \in Key |-> None]
    /\ saved' = [k \in Key |-> NoCopies]
    /\ chain' = [l \in Level |-> <<>>]
    /\ UNCHANGED <<level, garbage, popping>>

ContextPush ==
    /\ ~popping
    /\ level < MaxLevel
    /\ level' = level + 1
    /\ UNCHANGED <<chain, scope, saved, garbage, popping, links, d_map, data>>

ContextPop ==
    /\ ~popping
    /\ level > 0
    /\ level' = level - 1
    /\ popping' = TRUE
    /\ UNCHANGED <<chain, scope, saved, garbage, links, d_map, data>>

(* Faulty: d_first may keep pointing to the element.                       *)
UnlinkElementKeepFirst(k) ==
    /\ UNCHANGED d_first
    /\ d_prev' = [d_prev EXCEPT ![d_next[k]] = d_prev[k]]
    /\ d_next' = [d_next EXCEPT ![d_prev[k]] = d_next[k]]

(* Faulty: the element before it keeps pointing to it.                     *)
UnlinkElementOneWay(k) ==
    /\ d_first' = IF d_first # k THEN d_first
                  ELSE IF d_next[k] = k THEN Nil ELSE d_next[k]
    /\ d_prev' = [d_prev EXCEPT ![d_next[k]] = d_prev[k]]
    /\ UNCHANGED d_next

(* The element leaves the circular list (CDOhash_map::restore).            *)
UnlinkElement(k) ==
    /\ d_first' = IF d_first # k THEN d_first
                  ELSE IF d_next[k] = k THEN Nil ELSE d_next[k]
    /\ LET p == d_prev[k]  n == d_next[k] IN
       /\ d_prev' = [d_prev EXCEPT ![n] = p]
       /\ d_next' = [d_next EXCEPT ![p] = n]

(* Faulty: the data are not restored.                                      *)
RestoreNextKeepsData ==
    /\ popping
    /\ chain[level + 1] # <<>>
    /\ LET k == Head(chain[level + 1])
           l == NewestCopy(k)
       IN /\ IF saved[k][l].inMap
             THEN UNCHANGED <<d_map, links, garbage>>
             ELSE /\ d_map' = d_map \ {k}
                  /\ UnlinkElement(k)
                  /\ garbage' = Append(garbage, k)
          /\ scope' = [scope EXCEPT ![k] = l]
          /\ saved' = [saved EXCEPT ![k] = [j \in DOMAIN @ \ {l} |-> @[j]]]
    /\ chain' = [chain EXCEPT ![level + 1] = Tail(@)]
    /\ UNCHANGED <<level, popping, data>>

(* The next turn of the loop of ~Scope: CDOhash_map::restore on the first  *)
(* element of the list, then the base class goes back to its copy.         *)
RestoreNext ==
    /\ popping
    /\ chain[level + 1] # <<>>
    /\ LET k == Head(chain[level + 1])
           l == NewestCopy(k)
           p == saved[k][l]
       IN /\ IF p.inMap
             THEN /\ data' = [data EXCEPT ![k] = p.data]
                  /\ UNCHANGED <<d_map, links, garbage>>
             ELSE /\ d_map' = d_map \ {k}
                  /\ UnlinkElement(k)
                  /\ garbage' = Append(garbage, k)
                  /\ UNCHANGED data
          /\ scope' = [scope EXCEPT ![k] = l]
          /\ saved' = [saved EXCEPT ![k] = [j \in DOMAIN @ \ {l} |-> @[j]]]
    /\ chain' = [chain EXCEPT ![level + 1] = Tail(@)]
    /\ UNCHANGED <<level, popping>>

(* The list q without the elements of S.                                   *)
Without(q, S) ==
    LET upTo[i \in 0 .. Len(q)] ==
            IF i = 0 THEN <<>>
            ELSE IF q[i] \in S THEN upTo[i - 1] ELSE Append(upTo[i - 1], q[i])
    IN  upTo[Len(q)]

(* The second loop of ~Scope deletes the garbage, whose destroy() takes    *)
(* each element out of the lists of all scopes; the pop is over.           *)
DeleteGarbage ==
    /\ popping
    /\ chain[level + 1] = <<>>
    /\ LET dead == ToSet(garbage)
           Reset(f, v) == [k \in Key |-> IF k \in dead THEN v ELSE f[k]]
       IN /\ scope' = Reset(scope, None)
          /\ saved' = Reset(saved, NoCopies)
          /\ data' = Reset(data, Nil)
          /\ d_next' = Reset(d_next, Nil)
          /\ d_prev' = Reset(d_prev, Nil)
          /\ chain' = [l \in Level |-> Without(chain[l], dead)]
    /\ garbage' = <<>>
    /\ popping' = FALSE
    /\ UNCHANGED <<level, d_map, d_first>>

Next ==
    \/ \E k \in Key : \E d \in DataOf[k] : Insert(k, d) \/ Update(k, d)
    \/ clear
    \/ ContextPush
    \/ ContextPop
    \/ RestoreNext
    \/ DeleteGarbage

Spec == Init /\ [][Next]_vars

-----------------------------------------------------------------------------
(* Every variable has its type.                                            *)
TypeOK ==
    /\ level \in Level
    /\ chain \in [Level -> Seq(Key)]
    /\ d_map \subseteq Key
    /\ d_first \in Key \cup {Nil}
    /\ d_next \in [Key -> Key \cup {Nil}]
    /\ d_prev \in [Key -> Key \cup {Nil}]
    /\ data \in [Key -> Data \cup {Nil}]
    /\ scope \in [Key -> Level \cup {None}]
    /\ DOMAIN saved = Key
    /\ \A k \in Key : \A l \in DOMAIN saved[k] : l \in Level /\ saved[k][l] \in Version
    /\ garbage \in Seq(Key)
    /\ popping \in BOOLEAN

(* What iterating from begin() to end() visits: d_first, then next() until *)
(* it is d_first again.                                                    *)
Iteration ==
    LET upTo[n \in 0 .. Cardinality(Key)] ==
            IF n = 0 THEN <<d_first>>
            ELSE LET s == upTo[n - 1] IN
                 IF d_next[Last(s)] = d_first THEN s ELSE Append(s, d_next[Last(s)])
    IN IF d_first = Nil THEN <<>> ELSE upTo[Cardinality(Key)]

(* The version of element k that the scope at level l sees.                *)
VersionAt(k, l) ==
    IF scope[k] <= l
    THEN [data |-> data[k], inMap |-> TRUE]
    ELSE saved[k][CHOOSE j \in DOMAIN saved[k] :
                     j <= l /\ \A i \in DOMAIN saved[k] : i <= l => i <= j]

(* The map in the scope at level l, in order of iteration.  (That q is     *)
(* bound to a set with one member lets TLC evaluate Iteration only once.)  *)
MapAt(l) ==
    LET hidden == {k \in d_map : ~VersionAt(k, l).inMap}
        Listed(keys) == [i \in DOMAIN keys |-> <<keys[i], VersionAt(keys[i], l).data>>]
    IN  CHOOSE m \in {Listed(Without(q, hidden)) : q \in {Iteration}} : TRUE

Snapshots == INSTANCE SnapshotStack WITH
    Part  <- {"map"},
    Blank <- [p \in {"map"} |-> <<>>],
    cur   <- [p \in {"map"} |-> MapAt(level)],
    stack <- [l \in 1 .. level |-> [p \in {"map"} |-> MapAt(l - 1)]]

(* The table and the insertion-order list (constructor and restore of      *)
(* CDOhash_map) agree: the list visits every key of the table once, is     *)
(* circular and doubly linked, and is empty only with the table.           *)
ListMatchesTable ==
    /\ TypeOK
    /\ ToSet(Iteration) = d_map
    /\ Len(Iteration) = Cardinality(d_map)
    /\ \A k \in d_map : d_next[d_prev[k]] = k /\ d_prev[d_next[k]] = k

(* Garbage (CDOhash_map::restore) is unreachable from the map when it is   *)
(* deleted, and deleting it restores nothing: it is back in the bottom     *)
(* scope, with no saved copy.                                              *)
GarbageUnreachable ==
    \A i \in DOMAIN garbage :
        /\ garbage[i] \notin d_map
        /\ scope[garbage[i]] = 0 /\ saved[garbage[i]] = NoCopies
        /\ \A k \in d_map : d_next[k] # garbage[i] /\ d_prev[k] # garbage[i]

(* The map behaves as a stack of snapshots of its contents, in insertion   *)
(* order; only clear() reaches through to the enclosing scopes.            *)
BehavesAsSnapshots == Snapshots!Spec

=============================================================================
