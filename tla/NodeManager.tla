---------------------------- MODULE NodeManager ----------------------------
(***************************************************************************)
(* The nodes of cvc5: hash-consed terms with reference counts of few bits  *)
(* (src/cvc5/src/expr: NodeManager, NodeValue, NodeBuilder, the handles    *)
(* Node and the tables of AttributeManager).                               *)
(*                                                                         *)
(* A count that reaches zero makes its node a zombie: it stays in the pool *)
(* with its children and may be found and used again, until there are too  *)
(* many zombies.  Reclaiming them happens inside the decrement that made   *)
(* the last one, so inside an assignment, a destructor or a builder.  A    *)
(* count that reaches its maximum stays there, and the node lives until    *)
(* the manager is destroyed.                                               *)
(*                                                                         *)
(* A node is the number of its allocation, which is its d_id; addresses of *)
(* freed nodes are not used again.  The one thread of the program is in    *)
(* the midst of an operation while todo is not empty or zombies are being  *)
(* reclaimed.                                                              *)
(***************************************************************************)
EXTENDS Integers, Sequences, FiniteSets, SequencesExt

CONSTANTS
    Handle,         (* the variables of type Node of the program           *)
    Kinds,          (* the metakinds of the nodes that are built           *)
    MaxRC,          (* MAX_RC, 2^20 - 1 in the code                        *)
    ZombieLimit,    (* 5000 in the code                                    *)
    MaxNodes,       (* bound: nodes ever allocated                         *)
    MaxChildren,    (* bound: children of a node                           *)
    MaxAttributes   (* bound: nodes that have an attribute                 *)

ASSUME KindsAssumption ==
    Kinds \subseteq {"VARIABLE", "CONSTANT", "OPERATOR", "PARAMETERIZED"}
ASSUME CountsAssumption ==
    /\ MaxRC \in Nat \ {0}
    /\ ZombieLimit \in Nat
    /\ MaxNodes \in Nat
    /\ MaxChildren \in Nat
    /\ MaxAttributes \in Nat
ASSUME HandlesFinite == IsFiniteSet(Handle)

VARIABLES
    m,          (* the node manager: see Manager                           *)
    handle,     (* the node each handle refers to                          *)
    builder,    (* the children of a NodeBuilder                           *)
    todo,       (* what the operation in progress has still to do          *)
    order,      (* the maxed out nodes ~NodeManager has still to delete    *)
    pc          (* "run", "destroying" or "destroyed"                      *)

vars == <<m, handle, builder, todo, order, pc>>

(* NodeValue::null(), whose count is at its maximum from the start.        *)
Null == 0
Id == 1..MaxNodes

(* NodeValue, and what is left of one when its memory is freed.            *)
Freed == [kind |-> "FREED", children |-> <<>>, rc |-> 0]
NodeValue == {Freed} \cup [kind : Kinds, children : Seq(Id), rc : 0..MaxRC]

(* nodes       all nodes ever allocated                                    *)
(* pool        d_nodeValuePool                                             *)
(* zombies     d_zombies                                                   *)
(* maxedOut    d_maxedOut                                                  *)
(* attr        the entry of each node in d_attrManager->d_nodes            *)
(* collecting  d_attrManager->d_inGarbageCollection                        *)
(* reclaiming  d_inReclaimZombies                                          *)
(* batch       the vector zombies of reclaimZombies, what is left of it    *)
Manager ==
    [nodes : Seq(NodeValue), pool : SUBSET Id, zombies : SUBSET Id,
     maxedOut : Seq(Id), attr : Seq(Id \cup {Null}), collecting : BOOLEAN,
     reclaiming : BOOLEAN, batch : SUBSET Id]

(* Where a Node is stored: a handle, or the attribute of a node.           *)
Place == ({"handle"} \X Handle) \cup ({"attr"} \X Id)
NoPlace == <<"none", Null>>

Task == [op : {"dec", "put"}, at : Place \cup {NoPlace}, node : Id \cup {Null}]
Dec(n) == [op |-> "dec", at |-> NoPlace, node |-> n]
PutTask(p, n) == [op |-> "put", at |-> p, node |-> n]

Init ==
    /\ m = [nodes |-> <<>>, pool |-> {}, zombies |-> {}, maxedOut |-> <<>>,
            attr |-> <<>>, collecting |-> FALSE, reclaiming |-> FALSE,
            batch |-> {}]
    /\ handle = [h \in Handle |-> Null]
    /\ builder = <<>>
    /\ todo = <<>>
    /\ order = <<>>
    /\ pc = "run"

Live(k) == {n \in DOMAIN k.nodes : k.nodes[n] # Freed}

-----------------------------------------------------------------------------
(* Reference counts.                                                       *)

(* inc, markRefCountMaxedOut                                               *)
inc(k, n) ==
    IF n = Null \/ k.nodes[n].rc = MaxRC THEN k
    ELSE [k EXCEPT !.nodes[n].rc = @ + 1,
                   !.maxedOut = IF k.nodes[n].rc = MaxRC - 1
                                THEN Append(@, n) ELSE @]

(* reclaimZombies, up to the loop: the zombies that were not used again.   *)
reclaimZombies(k) ==
    [k EXCEPT !.reclaiming = TRUE,
              !.batch = {z \in k.zombies : k.nodes[z].rc = 0},
              !.zombies = {}]

safeToReclaimZombies(k) == ~k.reclaiming /\ ~k.collecting

(* Faulty: nothing is remembered while zombies are reclaimed.              *)
markForDeletionUnlessReclaiming(k, n) ==
    LET z == [k EXCEPT !.zombies = @ \cup {n}]
    IN  IF ~safeToReclaimZombies(k) THEN k
        ELSE IF Cardinality(z.zombies) > ZombieLimit THEN reclaimZombies(z)
        ELSE z

markForDeletion(k, n) ==
    LET z == [k EXCEPT !.zombies = @ \cup {n}]
    IN  IF safeToReclaimZombies(z) /\ Cardinality(z.zombies) > ZombieLimit
        THEN reclaimZombies(z) ELSE z

(* Faulty: counts come down from the maximum.                              *)
decFromMax(k, n) ==
    IF n = Null THEN k
    ELSE LET d == [k EXCEPT !.nodes[n].rc = (@ - 1) % (MaxRC + 1)]
         IN  IF d.nodes[n].rc = 0 THEN markForDeletion(d, n) ELSE d

(* dec: the field d_rc has no sign.                                        *)
dec(k, n) ==
    IF n = Null \/ k.nodes[n].rc = MaxRC THEN k
    ELSE LET d == [k EXCEPT !.nodes[n].rc = (@ - 1) % (MaxRC + 1)]
         IN  IF d.nodes[n].rc = 0 THEN markForDeletion(d, n) ELSE d

(* decrRefCounts: the nodes q, first to last.                              *)
DecAll(k, q) ==
    LET after[i \in 0..Len(q)] == IF i = 0 THEN k ELSE dec(after[i - 1], q[i])
    IN  after[Len(q)]

(* Faulty: the attributes of the node are kept.                            *)
ReclaimKeepsAttributes(k, nv) ==
    LET v == k.nodes[nv]
        c == [k EXCEPT !.batch = @ \ {nv}]
    IN  IF v.rc # 0 THEN c
        ELSE [DecAll([c EXCEPT !.pool = @ \ {nv}], v.children)
                 EXCEPT !.nodes[nv] = Freed]

(* The body of the loop of reclaimZombies: the node leaves the pool, its   *)
(* attributes are deleted, its children are released and it is freed.      *)
Reclaim(k, nv) ==
    LET v == k.nodes[nv]
        c == [k EXCEPT !.batch = @ \ {nv}]
        a == dec([c EXCEPT !.pool = @ \ {nv}, !.attr[nv] = Null], k.attr[nv])
    IN  IF v.rc # 0 THEN c
        ELSE [DecAll(a, v.children) EXCEPT !.nodes[nv] = Freed]

(* AttributeManager::deleteAllAttributes, deleteAttributes: meanwhile no   *)
(* zombies are reclaimed.                                                  *)
deleteAllAttributes(k) ==
    [DecAll([k EXCEPT !.collecting = TRUE,
                      !.attr = [n \in DOMAIN @ |-> Null]], k.attr)
        EXCEPT !.collecting = FALSE]

-----------------------------------------------------------------------------
(* Operations of the program.  Each begins when none is in progress.       *)

Ready == pc = "run" /\ todo = <<>> /\ ~m.reclaiming

(* The nodes the program can name: what its handles refer to, and their    *)
(* children, as a TNode.                                                   *)
Held == {handle[h] : h \in Handle} \ {Null}
Children(n) == Range(m.nodes[n].children)

(* Node::operator=, Node::~Node: the old node is released first.           *)
Assign(h, n) ==
    /\ Ready
    /\ n # handle[h]
    /\ m' = dec(m, handle[h])
    /\ handle' = [handle EXCEPT ![h] = Null]
    /\ todo' = IF n = Null THEN <<>> ELSE <<PutTask(<<"handle", h>>, n)>>
    /\ UNCHANGED <<builder, order, pc>>

(* A Node that is constructed from the attribute of a node.                *)
GetAttribute(h, n) ==
    /\ Ready
    /\ handle[h] = Null
    /\ m.attr[n] # Null
    /\ handle' = [handle EXCEPT ![h] = m.attr[n]]
    /\ m' = inc(m, m.attr[n])
    /\ UNCHANGED <<builder, todo, order, pc>>

(* setAttribute assigns to the entry of the table.                         *)
SetAttribute(n, v) ==
    /\ Ready
    /\ m.attr[n] # v
    /\ Cardinality({a \in DOMAIN m.attr : m.attr[a] # Null} \cup {n}) <= MaxAttributes
    /\ m' = dec([m EXCEPT !.attr[n] = Null], m.attr[n])
    /\ todo' = <<PutTask(<<"attr", n>>, v)>>
    /\ UNCHANGED <<handle, builder, order, pc>>

DeleteAttributes ==
    /\ Ready
    /\ m' = deleteAllAttributes(m)
    /\ UNCHANGED <<handle, builder, todo, order, pc>>

append(n) ==
    /\ Ready
    /\ Len(builder) < MaxChildren
    /\ builder' = Append(builder, n)
    /\ m' = inc(m, n)
    /\ UNCHANGED <<handle, todo, order, pc>>

(* NodeBuilder::~NodeBuilder, clear                                        *)
DestroyBuilder ==
    /\ Ready
    /\ builder # <<>>
    /\ builder' = <<>>
    /\ todo' = [i \in DOMAIN builder |-> Dec(builder[i])]
    /\ UNCHANGED <<m, handle, order, pc>>

(* Faulty: zombies are passed over.                                        *)
poolLookupCounted(k, kind, q) ==
    {n \in k.pool : /\ k.nodes[n].kind = kind
                    /\ k.nodes[n].children = q
                    /\ k.nodes[n].rc > 0}

poolLookup(k, kind, q) ==
    {n \in k.pool : k.nodes[n].kind = kind /\ k.nodes[n].children = q}

NewNode(k, kind, q) ==
    [k EXCEPT !.nodes = Append(@, [kind |-> kind, children |-> q, rc |-> 0]),
              !.attr = Append(@, Null),
              !.pool = IF kind = "VARIABLE" THEN @
                       ELSE @ \cup {Len(k.nodes) + 1}]

(* constructNV and mkConst, with the construction of a Node from the       *)
(* result: a node of the pool, zombies included, or a new one, which takes *)
(* over the children of the builder.                                       *)
constructNV(h, kind) ==
    LET put(n) == PutTask(<<"handle", h>>, n)
        found == poolLookup(m, kind, builder)
    IN  /\ Ready
        /\ handle[h] = Null
        /\ builder = <<>> <=> kind \in {"VARIABLE", "CONSTANT"}
        /\ \/ /\ found = {}
              /\ Len(m.nodes) < MaxNodes
              /\ m' = NewNode(m, kind, builder)
              /\ todo' = <<put(Len(m.nodes) + 1)>>
           \/ \E n \in found :
              /\ todo' = [i \in DOMAIN builder |-> Dec(builder[i])] \o <<put(n)>>
              /\ UNCHANGED m
        /\ builder' = <<>>
        /\ UNCHANGED <<handle, order, pc>>

-----------------------------------------------------------------------------
(* The operation goes on.                                                  *)

DoDec ==
    /\ todo # <<>> /\ ~m.reclaiming
    /\ Head(todo).op = "dec"
    /\ m' = dec(m, Head(todo).node)
    /\ todo' = Tail(todo)
    /\ UNCHANGED <<handle, builder, order, pc>>

DoPut ==
    /\ todo # <<>> /\ ~m.reclaiming
    /\ Head(todo).op = "put"
    /\ LET t == Head(todo)
           k == inc(m, t.node)
       IN  IF t.at[1] = "handle"
           THEN handle' = [handle EXCEPT ![t.at[2]] = t.node] /\ m' = k
           ELSE m' = [k EXCEPT !.attr[t.at[2]] = t.node] /\ UNCHANGED handle
    /\ todo' = Tail(todo)
    /\ UNCHANGED <<builder, order, pc>>

ReclaimNext(nv) ==
    /\ nv \in m.batch
    /\ m' = Reclaim(m, nv)
    /\ UNCHANGED <<handle, builder, todo, order, pc>>

ReclaimEnd ==
    /\ m.reclaiming /\ m.batch = {}
    /\ m' = [m EXCEPT !.reclaiming = FALSE]
    /\ UNCHANGED <<handle, builder, todo, order, pc>>

-----------------------------------------------------------------------------
(* The destructor.                                                         *)

(* getNumChildren, getChild: without the operator.                         *)
Arguments(v) == IF v.kind = "PARAMETERIZED" THEN Tail(v.children) ELSE v.children

(* The members of roots in the order in which q first has them.            *)
FirstVisits(q, roots) ==
    LET first[i \in 0..Len(q)] ==
            IF i = 0 THEN <<>>
            ELSE IF Contains(roots, q[i]) /\ ~Contains(first[i - 1], q[i])
            THEN Append(first[i - 1], q[i]) ELSE first[i - 1]
    IN  first[Len(q)]

(* TopologicalSort: the roots in the order in which a depth-first search,  *)
(* last argument first, leaves them.                                       *)
TopologicalSort(k, roots) ==
    LET post[n \in DOMAIN k.nodes] ==
            LET args == Reverse(Arguments(k.nodes[n]))
            IN  Append(FlattenSeq([i \in DOMAIN args |-> post[args[i]]]), n)
    IN  FirstVisits(FlattenSeq([i \in DOMAIN roots |-> post[roots[i]]]), roots)

(* ~NodeManager, when the program has given up all nodes.                  *)
Destroy ==
    /\ Ready
    /\ Held = {} /\ builder = <<>>
    /\ m' = [deleteAllAttributes(m) EXCEPT !.maxedOut = <<>>]
    /\ order' = TopologicalSort(m, m.maxedOut)
    /\ pc' = "destroying"
    /\ UNCHANGED <<handle, builder, todo>>

(* One round of the loop of ~NodeManager.                                  *)
DestroyZombies ==
    /\ pc = "destroying" /\ ~m.reclaiming
    /\ m.zombies # {}
    /\ m' = reclaimZombies(m)
    /\ UNCHANGED <<handle, builder, todo, order, pc>>

DestroyMaxedOut ==
    /\ pc = "destroying" /\ ~m.reclaiming
    /\ m.zombies = {} /\ order # <<>>
    /\ m' = markForDeletion([m EXCEPT !.nodes[Last(order)].rc = 0], Last(order))
    /\ order' = Front(order)
    /\ UNCHANGED <<handle, builder, todo, pc>>

DestroyEnd ==
    /\ pc = "destroying" /\ ~m.reclaiming
    /\ m.zombies = {} /\ order = <<>>
    /\ pc' = "destroyed"
    /\ UNCHANGED <<m, handle, builder, todo, order>>

Next ==
    \/ \E h \in Handle :
          \/ Assign(h, Null)
          \/ \E n \in Held : Assign(h, n) \/ GetAttribute(h, n)
          \/ \E n \in Held : \E c \in Children(n) : Assign(h, c)
          \/ \E kind \in Kinds : constructNV(h, kind)
    \/ \E n \in Held : append(n) \/ \E v \in Held : SetAttribute(n, v)
    \/ DestroyBuilder
    \/ DeleteAttributes
    \/ DoDec
    \/ DoPut
    \/ \E nv \in m.batch : ReclaimNext(nv)
    \/ ReclaimEnd
    \/ Destroy
    \/ DestroyZombies
    \/ DestroyMaxedOut
    \/ DestroyEnd

Spec == Init /\ [][Next]_vars

-----------------------------------------------------------------------------
(* Type correctness; the count of a node stays within its bits.            *)
TypeOK ==
    /\ m \in Manager
    /\ Len(m.attr) = Len(m.nodes)
    /\ handle \in [Handle -> Id \cup {Null}]
    /\ builder \in Seq(Id)
    /\ todo \in Seq(Task)
    /\ order \in Seq(Id)
    /\ pc \in {"run", "destroying", "destroyed"}

(* Nothing in use points to a freed node: neither the program, nor a node  *)
(* that is still there, nor an attribute, nor any table of the manager,    *)
(* nor an operation that zombies were reclaimed in the midst of.           *)
NothingDangles ==
    LET used == Held \cup Range(builder)
                \cup (UNION {Children(n) : n \in Live(m)})
                \cup (Range(m.attr) \ {Null})
                \cup {n \in DOMAIN m.attr : m.attr[n] # Null}
                \cup m.pool \cup m.zombies \cup m.batch
                \cup Range(m.maxedOut) \cup Range(order)
                \cup {todo[i].node : i \in DOMAIN todo}
                \cup {todo[i].at[2] : i \in {j \in DOMAIN todo : todo[j].at[1] = "attr"}}
    IN  used \subseteq Live(m)

Occurrences(q, n) == Cardinality({i \in DOMAIN q : q[i] = n})

(* The references to n that were counted and not yet released.             *)
References(n) ==
    Cardinality({h \in Handle : handle[h] = n})
    + Occurrences(builder, n)
    + Occurrences(m.attr, n)
    + Occurrences(todo, Dec(n))
    + Cardinality({c \in Live(m) \X (1..MaxChildren) :
                      /\ c[2] \in DOMAIN m.nodes[c[1]].children
                      /\ m.nodes[c[1]].children[c[2]] = n})

(* The count of a node is the number of references to it, or it is at its  *)
(* maximum, and then the destructor knows of the node, once.               *)
CountsExact ==
    LET maxed == m.maxedOut \o order
    IN  /\ TypeOK
        /\ \A n \in Live(m) : m.nodes[n].rc \in {MaxRC, References(n)}
        /\ Range(maxed) = {n \in Live(m) : m.nodes[n].rc = MaxRC}
        /\ Len(maxed) = Cardinality(Range(maxed))

(* Two nodes that are there differ in kind or children: equal terms are    *)
(* one node, although zombies are found again, and freed nodes never are.  *)
Unique ==
    /\ m.pool = {n \in Live(m) : m.nodes[n].kind # "VARIABLE"}
    /\ \A a, b \in m.pool :
          /\ m.nodes[a].kind = m.nodes[b].kind
          /\ m.nodes[a].children = m.nodes[b].children
          => a = b

(* No node is lost: one without references is a zombie, although zombies   *)
(* are made while others are reclaimed, or is just being handed out; and   *)
(* the destructor frees every node, also the ones with maximal counts.     *)
NothingLeaks ==
    /\ \A n \in Live(m) :
          m.nodes[n].rc = 0 =>
              \/ n \in m.zombies \cup m.batch
              \/ \E i \in DOMAIN todo : todo[i].op = "put" /\ todo[i].node = n
    /\ pc = "destroyed" => Live(m) = {}

=============================================================================
