------------------------------ MODULE CDProof ------------------------------
(***************************************************************************)
(* Proofs under construction in cvc5: the mutable proof nodes of           *)
(* ProofNodeManager, CDProof, which has one proof for each formula, and    *)
(* LazyCDProof, which asks generators for the proofs of open assumptions   *)
(* (src/cvc5/src/proof), as ProofEqEngine uses them                        *)
(* (src/cvc5/src/theory/uf/proof_equality_engine.cpp).                     *)
(*                                                                         *)
(* A step may come before or after the steps for its premises: premises    *)
(* without a step are ASSUME nodes, and a later step overwrites them in    *)
(* place.  An equality and its symmetric form are kept connected by SYMM   *)
(* nodes.  Nodes are shared: by proofs, by the two stores, and by whoever  *)
(* was given a proof.                                                      *)
(*                                                                         *)
(* There are three stores.  Store p is d_proof, in a context that is       *)
(* pushed and popped; q is a temporary LazyCDProof, made for one lemma,    *)
(* whose default generator is p (it stands for tmpProof and outer of       *)
(* assertLemma, each of which only asks the next one); g is the temporary  *)
(* CDProof of BufferedProofGenerator.                                      *)
(*                                                                         *)
(* Rules are not checked when they are applied (--proof-check=none, the    *)
(* default), so that a step of the client never fails, and d_autoSymm is   *)
(* set, as it is by default.  Contexts are stacks of snapshots (modules    *)
(* Context and CDHashMap).  A node that is gone is gone from d_allVisited: *)
(* that a new node may get its address is left out.                        *)
(***************************************************************************)
EXTENDS Integers, Sequences, FiniteSets, SequencesExt

CONSTANTS
    Fact,           (* the formulas proofs are about                       *)
    NoFact,         (* the null formula, and the formula true              *)
    Symm,           (* Symm[f]: getSymmFact                                *)
    Rewrite,        (* Rewrite[f]: rewrite, NoFact standing for true       *)
    Steps,          (* the steps of the client: <<conclusion, premises>>   *)
    Literals,       (* the facts that were asserted to the equality engine *)
    Queries,        (* the facts whose proofs are asked for                *)
    Rewrites,       (* the facts of the steps that are forced              *)
    Premises,       (* for the facts with a generator: the premises of the *)
                    (* step it proves the fact by                          *)
    MaxNodes,       (* bound: proof nodes in use                           *)
    MaxLevel,       (* bound: levels of the context of p                   *)
    MaxGenerators,  (* bound: generators in a store                        *)
    MaxLemmas       (* bound: proofs given to the outside                  *)

(* The client proves nothing in a circle.                                  *)
ASSUME FactsAssumption ==
    /\ NoFact \notin Fact
    /\ Symm \in [Fact -> Fact \cup {NoFact}]
    /\ \A f \in Fact : Symm[f] # NoFact => Symm[f] # f /\ Symm[Symm[f]] = f
    /\ Rewrite \in [Fact -> Fact \cup {NoFact}]
    /\ Steps \subseteq Fact \X Seq(Fact)
    /\ Literals \subseteq Fact
    /\ Queries \subseteq Fact
    /\ Rewrites \subseteq Fact
    /\ DOMAIN Premises \subseteq Fact /\ Range(Premises) \subseteq Seq(Fact)
    /\ \E rank \in [Fact -> 0..Cardinality(Fact)] :
          /\ \A f \in Fact : Symm[f] # NoFact => rank[Symm[f]] = rank[f]
          /\ \A e \in Steps : \A i \in DOMAIN e[2] : rank[e[2][i]] < rank[e[1]]
          /\ \A f \in DOMAIN Premises : \A i \in DOMAIN Premises[f] :
                rank[Premises[f][i]] < rank[f]
ASSUME BoundsAssumption ==
    {MaxNodes, MaxLevel, MaxGenerators, MaxLemmas} \subseteq Nat

VARIABLES
    s,          (* proof nodes and stores: see State                       *)
    lemmas,     (* the proofs given to the outside: see Lemma              *)
    linked      (* p got its proofs by addStep and by copies only, and no  *)
                (* level was popped                                        *)

vars == <<s, lemmas, linked>>

(* A node is named by a formula, a number, and the lemma that it was       *)
(* cloned for, or 0: the k-th node that proves the formula there.          *)
Id == Fact \X (Nat \ {0}) \X Nat
NoNode == <<NoFact, 0, 0>>

(* ProofNode: d_proven, d_rule, d_children, and, for the properties, the   *)
(* premises that the rule was given for.                                   *)
ProofNode ==
    [fact : Fact, rule : {"ASSUME", "SYMM", "STEP", "THEORY_REWRITE",
                          "MACRO_SR_PRED_TRANSFORM", "MACRO_SR_PRED_INTRO"},
     premises : Seq(Fact), children : Seq(Id)]

(* One level of a store: d_nodes, d_gens, d_allVisited.                    *)
Level == [map : [Fact -> Id \cup {NoNode}],
          gens : [Fact -> {"none", "assume", "step"}],
          visited : SUBSET Id]

NewLevel == [map |-> [f \in Fact |-> NoNode],
             gens |-> [f \in Fact |-> "none"],
             visited |-> {}]

(* The body of a SCOPE, its arguments, and its conclusion without them.    *)
Lemma == [body : Id, assumps : SUBSET Fact, conc : Fact]

Init ==
    /\ s = [nodes |-> <<>>,
            p |-> <<NewLevel>>, q |-> <<NewLevel>>, g |-> <<NewLevel>>]
    /\ lemmas = <<>>
    /\ linked = TRUE

Store == {"p", "q", "g"}
Top(t, k) == t[k][Len(t[k])]
getProof(t, k, f) == Top(t, k).map[f]

-----------------------------------------------------------------------------
(* The graph of proof nodes.                                               *)

Children(nodes, n) == Range(nodes[n].children)

(* getResult, of each of the nodes.                                        *)
Results(nodes, ns) == [i \in DOMAIN ns |-> nodes[ns[i]].fact]

(* The nodes of the proofs in S.                                           *)
Subproofs(nodes, S) ==
    LET reach[R \in SUBSET DOMAIN nodes] ==
            LET more == R \cup UNION {Children(nodes, n) : n \in R}
            IN  IF more = R THEN R ELSE reach[more]
    IN  reach[S]

(* getFreeAssumptionsMap                                                   *)
Assumed(nodes, n) == {a \in Subproofs(nodes, {n}) : nodes[a].rule = "ASSUME"}
FreeAssumptions(nodes, n) == {nodes[a].fact : a \in Assumed(nodes, n)}

(* What is left of n when all SYMM steps are taken away.  (The number is   *)
(* for proofs with a cycle only: see Acyclic.)                             *)
StripSymm(nodes, n) ==
    LET strip[m \in DOMAIN nodes, i \in 0..Cardinality(DOMAIN nodes)] ==
            IF nodes[m].rule # "SYMM" \/ i = 0 THEN m
            ELSE strip[nodes[m].children[1], i - 1]
    IN  strip[n, Cardinality(DOMAIN nodes)]

(* isAssumption, cancelDoubleSymm                                          *)
isAssumption(nodes, n) == nodes[StripSymm(nodes, n)].rule = "ASSUME"

(* shared_ptr: nodes nothing refers to are gone.                           *)
Roots(t, l) ==
    (UNION {Range(t.p[i].map) : i \in DOMAIN t.p}
     \cup {l[i].body : i \in DOMAIN l}) \ {NoNode}

Collected(t, l) ==
    LET live == Subproofs(t.nodes, Roots(t, l))
    IN  [nodes |-> [n \in live |-> t.nodes[n]],
         p |-> [i \in DOMAIN t.p |-> [t.p[i] EXCEPT !.visited = @ \cap live]],
         q |-> <<NewLevel>>, g |-> <<NewLevel>>]

-----------------------------------------------------------------------------
(* ProofNodeManager.                                                       *)

(* The first number that is free for a new proof of f.                     *)
NewId(t, f) ==
    LET unused == {i \in 1..(Cardinality(DOMAIN t.nodes) + 1) :
                      <<f, i, 0>> \notin DOMAIN t.nodes}
    IN  <<f, Min(unused), 0>>

Node(f, rule, premises, children) ==
    [fact |-> f, rule |-> rule, premises |-> premises, children |-> children]

(* mkNode: the state with the new node, and the node.                      *)
WithNode(t, n, nd) == [t |-> [t EXCEPT !.nodes = @ @@ (n :> nd)], n |-> n]
mkNode(t, nd) == WithNode(t, NewId(t, nd.fact), nd)

Assume(f) == Node(f, "ASSUME", <<>>, <<>>)
SymmOf(f, n) == Node(f, "SYMM", <<Symm[f]>>, <<n>>)

(* updateNode, with a rule and children.                                   *)
updateNode(t, nd, n) == [t EXCEPT !.nodes[n] = nd]

(* updateNode, with the contents of a node that proves the same.           *)
updateNodeBy(t, n, m) ==
    IF t.nodes[n].fact # t.nodes[m].fact THEN t
    ELSE [t EXCEPT !.nodes[n] = t.nodes[m]]

(* ProofNode::clone: the nodes of the proof n, copied with their sharing,  *)
(* for lemma i.                                                            *)
CloneOf(t, n, i) ==
    LET Copy(m) == <<m[1], m[2], i>>
        Copied(nd) == [nd EXCEPT !.children = [c \in DOMAIN @ |-> Copy(@[c])]]
        new == [c \in {Copy(m) : m \in Subproofs(t.nodes, {n})} |->
                   Copied(t.nodes[<<c[1], c[2], 0>>])]
    IN  [t |-> [t EXCEPT !.nodes = @ @@ new], n |-> Copy(n)]

-----------------------------------------------------------------------------
(* CDProof.                                                                *)

insert(t, k, f, n) == [t EXCEPT ![k][Len(t[k])].map[f] = n]
Inserted(a, k, f) == [t |-> insert(a.t, k, f, a.n), n |-> a.n]

(* mkSymm, of the proof m of the symmetric fact.                           *)
mkSymm(t, m, f) ==
    IF t.nodes[m].rule = "SYMM" THEN [t |-> t, n |-> t.nodes[m].children[1]]
    ELSE mkNode(t, SymmOf(f, m))

(* The proof of the symmetric form of f, if f has one.                     *)
getProofOfSymm(t, k, f) ==
    IF Symm[f] = NoFact THEN NoNode ELSE getProof(t, k, Symm[f])

(* Faulty: no test whether the symmetric fact is an assumption.            *)
getProofSymmAlways(t, k, f) ==
    LET Connect(pf, pfs) ==
            IF \/ pf # NoNode /\ ~isAssumption(t.nodes, pf)
               \/ pfs = NoNode
            THEN [t |-> t, n |-> pf]
            ELSE IF pf = NoNode THEN Inserted(mkSymm(t, pfs, f), k, f)
            ELSE [t |-> updateNode(t, SymmOf(f, pfs), pf), n |-> pf]
    IN  Connect(getProof(t, k, f), getProofOfSymm(t, k, f))

(* The proof of f, or NoNode, after its symmetric form was asked too.      *)
getProofSymm(t, k, f) ==
    LET Connect(pf, pfs) ==
            IF \/ pf # NoNode /\ ~isAssumption(t.nodes, pf)
               \/ pfs = NoNode
               \/ pf # NoNode /\ isAssumption(t.nodes, pfs)
            THEN [t |-> t, n |-> pf]
            ELSE IF pf = NoNode THEN Inserted(mkSymm(t, pfs, f), k, f)
            ELSE [t |-> updateNode(t, SymmOf(f, pfs), pf), n |-> pf]
    IN  Connect(getProof(t, k, f), getProofOfSymm(t, k, f))

(* getProofFor of CDProof.                                                 *)
getProofOrAssume(t, k, f) ==
    LET OrAssume(a) == IF a.n # NoNode THEN a
                       ELSE Inserted(mkNode(a.t, Assume(f)), k, f)
    IN  OrAssume(getProofSymm(t, k, f))

(* Faulty: the symmetric fact is not connected.                            *)
notifyNewProofNot(t, k, f) == t

notifyNewProof(t, k, f) ==
    IF Symm[f] = NoFact \/ getProof(t, k, Symm[f]) = NoNode THEN t
    ELSE getProofSymm(t, k, Symm[f]).t

shouldOverwrite(nodes, n, rule, policy) ==
    \/ policy = "ALWAYS"
    \/ policy = "ASSUME_ONLY" /\ isAssumption(nodes, n) /\ rule # "ASSUME"

(* The proofs of the premises q, in their order: assumptions are made of   *)
(* the ones without a proof, or, with ensureChildren, ok is false.         *)
PremiseProofs(t, k, q, ensure) ==
    LET With(a, g) == [t |-> g.t, ns |-> Append(a.ns, g.n), ok |-> g.n # NoNode]
        Get(a, f) ==
            IF ~a.ok THEN a
            ELSE With(a, IF ensure THEN getProofSymm(a.t, k, f)
                         ELSE getProofOrAssume(a.t, k, f))
    IN  FoldLeft(Get, [t |-> t, ns |-> <<>>, ok |-> TRUE], q)

addStep(t, k, f, rule, q, ensure, policy) ==
    LET Write(u, n, nd) ==
            IF n = NoNode THEN Inserted(mkNode(u, nd), k, f).t
            ELSE updateNode(u, nd, n)
        Apply(n, c) ==
            IF ~c.ok \/ (rule = "SYMM" /\ isAssumption(c.t.nodes, c.ns[1])) THEN c.t
            ELSE notifyNewProof(Write(c.t, n, Node(f, rule, q, c.ns)), k, f)
        Replace(prev) ==
            IF /\ prev.n # NoNode
               /\ ~shouldOverwrite(prev.t.nodes, prev.n, rule, policy)
            THEN prev.t
            ELSE Apply(prev.n, PremiseProofs(prev.t, k, q, ensure))
    IN  Replace(getProofSymm(t, k, f))

(* Faulty: a proof there was is replaced whatever it is.                   *)
addProofSharedAlways(t, k, n, policy) ==
    LET Replace(cur, f, pn) ==
            IF cur.n = NoNode THEN insert(cur.t, k, f, pn)
            ELSE updateNode(cur.t, cur.t.nodes[pn], cur.n)
        Add(f, pn) == notifyNewProof(Replace(getProofSymm(t, k, f), f, pn), k, f)
        Stripped(pn) == Add(t.nodes[pn].fact, pn)
    IN  Stripped(StripSymm(t.nodes, n))

(* addProof without a copy: the proof itself is stored, or the top of it   *)
(* replaces the proof there was.                                           *)
addProofShared(t, k, n, policy) ==
    LET Replace(cur, f, pn) ==
            IF cur.n = NoNode THEN insert(cur.t, k, f, pn)
            ELSE IF shouldOverwrite(cur.t.nodes, cur.n, t.nodes[pn].rule, policy)
            THEN updateNode(cur.t, cur.t.nodes[pn], cur.n)
            ELSE cur.t
        Add(f, pn) == notifyNewProof(Replace(getProofSymm(t, k, f), f, pn), k, f)
        Stripped(pn) == Add(t.nodes[pn].fact, pn)
    IN  Stripped(StripSymm(t.nodes, n))

(* addProof with a copy: addStep for each node of the proof, children      *)
(* first, the last one first of all.                                       *)
addProofCopied(t, k, n, policy) ==
    LET post[m \in DOMAIN t.nodes] ==
            FlattenSeq(Reverse([i \in DOMAIN t.nodes[m].children |->
                                   post[t.nodes[m].children[i]]])) \o <<m>>
        Add(u, m) ==
            LET nd == u.nodes[m]
            IN  addStep(u, k, nd.fact, nd.rule, Results(u.nodes, nd.children),
                        TRUE, policy)
        Distinct(r, m) == IF Contains(r, m) THEN r ELSE Append(r, m)
    IN  FoldLeft(Add, t, FoldLeft(Distinct, <<>>, post[n]))

-----------------------------------------------------------------------------
(* LazyCDProof.                                                            *)

isOwned(t, k, n) == getProof(t, k, t.nodes[n].fact) = n

(* getGeneratorFor: what it is and the fact it is asked for.               *)
getGeneratorFor(t, k, f) ==
    LET g == Top(t, k).gens
    IN  IF g[f] # "none" THEN <<g[f], f>>
        ELSE IF Symm[f] # NoFact /\ g[Symm[f]] # "none"
        THEN <<g[Symm[f]], Symm[f]>>
        ELSE <<IF k = "q" THEN "p" ELSE "none", f>>

(* The nodes of the proof n that getProofFor comes by: not below ones it   *)
(* has seen before, or does not own.                                       *)
Visit(t, k, n) ==
    LET seen == Top(t, k).visited
        Below(m) == IF isOwned(t, k, m) THEN Children(t.nodes, m) ELSE {}
        reach[R \in SUBSET DOMAIN t.nodes] ==
            LET more == R \cup ((UNION {Below(m) : m \in R}) \ seen)
            IN  IF more = R THEN R ELSE reach[more]
    IN  reach[{n} \ seen]

(* Faulty: the proof of the symmetric fact is taken for the fact.          *)
FillNotSymm(t, n, g) == updateNode(t, t.nodes[g], n)

(* The assumption n gets the proof g of its fact or of the symmetric one.  *)
Fill(t, n, g) ==
    LET f == t.nodes[n].fact
    IN  IF t.nodes[g].fact = f THEN updateNodeBy(t, n, g)
        ELSE IF t.nodes[g].rule = "SYMM"
        THEN updateNodeBy(t, n, t.nodes[g].children[1])
        ELSE updateNode(t, SymmOf(f, g), n)

(* BufferedProofGenerator::getProofFor                                     *)
GeneratedStep(t, f) ==
    LET u == addStep([t EXCEPT !.g = <<NewLevel>>],
                     "g", f, "STEP", Premises[f], FALSE, "ASSUME_ONLY")
    IN  getProofOrAssume(u, "g", f)

(* AssumptionProofGenerator                                                *)
GeneratedAssume(t, f) == mkNode(t, Assume(f))

(* getProofFor, up to the loop over the open assumptions: open are those   *)
(* it has not come by before and may overwrite.                            *)
StartProof(t, k, f) ==
    LET Open(u, visit) == {n \in visit : /\ isOwned(u, k, n)
                                         /\ u.nodes[n].rule = "ASSUME"}
        Traverse(b, visit) ==
            [t |-> [b.t EXCEPT ![k][Len(t[k])].visited = @ \cup visit],
             n |-> b.n, open |-> Open(b.t, visit)]
        Start(b) ==
            IF k = "p" /\ Range(Top(t, k).gens) = {"none"}
            THEN [t |-> b.t, n |-> b.n, open |-> {}]
            ELSE Traverse(b, Visit(b.t, k, b.n))
    IN  Start(getProofOrAssume(t, k, f))

Filled(a, n) == Fill(a.t, n, a.n)

AskGenerator(t, g) ==
    IF g[1] = "step" THEN GeneratedStep(t, g[2]) ELSE GeneratedAssume(t, g[2])

(* getProofFor of d_proof, whose generators are the ones it was given.     *)
getProofForP(t, f) ==
    LET Ask(n, u, g) == IF g[1] = "none" THEN u ELSE Filled(AskGenerator(u, g), n)
        FillNext(n, u) == Ask(n, u, getGeneratorFor(u, "p", u.nodes[n].fact))
        FillAll(b) == [t |-> FoldSet(FillNext, b.t, b.open), n |-> b.n]
    IN  FillAll(StartProof(t, "p", f))

(* getProofFor of the proof of a lemma, whose default generator is p.      *)
getProofForQ(t, f) ==
    LET Ask(n, u, g) == Filled(IF g[1] = "p" THEN getProofForP(u, g[2])
                               ELSE AskGenerator(u, g), n)
        FillNext(n, u) == Ask(n, u, getGeneratorFor(u, "q", u.nodes[n].fact))
        FillAll(b) == [t |-> FoldSet(FillNext, b.t, b.open), n |-> b.n]
    IN  FillAll(StartProof(t, "q", f))

-----------------------------------------------------------------------------
(* ProofNodeManager::mkScope, with ensureClosed and doMinimize.            *)

(* The proof n under a scope with the assumptions S, each free assumption  *)
(* a connected to the assumption that Match(a) is; acr has one of S for    *)
(* each rewritten form.                                                    *)
mkScope(t, n, S, acr) ==
    LET leaves == Assumed(t.nodes, n)
        free == {t.nodes[m].fact : m \in leaves}
        UpdateAll(u, a, nd) ==
            [u EXCEPT !.nodes = [m \in DOMAIN @ |->
                IF m \in leaves /\ t.nodes[m].fact = a THEN nd ELSE @[m]]]
        Match(a) == IF a \in S THEN a
                    ELSE IF Symm[a] \in S THEN Symm[a]
                    ELSE IF Rewrite[a] = NoFact THEN a
                    ELSE acr[Rewrite[a]]
        Connect(a, u) ==
            LET c == Match(a)
                v == mkNode(u, Assume(c))
                rule == IF c = Symm[a] THEN "SYMM" ELSE "MACRO_SR_PRED_TRANSFORM"
            IN  IF c = a
                THEN UpdateAll(u, a, Node(a, "MACRO_SR_PRED_INTRO", <<>>, <<>>))
                ELSE UpdateAll(v.t, a, Node(a, rule, <<c>>, <<v.n>>))
        acu == {Match(a) : a \in free}
    IN  [t |-> FoldSet(Connect, t, free \ S),
         assumps |-> IF Cardinality(acu) < Cardinality(S) THEN acu ELSE S]

(* What mkScope makes of the proof n: its assumptions are the explanation, *)
(* some of the literals that were asserted, and noExplain, and they have a *)
(* match for every free assumption.                                        *)
Scopes(t, n, noExplain) ==
    LET free == FreeAssumptions(t.nodes, n)
        Rewritten(S) == {Rewrite[c] : c \in S}
        Covers(S) == \A a \in free : \/ a \in S \/ Symm[a] \in S
                                     \/ Rewrite[a] = NoFact
                                     \/ Rewrite[a] \in Rewritten(S)
        Originals(S) == {acr \in [Rewritten(S) -> S] :
                            \A r \in Rewritten(S) : Rewrite[acr[r]] = r}
    IN  UNION {{mkScope(t, n, S, acr) : acr \in Originals(S)} :
                   S \in {S \in {noExplain \cup L : L \in SUBSET Literals} : Covers(S)}}

-----------------------------------------------------------------------------
(* What the client does.                                                   *)

Becomes(t, l) ==
    /\ s' = Collected(t, l)
    /\ lemmas' = l
    /\ Cardinality(DOMAIN s'.nodes) <= MaxNodes

AddStep(e, ensure, policy) ==
    /\ Becomes(addStep(s, "p", e[1], "STEP", e[2], ensure, policy), lemmas)
    /\ UNCHANGED linked

AddSymmStep(f) ==
    /\ Symm[f] # NoFact
    /\ Becomes(addStep(s, "p", f, "SYMM", <<Symm[f]>>, FALSE, "ASSUME_ONLY"),
               lemmas)
    /\ UNCHANGED linked

(* BasicRewriteRCons::ensureProofForTheoryRewrite                          *)
ForceRewrite(f) ==
    /\ Becomes(addStep(s, "p", f, "THEORY_REWRITE", <<>>, FALSE, "ALWAYS"), lemmas)
    /\ UNCHANGED linked

GetProofFor(f) ==
    /\ Becomes(getProofForP(s, f).t, lemmas)
    /\ UNCHANGED linked

(* ProofGenerator::addProofTo, of a proof of f, or of the symmetric fact   *)
(* by way of f.                                                            *)
AddProof(f, flipped, copied) ==
    /\ flipped => Symm[f] # NoFact
    /\ LET Flipped(g) == IF flipped THEN mkSymm(g.t, g.n, Symm[f]) ELSE g
           Added(g) == IF copied THEN addProofCopied(g.t, "p", g.n, "ASSUME_ONLY")
                       ELSE addProofShared(g.t, "p", g.n, "ASSUME_ONLY")
       IN  Becomes(Added(Flipped(GeneratedStep(s, f))), lemmas)
    /\ linked' = (linked /\ copied)

(* ProofEqEngine::assertFact, of a fact that does not hold yet, and        *)
(* LazyCDProof::addLazyStep, without forceOverwrite.                       *)
AssertFact(f) ==
    /\ Top(s, "p").gens[f] = "none"
    /\ Symm[f] # NoFact => Top(s, "p").gens[Symm[f]] = "none"
    /\ Cardinality({c \in Fact : Top(s, "p").gens[c] # "none"}) < MaxGenerators
    /\ s' = [s EXCEPT !.p[Len(s.p)].gens[f] = "step"]
    /\ linked' = FALSE
    /\ UNCHANGED lemmas

Push ==
    /\ Len(s.p) <= MaxLevel
    /\ s' = [s EXCEPT !.p = Append(@, Top(s, "p"))]
    /\ UNCHANGED <<lemmas, linked>>

Pop ==
    /\ Len(s.p) > 1
    /\ Becomes([s EXCEPT !.p = Front(@)], lemmas)
    /\ linked' = FALSE

(* The proof n is closed and given to the outside; q has served.           *)
Conclude(f, noExplain, t, n) ==
    \E sc \in Scopes(t, n, noExplain) :
        Becomes(sc.t, Append(lemmas,
                             [body |-> n, assumps |-> sc.assumps, conc |-> f]))

(* The proof of the lemma in q: its step, with proofs from p for all       *)
(* premises but the ones in noExplain.                                     *)
LemmaProof(e, noExplain) ==
    LET q == [s EXCEPT !.q[1].gens = [f \in Fact |-> IF f \in noExplain
                                                     THEN "assume" ELSE "none"]]
        outer == addStep(q, "q", e[1], "STEP", e[2], FALSE, "ASSUME_ONLY")
    IN  getProofForQ(outer, e[1])

(* Faulty: the proof is not cloned.                                        *)
AssertLemmaShared(e, noExplain) ==
    /\ Len(lemmas) < MaxLemmas
    /\ LET pf == LemmaProof(e, noExplain) IN Conclude(e[1], noExplain, pf.t, pf.n)
    /\ UNCHANGED linked

(* ProofEqEngine::assertLemma, ensureProofForFact                          *)
AssertLemma(e, noExplain) ==
    /\ Len(lemmas) < MaxLemmas
    /\ \E pf \in {LemmaProof(e, noExplain)} : \E c \in {CloneOf(pf.t, pf.n, Len(lemmas) + 1)} :
          Conclude(e[1], noExplain, c.t, c.n)
    /\ UNCHANGED linked

Next ==
    \/ \E e \in Steps :
          \/ AddStep(e, FALSE, "ASSUME_ONLY")
          \/ AddStep(e, TRUE, "ASSUME_ONLY")
          \/ AddStep(e, FALSE, "NEVER")
          \/ \E noExplain \in SUBSET Range(e[2]) : AssertLemma(e, noExplain)
    \/ \E f \in Fact : AddSymmStep(f)
    \/ \E f \in Queries : GetProofFor(f)
    \/ \E f \in Rewrites : ForceRewrite(f)
    \/ \E f \in DOMAIN Premises :
          \/ \E flipped, copied \in BOOLEAN : AddProof(f, flipped, copied)
          \/ AssertFact(f)
    \/ Push
    \/ Pop

Spec == Init /\ [][Next]_vars

-----------------------------------------------------------------------------
(* Every pointer to a proof node is to one that exists, and every store    *)
(* and lemma has the fields of its class (proof.h, lazy_proof.h).          *)
TypeOK ==
    /\ \A n \in DOMAIN s.nodes : /\ n \in Id
                                 /\ s.nodes[n] \in ProofNode
                                 /\ Children(s.nodes, n) \subseteq DOMAIN s.nodes
    /\ \A k \in Store : s[k] \in Seq(Level)
    /\ Roots(s, lemmas) \subseteq DOMAIN s.nodes
    /\ lemmas \in Seq(Lemma)
    /\ linked \in BOOLEAN

(* No proof has itself as a subproof, although assumptions are overwritten *)
(* in place and symmetric facts point to each other: the case that         *)
(* cancelDoubleSymm, clone and addProof take to be unreachable, and that   *)
(* updateNodeInternal only looks for with --proof-check=eager.             *)
Acyclic ==
    \A n \in DOMAIN s.nodes : n \notin Subproofs(s.nodes, Children(s.nodes, n))

(* Each step is one the client or a generator gave, applied to proofs of   *)
(* exactly its premises, what a store has for a fact proves that fact, and *)
(* a lemma that was given out proves its conclusion: updateNode replaces   *)
(* rules and children without checking them.                               *)
StepsSound ==
    /\ TypeOK
    /\ \A n \in DOMAIN s.nodes :
          LET v == s.nodes[n]
          IN  /\ v.premises = Results(s.nodes, v.children)
              /\ v.rule = "STEP" =>
                    \/ <<v.fact, v.premises>> \in Steps
                    \/ v.fact \in DOMAIN Premises /\ v.premises = Premises[v.fact]
              /\ v.rule = "SYMM" => v.premises = <<Symm[v.fact]>>
              /\ v.rule = "MACRO_SR_PRED_TRANSFORM" =>
                    /\ Len(v.premises) = 1
                    /\ Rewrite[v.premises[1]] = Rewrite[v.fact]
              /\ v.rule = "MACRO_SR_PRED_INTRO" => Rewrite[v.fact] = NoFact
    /\ \A k \in Store : \A i \in DOMAIN s[k] : \A f \in Fact :
          LET n == s[k][i].map[f] IN n # NoNode => s.nodes[n].fact = f
    /\ \A i \in DOMAIN lemmas : s.nodes[lemmas[i].body].fact = lemmas[i].conc

(* The order of addStep calls does not matter (class comment of CDProof):  *)
(* no proof of p has an open assumption for which p has got a step, in     *)
(* one orientation or the other.                                           *)
Connected ==
    linked =>
        \A f \in Fact :
            LET n == getProof(s, "p", f)
                HasStep(a) == /\ getProof(s, "p", a) # NoNode
                              /\ ~isAssumption(s.nodes, getProof(s, "p", a))
            IN  n # NoNode => \A a \in FreeAssumptions(s.nodes, n) :
                    ~HasStep(a) /\ (Symm[a] # NoFact => ~HasStep(Symm[a]))

(* What ensureProofForFact gave to the outside stays closed, whatever is   *)
(* done later to the proofs it was made from, pops included.               *)
LemmasStayClosed ==
    \A i \in DOMAIN lemmas :
        FreeAssumptions(s.nodes, lemmas[i].body) \subseteq lemmas[i].assumps

(* A step once added is not lost: what is overwritten in place was an      *)
(* assumption, but for steps that are forced (CDPOverwrite::ALWAYS).       *)
StepsKept ==
    [][\A n \in DOMAIN s.nodes \cap DOMAIN s'.nodes :
          \/ s'.nodes[n] = s.nodes[n]
          \/ isAssumption(s.nodes, n)
          \/ s'.nodes[n].rule = "THEORY_REWRITE"]_vars

=============================================================================
