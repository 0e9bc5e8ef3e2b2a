-------------------------- MODULE CdcltPropagator --------------------------
(***************************************************************************)
(* The bridge between the SAT solver CaDiCaL and the theories of cvc5:     *)
(* CadicalPropagator with the parts of CadicalSolver, TheoryProxy,         *)
(* TheoryPreregistrar and CnfStream that it drives                         *)
(* (src/cvc5/src/prop).                                                    *)
(*                                                                         *)
(* CaDiCaL searches and calls back: it reports assignments, decision       *)
(* levels and backtracks, asks for propagations, reasons, clauses and      *)
(* decisions, and submits models.  cvc5 pushes and pops user levels        *)
(* between two searches.  CaDiCaL never forgets a clause, so the clauses   *)
(* of a user level carry its activation literal, which is assumed false    *)
(* while the level is open and made true when it is popped.                *)
(*                                                                         *)
(* The sign of a literal is left out: a literal is its variable.  CaDiCaL  *)
(* and the theories are external; they may do whatever the calls of cvc5   *)
(* allow.  The SAT context is a stack of snapshots, which is what module   *)
(* Context establishes.  A CDQueue with the part of it already dequeued is *)
(* a pair of sets in each snapshot (module CDQueue).                       *)
(***************************************************************************)
EXTENDS Integers, Sequences, FiniteSets, Functions

CONSTANTS
    Atomic,         (* whether formulas have theory atoms (TRUE), Boolean  *)
                    (* variables (FALSE) or both                           *)
    MaxLiterals,    (* bound: SAT variables ever made for formulas         *)
    MaxPushes,      (* bound: activation literals ever made                *)
    MaxUserLevels,  (* bound: open user levels                             *)
    MaxDecisions,   (* bound: decision levels of CaDiCaL                   *)
    MaxPending,     (* bound: lemmas waiting in d_new_clauses              *)
    FixAnywhere     (* whether CaDiCaL may fix variables while decision    *)
                    (* levels are open, also ones that have a value        *)

ASSUME BoundsAssumption ==
    /\ Atomic \subseteq BOOLEAN
    /\ MaxLiterals \in Nat
    /\ MaxPushes \in Nat
    /\ MaxUserLevels \in Nat
    /\ MaxDecisions \in Nat
    /\ MaxPending \in Nat
    /\ FixAnywhere \in BOOLEAN

VARIABLES
    s,      (* the propagator, the proxy and the SAT context: see State    *)
    cad,    (* CaDiCaL: see Cadical                                        *)
    pc      (* "idle", "search", or "sat" while a model is at hand         *)

vars == <<s, cad, pc>>

Var == 1..(MaxLiterals + MaxPushes)
NoVar == 0
Unassigned == -1

(* VarInfo: level_intro, level_fixed, assignment # 0, is_theory_atom,      *)
(* is_fixed, is_active.                                                    *)
VarInfo == [intro : Nat, fixedAt : Nat, assigned : BOOLEAN, atom : BOOLEAN,
            fixed : BOOLEAN, active : BOOLEAN]

(* A clause and the activation literal that guards it, or NoVar.           *)
Clause == [vars : SUBSET Var, act : Var \cup {NoVar}]

(* The clause (1 or -1), which the solver drops at once.                   *)
Tautology == [vars |-> {}, act |-> NoVar]

(* One level of the SAT context: the literals of TheoryProxy::d_queue, the *)
(* ones the theories have got, the atoms preregistered with the theories.  *)
Snapshot == [queue : SUBSET Var, seen : SUBSET Var, prereg : SUBSET Var]

(* info          d_var_info                                                *)
(* active        d_active_vars                                             *)
(* activeControl d_active_vars_control                                     *)
(* acts          d_activation_literals                                     *)
(* pushes        how many activation literals were ever made (a bound)     *)
(* renotify      d_renotify_fixed                                          *)
(* assignments   d_assignments                                             *)
(* control       d_assignment_control                                      *)
(* decisions     d_decisions                                               *)
(* propagations  d_propagations, each with the context level it is of      *)
(* newClauses    d_new_clauses                                             *)
(* found         d_found_solution                                          *)
(* ctx           the SAT context, outermost level first                    *)
(* satLiterals   TheoryPreregistrar::d_sat_literals: atom, context level   *)
(* root          active variables of the clauses that CaDiCaL got without  *)
(*               an activation literal                                     *)
(* asserts       no Assert of the code has failed                          *)
State ==
    [info : Seq(VarInfo), active : Seq(Var), activeControl : Seq(Nat),
     acts : Seq(Var), pushes : Nat, renotify : Seq(Var), assignments : Seq(Var),
     control : Seq(Nat), decisions : Seq(Var \cup {NoVar}),
     propagations : Seq(Var \X Nat), newClauses : Seq(Clause),
     found : BOOLEAN, ctx : Seq(Snapshot), satLiterals : Seq(Var \X Nat),
     root : SUBSET Var, asserts : BOOLEAN]

(* level    decision level of CaDiCaL                                      *)
(* val      the level each variable is assigned at, or Unassigned          *)
(* ignored  variables whose assignment cvc5 was told of and did not record *)
Cadical == [level : Nat, val : Seq(Nat \cup {Unassigned}),
            ignored : SUBSET Var]

Init ==
    /\ s = [info |-> <<>>, active |-> <<>>, activeControl |-> <<>>,
            acts |-> <<>>, pushes |-> 0, renotify |-> <<>>, assignments |-> <<>>,
            control |-> <<>>, decisions |-> <<>>, propagations |-> <<>>,
            newClauses |-> <<>>, found |-> FALSE,
            ctx |-> <<[queue |-> {}, seen |-> {}, prereg |-> {}]>>,
            satLiterals |-> <<>>, root |-> {}, asserts |-> TRUE]
    /\ cad = [level |-> 0, val |-> <<>>, ignored |-> {}]
    /\ pc = "idle"

UserLevel(t) == Len(t.activeControl)
Vars(t) == DOMAIN t.info
Active(t) == {v \in Vars(t) : t.info[v].active}
CtxLevel(t) == Len(t.ctx)
Top(t) == t.ctx[Len(t.ctx)]
Upto(q, n) == SubSeq(q, 1, n)
After(q, n) == SubSeq(q, n + 1, Len(q))

(* The elements of q that are in S, in their order.                        *)
Only(q, S) ==
    LET upTo[i \in 0 .. Len(q)] ==
            IF i = 0 THEN <<>>
            ELSE IF q[i] \in S THEN Append(upTo[i - 1], q[i]) ELSE upTo[i - 1]
    IN  upTo[Len(q)]

(* current_activation_lit                                                  *)
CurrentAct(t) == IF t.acts = <<>> THEN NoVar ELSE t.acts[Len(t.acts)]

-----------------------------------------------------------------------------
(* The theory proxy.                                                       *)

PushCtx(t) == [t EXCEPT !.ctx = Append(@, Top(t))]
(* Faulty: the queue of the proxy is not context dependent.                *)
PopCtxKeepsQueue(t, n) ==
    LET q == Upto(t.ctx, Len(t.ctx) - n)
    IN  [t EXCEPT !.ctx = [q EXCEPT ![Len(q)].queue = Top(t).queue]]

PopCtx(t, n) == [t EXCEPT !.ctx = Upto(@, Len(@) - n)]

(* enqueueTheoryLiteral: CnfStream::getNode asserts that the literal has a *)
(* node, in a map of the user context.                                     *)
enqueueTheoryLiteral(t, v) ==
    [t EXCEPT !.ctx[CtxLevel(t)].queue = @ \cup {v},
              !.asserts = @ /\ t.info[v].active]

(* CadicalPropagator::add_new_var.                                         *)
add_new_var(t, atom) ==
    [t EXCEPT !.info = Append(@, [intro |-> UserLevel(t), fixedAt |-> 0,
                                  assigned |-> FALSE, atom |-> atom,
                                  fixed |-> FALSE, active |-> TRUE]),
              !.active = Append(@, Len(t.info) + 1)]

(* TheoryPreregistrar::notifySatLiteral, eager mode.                       *)
notifySatLiteral(t, v) ==
    [t EXCEPT !.ctx[CtxLevel(t)].prereg = @ \cup {v},
              !.satLiterals = Append(@, <<v, CtxLevel(t)>>)]

(* CnfStream::newLiteral, for an atom or a Boolean variable.               *)
newLiteral(t, atom) ==
    LET n == add_new_var(t, atom)
    IN  IF atom THEN notifySatLiteral(n, Len(n.info)) ELSE n

(* Faulty: a literal that is registered again is forgotten.                *)
reregisterOnce(t) ==
    LET l == CtxLevel(t)
        kept == {i \in DOMAIN t.satLiterals : t.satLiterals[i][2] <= l}
        last == IF kept = {} THEN 0
                ELSE CHOOSE i \in kept : \A j \in kept : j <= i
        again == After(t.satLiterals, last)
    IN  [t EXCEPT !.satLiterals = Upto(@, last),
                  !.ctx[l].prereg = @ \cup {e[1] : e \in Range(again)}]

(* TheoryPreregistrar::notifyBacktrack: from the newest literal on, until  *)
(* one was registered at the present level or below.                       *)
reregister(t) ==
    LET l == CtxLevel(t)
        kept == {i \in DOMAIN t.satLiterals : t.satLiterals[i][2] <= l}
        last == IF kept = {} THEN 0
                ELSE CHOOSE i \in kept : \A j \in kept : j <= i
        again == After(t.satLiterals, last)
    IN  [t EXCEPT !.satLiterals =
                      Upto(@, last) \o [i \in DOMAIN again |-> <<again[i][1], l>>],
                  !.ctx[l].prereg = @ \cup {e[1] : e \in Range(again)}]

(* theoryCheck: the theories get everything that is queued.                *)
theoryCheck(t) == [t EXCEPT !.ctx[CtxLevel(t)].seen = Top(t).queue]

-----------------------------------------------------------------------------
(* Clauses.                                                                *)

(* d_solver.add: a clause reaches the SAT solver.                          *)
ToSolver(t, c) ==
    IF c.act = NoVar THEN [t EXCEPT !.root = @ \cup c.vars] ELSE t

(* Faulty: the activation literal of the outermost level.                  *)
add_clauseOutermost(t, c, satisfied, search) ==
    LET cl == [vars |-> c, act |-> IF t.acts = <<>> THEN NoVar ELSE t.acts[1]]
    IN  IF satisfied /\ \E v \in c : t.info[v].fixed THEN t
        ELSE IF search THEN [t EXCEPT !.newClauses = Append(@, cl)]
        ELSE ToSolver(t, cl)

(* A clause may be satisfied by a fixed literal in it, and then is not     *)
(* added.  During the search it is buffered.                               *)
add_clause(t, c, satisfied, search) ==
    LET a == [t EXCEPT !.asserts =
                  @ /\ \A v \in c : /\ t.info[v].active
                                    /\ t.info[v].fixed => t.info[v].assigned]
        cl == [vars |-> c, act |-> CurrentAct(t)]
    IN  IF satisfied /\ \E v \in c : t.info[v].fixed /\ t.info[v].assigned THEN a
        ELSE IF search THEN [a EXCEPT !.newClauses = Append(@, cl)]
        ELSE ToSolver(a, cl)

-----------------------------------------------------------------------------
(* Notifications of CaDiCaL.                                               *)

(* notify_assignment, of one literal.                                      *)
notify_assignment(t, v, isDecision) ==
    IF t.found \/ ~t.info[v].active THEN t
    ELSE LET d == IF isDecision
                  THEN [t EXCEPT !.decisions[Len(t.decisions)] = v] ELSE t
             r == [d EXCEPT !.info[v].assigned = TRUE,
                            !.assignments = Append(@, v)]
         IN  IF t.info[v].assigned THEN d
             ELSE IF t.info[v].atom THEN enqueueTheoryLiteral(r, v) ELSE r

(* Faulty: the variable is not marked as fixed.                            *)
notify_fixed_assignmentUnmarked(t, v) ==
    IF ~t.info[v].active THEN t
    ELSE notify_assignment([t EXCEPT !.info[v].fixedAt = UserLevel(t)], v, FALSE)

notify_fixed_assignment(t, v) ==
    IF ~t.info[v].active THEN t
    ELSE notify_assignment([t EXCEPT !.info[v].fixed = TRUE,
                                     !.info[v].fixedAt = UserLevel(t),
                                     !.asserts = @ /\ ~t.info[v].fixed],
                           v, FALSE)

(* Faulty: the context is not pushed.                                      *)
notify_new_decision_levelNoPush(t) ==
    [t EXCEPT !.control = Append(@, Len(t.assignments)),
              !.decisions = Append(@, NoVar)]

notify_new_decision_level(t) ==
    [PushCtx(t) EXCEPT !.control = Append(@, Len(t.assignments)),
                       !.decisions = Append(@, NoVar)]

(* Faulty: variables keep their values.                                    *)
UndoneKeepsValues(t, level) ==
    [PopCtx(t, Len(t.decisions) - level) EXCEPT
        !.decisions = Upto(@, level),
        !.assignments = Upto(@, t.control[level + 1]),
        !.control = Upto(@, level)]

(* Contexts, decisions and assignments above the level are undone.         *)
Undone(t, level) ==
    LET popTo == t.control[level + 1]
        undone == Range(After(t.assignments, popTo))
    IN  [PopCtx(t, Len(t.decisions) - level) EXCEPT
            !.decisions = Upto(@, level),
            !.control = Upto(@, level),
            !.assignments = Upto(@, popTo),
            !.info = [v \in DOMAIN @ |->
                         IF v \in undone THEN [@[v] EXCEPT !.assigned = FALSE]
                         ELSE @[v]],
            !.asserts = @ /\ CtxLevel(t) > level]

(* Faulty: d_found_solution is not reset.                                  *)
notify_backtrackKeepsFound(t, level) ==
    IF Len(t.decisions) <= level THEN t
    ELSE [reregister(Undone(t, level)) EXCEPT !.propagations = <<>>]

(* Backtracks that cvc5 has made already are ignored.                      *)
notify_backtrack(t, level) ==
    IF Len(t.decisions) <= level
    THEN [t EXCEPT !.asserts = @ /\ t.decisions = <<>>]
    ELSE [reregister(Undone(t, level)) EXCEPT !.found = FALSE,
                                              !.propagations = <<>>]

-----------------------------------------------------------------------------
(* User levels.                                                            *)

(* CadicalSolver::push: the activation literal is of the new level.        *)
push(t) ==
    LET u == [PushCtx(t) EXCEPT !.activeControl = Append(@, Len(t.active))]
        n == add_new_var(u, FALSE)
    IN  [n EXCEPT !.acts = Append(@, Len(n.info)), !.pushes = @ + 1]

(* user_pop: the variables of the level become inactive, and literals that *)
(* were fixed above the new level are kept for the next solve call.        *)
user_pop(t) ==
    LET level == UserLevel(t) - 1
        popTo == t.activeControl[Len(t.activeControl)]
        popped == After(t.active, popTo)
        kept == {v \in Range(popped) : /\ t.info[v].fixed
                                       /\ t.info[v].atom
                                       /\ t.info[v].intro <= level}
        gone == Range(popped) \ kept
        left == Only(t.assignments, Active(t) \ gone)
        late == {v \in Range(left) : t.info[v].atom /\ t.info[v].fixedAt > level}
    IN  [t EXCEPT
            !.root = @ \ gone,
            !.activeControl = Upto(@, level),
            !.acts = Upto(@, level),
            !.active = Upto(@, popTo) \o Only(popped, kept),
            !.info = [v \in DOMAIN @ |->
                         IF v \in gone THEN [@[v] EXCEPT !.active = FALSE]
                         ELSE @[v]],
            !.assignments = left,
            !.renotify = @ \o Only(left, late),
            !.asserts = /\ @
                        /\ \A v \in gone : t.info[v].intro > level
                        /\ t.decisions = <<>> /\ t.control = <<>>
                        /\ \A v \in Range(t.assignments) : t.info[v].fixed]

(* ContextManager::doPendingPops: CadicalSolver::pop, then the pop of the  *)
(* user context, which clears d_sat_literals.                              *)
pop(t) == [user_pop(PopCtx(t, 1)) EXCEPT !.satLiterals = <<>>]

(* Faulty: level_fixed is left as it was.                                  *)
renotify_fixedOnce(t) ==
    [t EXCEPT !.ctx[CtxLevel(t)].queue = @ \cup Range(t.renotify),
              !.renotify = <<>>]

(* renotify_fixed, before each solve.                                      *)
renotify_fixed(t) ==
    LET again == Range(t.renotify)
    IN  [t EXCEPT !.ctx[CtxLevel(t)].queue = @ \cup again,
                  !.info = [v \in DOMAIN @ |->
                               IF v \in again
                               THEN [@[v] EXCEPT !.fixedAt = UserLevel(t)]
                               ELSE @[v]],
                  !.renotify = <<>>,
                  !.asserts = @ /\ \A v \in again : t.info[v].active]

-----------------------------------------------------------------------------
(* Callbacks of CaDiCaL.  What the theories answer is open: a lemma, on an *)
(* old or a new atom, or none, and literals to propagate.  What a clause   *)
(* does here it does for each of its variables, so one variable stands for *)
(* a clause.                                                               *)

Atoms(t) == {v \in Active(t) : t.info[v].atom}
Literals(t) == Active(t) \ Range(t.acts)
Bounded(t) ==
    LET taut == {i \in DOMAIN t.newClauses : t.newClauses[i] = Tautology}
    IN  /\ Cardinality(taut) <= 1
        /\ Len(t.newClauses) - Cardinality(taut) <= MaxPending
HasRoom(t) == Len(t.info) - t.pushes < MaxLiterals

(* The theory engine sends a lemma, or none.                               *)
Lemmas(t) ==
    {t} \cup (UNION {{add_clause(t, {v}, b, TRUE) : b \in BOOLEAN} : v \in Literals(t)})
        \cup IF HasRoom(t)
             THEN {add_clause(newLiteral(t, TRUE), {Len(t.info) + 1}, FALSE, TRUE)}
             ELSE {}

(* theory_propagate: the literals that the theories infer now, two at most *)
(* at a time.                                                              *)
Inferred(t) ==
    LET open == {<<v, CtxLevel(t)>> : v \in {a \in Atoms(t) : ~t.info[a].assigned}}
    IN  {<<>>} \cup {<<p>> : p \in open}
               \cup {<<p, q>> : p \in open, q \in open}

(* getNextDecisionRequest: a theory may make a new variable for it.        *)
Requests(t) == IF HasRoom(t) THEN {t, newLiteral(t, TRUE)} ELSE {t}

(* The propagations q become clauses.                                      *)
Explained(t, q) ==
    LET Explain(u, p) == add_clause(u, {p[1]}, FALSE, TRUE)
    IN  IF q = <<>> THEN t
        ELSE IF Len(q) = 1 THEN Explain(t, q[1])
        ELSE Explain(Explain(t, q[1]), q[2])

(* The full check.  CaDiCaL has read all propagations when it decides or   *)
(* submits a model, so the ones found now are the only ones.               *)
FullCheck(t) ==
    UNION {{Explained(u, q) : q \in Inferred(u)} : u \in Lemmas(theoryCheck(t))}

(* The states cb_check_found_model may end in, with what it returns.       *)
cb_check_found_model(t) ==
    LET Reject(u) == <<[u EXCEPT !.newClauses = Append(@, Tautology)], FALSE>>
        Result(u) == IF Len(u.info) # Len(t.info) THEN Reject(u)
                     ELSE <<u, u.newClauses = <<>> >>
    IN  IF t.found THEN {<<t, TRUE>>}
        ELSE IF t.newClauses # <<>> THEN {Reject(t)}
        ELSE {<<u, FALSE>> : u \in Requests(t) \ {t}}
             \cup {Result(u) : u \in FullCheck(t)}

(* cb_decide: the decision engine may ask for a check of the partial model *)
(* and, when the model is accepted, be done with it or ask on.             *)
cb_decide(t) ==
    IF t.found THEN {t}
    ELSE UNION {{r} \cup UNION {IF m[2]
                                THEN {[m[1] EXCEPT !.found = TRUE]} \cup Requests(m[1])
                                ELSE {m[1]} : m \in cb_check_found_model(r)} :
                r \in Requests(t)}

(* Faulty: the theories are asked before all activation literals are set.  *)
cb_propagateEarly(t) ==
    IF t.found THEN {t}
    ELSE IF t.propagations # <<>>
    THEN {[t EXCEPT !.propagations = Tail(@)]}
    ELSE UNION {{[u EXCEPT !.propagations = IF q = <<>> THEN q ELSE Tail(q)] :
                    q \in Inferred(u)} : u \in Lemmas(theoryCheck(t))}

(* cb_propagate, without the answer: what it leaves behind.                *)
cb_propagate(t) ==
    IF t.found THEN {t}
    ELSE IF t.propagations # <<>>
    THEN {[t EXCEPT !.propagations = Tail(@)]}
    ELSE IF Len(t.decisions) < UserLevel(t) THEN {t}
    ELSE UNION {{[u EXCEPT !.propagations = IF q = <<>> THEN q ELSE Tail(q)] :
                    q \in Inferred(u)} : u \in Lemmas(theoryCheck(t))}

(* cb_add_reason_clause_lit, until the reason of v is complete.            *)
cb_add_reason_clause(t, v) ==
    ToSolver(t, [vars |-> {v}, act |-> CurrentAct(t)])

-----------------------------------------------------------------------------
(* What CaDiCaL knows of new variables, and of a backtrack to level l.     *)
Extended(c, t) ==
    [c EXCEPT !.val = [v \in Vars(t) |-> IF v \in DOMAIN @ THEN @[v] ELSE Unassigned]]

Backtracked(c, l) ==
    LET val == [v \in DOMAIN c.val |->
                   IF c.val[v] > l THEN Unassigned ELSE c.val[v]]
    IN  [c EXCEPT !.level = l, !.val = val,
                  !.ignored = {v \in @ : val[v] # Unassigned}]

(* After the search the trail of CaDiCaL matters no more, but that it has  *)
(* one above level 0, and a backtrack to report.                           *)
Ended(c) == [Backtracked(c, 0) EXCEPT !.level = IF c.level > 0 THEN 1 ELSE 0]

Free(c, t) == {v \in Active(t) : c.val[v] = Unassigned}

(* CaDiCaL assigns v, as a decision or not, and reports it.                *)
Assigned(t, c, v, isDecision) ==
    /\ s' = notify_assignment(t, v, isDecision)
    /\ cad' = [c EXCEPT !.val[v] = c.level,
                        !.ignored = IF t.found THEN @ \cup {v} ELSE @]

-----------------------------------------------------------------------------
(* cvc5 between two searches.                                              *)

NewVar(atom) ==
    /\ pc = "idle"
    /\ HasRoom(s)
    /\ s' = newLiteral(s, atom)
    /\ cad' = Extended(cad, s')
    /\ UNCHANGED pc

AddClause(v, satisfied) ==
    /\ pc = "idle"
    /\ cad.level = 0
    /\ s' = add_clause(s, {v}, satisfied, FALSE)
    /\ UNCHANGED <<cad, pc>>

Push ==
    /\ pc = "idle"
    /\ s.pushes < MaxPushes
    /\ UserLevel(s) < MaxUserLevels
    /\ s' = push(s)
    /\ cad' = Extended(cad, s')
    /\ UNCHANGED pc

(* Variables that become inactive get a unit clause.                       *)
Pop ==
    /\ pc = "idle"
    /\ cad.level = 0
    /\ UserLevel(s) > 0
    /\ s' = pop(s)
    /\ cad' = [cad EXCEPT !.val = [v \in DOMAIN @ |->
                                      IF s'.info[v].active THEN @[v] ELSE 0]]
    /\ UNCHANGED pc

(* CadicalSolver::_solve, up to the call of CaDiCaL.                       *)
Solve ==
    /\ pc = "idle"
    /\ cad.level = 0
    /\ s' = renotify_fixed(s)
    /\ pc' = "search"
    /\ UNCHANGED cad

(* After a model, and queries about it, the driver resets the trail before *)
(* anything else happens.                                                  *)
ResetTrail ==
    /\ pc = "sat"
    /\ s' = notify_backtrack(s, 0)
    /\ cad' = Ended(cad)
    /\ pc' = "idle"

(* CaDiCaL reports its own backtrack when it is next used.                 *)
LateBacktrack ==
    /\ pc = "idle"
    /\ cad.level > 0
    /\ s' = notify_backtrack(s, 0)
    /\ cad' = Backtracked(cad, 0)
    /\ UNCHANGED pc

-----------------------------------------------------------------------------
(* CaDiCaL.                                                                *)

(* A variable is fixed only by clauses without an activation literal: the  *)
(* activation literals occur in clauses with one sign only.  What is fixed *)
(* has its value at level 0, whatever level CaDiCaL is at.                 *)
Fix(v) ==
    /\ pc \in {"idle", "search"}
    /\ cad.level = 0 \/ (FixAnywhere /\ pc = "search")
    /\ v \in Active(s)
    /\ cad.val[v] # 0
    /\ v \in s.root
    /\ s' = notify_fixed_assignment(s, v)
    /\ cad' = [cad EXCEPT !.val[v] = 0,
                          !.ignored = IF s.found /\ ~s.info[v].assigned
                                      THEN @ \cup {v} ELSE @]
    /\ UNCHANGED pc

(* A fixed literal is on the trail as well, and comes again with the       *)
(* regular notifications.                                                  *)
Report(v) ==
    /\ pc = "search"
    /\ v \in Active(s)
    /\ cad.val[v] = 0
    /\ s' = notify_assignment(s, v, FALSE)
    /\ cad' = [cad EXCEPT !.ignored = IF s.found THEN @ ELSE @ \ {v}]
    /\ UNCHANGED pc

(* The activation literals are assumed first, one decision level each.     *)
Assume ==
    /\ pc = "search"
    /\ cad.level < UserLevel(s)
    /\ LET t == notify_new_decision_level(s)
           c == [cad EXCEPT !.level = @ + 1]
           a == s.acts[c.level]
       IN  IF cad.val[a] = Unassigned THEN Assigned(t, c, a, TRUE)
           ELSE s' = t /\ cad' = c
    /\ UNCHANGED pc

(* CaDiCaL asks for a decision, and takes one.                             *)
Decide ==
    /\ pc = "search"
    /\ cad.level >= UserLevel(s)
    /\ cad.level < MaxDecisions
    /\ s.propagations = <<>>
    /\ Free(cad, s) # {}
    /\ \E t \in cb_decide(s) :
          LET c == [Extended(cad, t) EXCEPT !.level = @ + 1]
          IN  /\ Bounded(t)
              /\ \E v \in Free(c, t) :
                    Assigned(notify_new_decision_level(t), c, v, TRUE)
    /\ UNCHANGED pc

Propagate(v) ==
    /\ pc = "search"
    /\ cad.level > 0
    /\ v \in Free(cad, s)
    /\ Assigned(s, cad, v, FALSE)
    /\ UNCHANGED pc

Backtrack(l) ==
    /\ pc = "search"
    /\ l < cad.level
    /\ s' = notify_backtrack(s, l)
    /\ cad' = Backtracked(cad, l)
    /\ UNCHANGED pc

AskPropagation ==
    /\ pc = "search"
    /\ s' \in cb_propagate(s)
    /\ Bounded(s')
    /\ cad' = Extended(cad, s')
    /\ UNCHANGED pc

AskReason(v) ==
    /\ pc = "search"
    /\ v \in Atoms(s)
    /\ cad.val[v] > 0
    /\ s' = cb_add_reason_clause(s, v)
    /\ UNCHANGED <<cad, pc>>

(* One clause of d_new_clauses is read.                                    *)
AskClause ==
    /\ pc = "search"
    /\ s.newClauses # <<>>
    /\ s' = ToSolver([s EXCEPT !.newClauses = Tail(@)], Head(s.newClauses))
    /\ UNCHANGED <<cad, pc>>

(* All variables are assigned: the model is checked, and CaDiCaL answers   *)
(* or goes on.                                                             *)
FoundModel ==
    /\ pc = "search"
    /\ cad.level >= UserLevel(s)
    /\ s.propagations = <<>>
    /\ Free(cad, s) = {}
    /\ \E m \in cb_check_found_model(s) :
          /\ Bounded(m[1])
          /\ s' = [m[1] EXCEPT !.asserts = @ /\ (m[2] => m[1].newClauses = <<>>)]
          /\ pc' = IF m[2] THEN "sat" ELSE "search"
    /\ cad' = Extended(cad, s')

(* CaDiCaL answers unsat, or is interrupted, and the driver resets the     *)
(* trail.                                                                  *)
Stop ==
    /\ pc = "search"
    /\ s' = notify_backtrack(s, 0)
    /\ cad' = Ended(cad)
    /\ pc' = "idle"

Next ==
    \/ \E atom \in Atomic : NewVar(atom)
    \/ \E v \in Literals(s), b \in BOOLEAN : AddClause(v, b)
    \/ Push
    \/ Pop
    \/ Solve
    \/ ResetTrail
    \/ LateBacktrack
    \/ \E v \in Vars(s) : Fix(v) \/ Report(v) \/ Propagate(v) \/ AskReason(v)
    \/ Assume
    \/ Decide
    \/ \E l \in 0..MaxDecisions : Backtrack(l)
    \/ AskPropagation
    \/ AskClause
    \/ FoundModel
    \/ Stop

Spec == Init /\ [][Next]_vars

-----------------------------------------------------------------------------
(* Type correctness of the propagator, of CaDiCaL and of the search.       *)
TypeOK ==
    /\ s \in State
    /\ cad \in Cadical
    /\ pc \in {"idle", "search", "sat"}

(* No assertion of the propagator or of getNode fails, whatever the order  *)
(* of notifications, pushes and pops.                                      *)
AssertsHold == s.asserts

(* The stacks agree: context levels are user levels and decision levels,   *)
(* and during a search the decision levels are those of CaDiCaL.           *)
LevelsAgree ==
    /\ TypeOK
    /\ CtxLevel(s) = 1 + UserLevel(s) + Len(s.decisions)
    /\ Len(s.control) = Len(s.decisions)
    /\ Len(s.acts) = UserLevel(s)
    /\ pc = "idle" => s.decisions = <<>>
    /\ pc # "idle" => Len(s.decisions) = cad.level

(* What the theories are to know, they know: every atom is preregistered   *)
(* in the present context, also after the context it was made in is gone,  *)
(* and during a search every atom that is on record as assigned was sent   *)
(* in a context that is still open, but for fixed atoms: see FixedResent.  *)
TheoriesUpToDate ==
    /\ Atoms(s) \subseteq Top(s).prereg
    /\ pc # "idle" =>
          \A v \in Atoms(s) : s.info[v].assigned /\ ~s.info[v].fixed
                               => v \in Top(s).queue

(* During a search every fixed atom that cvc5 recorded has been sent, also *)
(* one that was backtracked, which notify_backtrack is to send again, and  *)
(* one fixed in a user level that is gone, which renotify_fixed sends.     *)
FixedResent ==
    pc # "idle" => \A v \in Atoms(s) \ cad.ignored :
                      s.info[v].fixed => v \in Top(s).queue

(* Nothing of a popped user level reaches the theories.                    *)
OnlyLiveLiterals ==
    Top(s).queue \cup Top(s).prereg \cup Range(s.renotify) \subseteq Active(s)

(* The record of assignments is the trail of CaDiCaL, but for literals     *)
(* assigned after a partial model was accepted.                            *)
TrailRecorded ==
    pc # "idle" =>
        /\ \A v \in Active(s) :
              s.info[v].assigned <=> cad.val[v] # Unassigned /\ v \notin cad.ignored
        /\ Range(s.assignments) = {v \in Active(s) : s.info[v].assigned}
        /\ \A i \in DOMAIN s.control :
              \A j \in DOMAIN s.assignments :
                 j <= s.control[i] <=> cad.val[s.assignments[j]] < i

(* When the answer is sat, or a partial model was accepted, the theories   *)
(* have got and accepted every atom that was sent to them in the present   *)
(* context, and every atom on record that is not fixed.  An accepted       *)
(* partial model is forgotten with the search it was found in, and with    *)
(* every backtrack: while it stands no clause and no propagation waits,    *)
(* and CaDiCaL only decides on.                                            *)
SatIsChecked ==
    /\ pc = "sat" \/ s.found =>
          \A v \in Atoms(s) :
             \/ v \in Top(s).queue
             \/ s.info[v].assigned /\ ~s.info[v].fixed
             => v \in Top(s).seen
    /\ s.found => /\ pc # "idle"
                  /\ s.newClauses = <<>> /\ s.propagations = <<>>
                  /\ s.decisions # <<>> /\ s.decisions[Len(s.decisions)] = NoVar

(* A clause of a user level ends with it.  What is fixed rests on level 0; *)
(* and a clause that waits in d_new_clauses while its level is popped (a   *)
(* search may end before CaDiCaL has read all clauses) is switched off: a  *)
(* popped activation literal satisfies it.                                 *)
PoppedLevelsInert ==
    /\ \A v \in Vars(s) : s.info[v].fixed => s.info[v].intro = 0
    /\ \A c \in Range(s.newClauses) :
          c.vars \subseteq Active(s) \/ c.act \notin Range(s.acts) \cup {NoVar}

(* A queued propagation was inferred in a context that is still open, also *)
(* when the search that asked for it stopped at decision level 0, where    *)
(* nothing clears the queue, and user levels were popped since.            *)
PropagationsCurrent ==
    \A p \in Range(s.propagations) : p[2] <= CtxLevel(s)

=============================================================================
