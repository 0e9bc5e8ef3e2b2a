---------------------------- MODULE SolverEngine ----------------------------
(***************************************************************************)
(* The incremental core of cvc5: SolverEngine, its SolverEngineState,      *)
(* ContextManager, SmtDriver (SmtDriverSingleCall), Assertions, and the    *)
(* part of SmtSolver and PropEngine that receives the assertions           *)
(* (src/cvc5/src/smt and src/cvc5/src/prop).                               *)
(*                                                                         *)
(* Assertions are kept twice: in a list of the user context, and, level by *)
(* level, in the SAT solver.  They travel from the first to the second     *)
(* late (at the next push or check), pops of assumption frames are         *)
(* deferred to the next call, and global definitions, which no pop may     *)
(* remove, are put back into the list each time the list is read.          *)
(*                                                                         *)
(* The lists and indices of the user context are saved and restored as     *)
(* snapshots, which is what modules Context and CDQueue establish.         *)
(* Preprocessing keeps the meaning of what it is given, and is left out.   *)
(***************************************************************************)
EXTENDS Integers, Sequences, Functions

CONSTANTS
    Formula,        (* what the user may assert or define in a frame       *)
    Definition,     (* what the user may define globally                   *)
    Assumption,     (* what the user may assume for one check              *)
    Status,         (* the results the user may announce with set-info     *)
    MaxUserLevels,  (* bound: open user frames                             *)
    MaxList,        (* bound: entries of the assertion list                *)
    MaxGlobals      (* bound: global definitions made                      *)

ASSUME SetsAssumption ==
    /\ Formula \cap Definition = {}
    /\ Formula \cap Assumption = {}
    /\ Definition \cap Assumption = {}

ASSUME BoundsAssumption ==
    /\ Status \subseteq {"sat", "unsat", "unknown"}
    /\ MaxUserLevels \in Nat
    /\ MaxList \in Nat
    /\ MaxGlobals \in Nat

VARIABLES
    incremental,    (* options().base.incrementalSolving                   *)
    eng,            (* the engine: assertions, contexts, SAT solver        *)
    d_smtMode,      (* SolverEngineState: the mode                         *)
    d_queryMade,    (* SolverEngineState: a check has been made            *)
    d_expected,     (* SolverEngineState: d_expectedStatus                 *)
    decided,        (* what the SAT solver held when it was last run       *)
    phase           (* "run", "failed" after an exception, or "ended"      *)

vars == <<incremental, eng, d_smtMode, d_queryMade, d_expected, decided, phase>>

Result == {"sat", "unsat", "unknown"}
Mode == {"start", "assert"} \cup Result
None == "none"
Entry == Formula \cup Definition \cup Assumption

(* What one push of the user context saves.                                *)
Frame == [size : Nat, index : Nat, global : Nat]

(* inited   SolverEngineState::d_fullyInited                               *)
(* list     Assertions::d_assertionList                                    *)
(* index    SmtDriverSingleCall::d_assertionListIndex                      *)
(* globals  Assertions::d_globalDefineFunLemmas, of no context             *)
(* assumed  Assertions::d_assumptions, of no context                       *)
(* global   Assertions::d_globalDefineFunLemmasIndex                       *)
(* frames   the pushes of the user context, outermost first                *)
(* satLevel level of the SAT context, decisions not counted                *)
(* prop     the formulas the SAT solver holds at each assertion level      *)
(* trail    the SAT solver may hold decisions                              *)
(* userLevels, pendingPops, needPostsolve   of the ContextManager          *)
(* asserts  no Assert of the code has failed                               *)
Engine ==
    [inited : BOOLEAN, list : Seq(Entry), index : Nat, globals : Seq(Definition),
     assumed : Seq(Assumption), global : Nat, frames : Seq(Frame),
     satLevel : Nat, prop : Seq(SUBSET Entry), trail : BOOLEAN,
     userLevels : Seq(Nat), pendingPops : Nat, needPostsolve : BOOLEAN,
     asserts : BOOLEAN]

Init ==
    /\ incremental \in BOOLEAN
    /\ eng = [inited |-> FALSE, list |-> <<>>, index |-> 0, globals |-> <<>>,
              assumed |-> <<>>, global |-> 0, frames |-> <<>>,
              satLevel |-> 0, prop |-> <<>>, trail |-> FALSE,
              userLevels |-> <<>>, pendingPops |-> 0, needPostsolve |-> FALSE,
              asserts |-> TRUE]
    /\ d_smtMode = "start"
    /\ d_queryMade = FALSE
    /\ d_expected = None
    /\ decided = {}
    /\ phase = "run"

-----------------------------------------------------------------------------
(* The user context, the SAT context and the SAT solver.                   *)

(* userContext()->push()                                                   *)
PushUserContext(e) ==
    [e EXCEPT !.frames = Append(@, [size |-> Len(e.list), index |-> e.index,
                                    global |-> e.global])]

(* Faulty: d_globalDefineFunLemmasIndex is not context dependent.          *)
PopUserContextKeepsGlobal(e, n) ==
    [e EXCEPT !.list = SubSeq(@, 1, e.frames[n + 1].size),
              !.index = e.frames[n + 1].index,
              !.frames = SubSeq(@, 1, n)]

(* userContext()->popto(n), for a level n below the current one.           *)
PopUserContext(e, n) ==
    [e EXCEPT !.list = SubSeq(@, 1, e.frames[n + 1].size),
              !.index = e.frames[n + 1].index,
              !.global = e.frames[n + 1].global,
              !.frames = SubSeq(@, 1, n)]

(* Faulty: the SAT context is not pushed.                                  *)
pushPropContextOnly(e) ==
    [e EXCEPT !.prop = Append(@, {}), !.asserts = @ /\ ~e.trail]

(* PropEngine::push, with the SAT context: Assert(decisionLevel() == 0).   *)
pushPropContext(e) ==
    [e EXCEPT !.prop = Append(@, {}), !.satLevel = @ + 1,
              !.asserts = @ /\ ~e.trail]

(* PropEngine::pop, n times.                                               *)
popPropContext(e, n) ==
    [e EXCEPT !.prop = SubSeq(@, 1, Len(@) - n), !.satLevel = @ - n,
              !.asserts = @ /\ ~e.trail]

resetTrail(e) == [e EXCEPT !.trail = FALSE]

(* Assertions::refresh: global definitions a pop has taken from the list,  *)
(* or that are new, go to its end.                                         *)
refresh(e) ==
    [e EXCEPT !.list = @ \o SubSeq(e.globals, e.global + 1, Len(e.globals)),
              !.global = Len(e.globals)]

(* getNextAssertions and assertToInternal: the part of the list that the   *)
(* SAT solver has not seen goes to its current assertion level.            *)
assertToInternal(e) ==
    [e EXCEPT !.prop[Len(e.prop)] =
                  @ \cup Range(SubSeq(e.list, e.index + 1, Len(e.list))),
              !.index = Len(e.list)]

refreshAssertions(e) == assertToInternal(refresh(e))

-----------------------------------------------------------------------------
(* ContextManager.                                                         *)

(* n levels go, in the SAT solver and in the user context.                 *)
PopLevels(e, n) ==
    IF n = 0 THEN e
    ELSE PopUserContext(popPropContext(e, n), Len(e.frames) - n)

(* Faulty: the trail of the last check is left as it is.                   *)
doPendingPopsNoPostsolve(e) ==
    [PopLevels(e, e.pendingPops) EXCEPT
        !.needPostsolve = FALSE, !.pendingPops = 0,
        !.asserts = @ /\ (e.pendingPops = 0 \/ incremental)]

doPendingPops(e) ==
    LET p == IF e.needPostsolve THEN resetTrail(e) ELSE e
    IN  [PopLevels(p, e.pendingPops) EXCEPT
            !.needPostsolve = FALSE, !.pendingPops = 0,
            !.asserts = @ /\ (e.pendingPops = 0 \/ incremental)]

(* Faulty: the assertions made so far are not sent before the push.        *)
internalPushNoRefresh(e) ==
    LET p == doPendingPops(e)
    IN  IF incremental THEN pushPropContext(PushUserContext(p)) ELSE p

internalPush(e) ==
    LET p == doPendingPops(e)
    IN  IF incremental
        THEN pushPropContext(PushUserContext(refreshAssertions(p)))
        ELSE p

internalPop(e) ==
    IF incremental THEN [e EXCEPT !.pendingPops = @ + 1] ELSE e

userPush(e) ==
    internalPush([e EXCEPT !.userLevels = Append(@, Len(e.frames))])

(* The levels above the one recorded by the last userPush are popped.      *)
userPop(e) ==
    LET back == e.userLevels[Len(e.userLevels)]
    IN  [PopLevels(e, Len(e.frames) - back) EXCEPT
            !.userLevels = SubSeq(@, 1, Len(@) - 1),
            !.asserts = @ /\ back < Len(e.frames)]

(* Levels pop back to the first user frame, then to zero, and one push     *)
(* keeps the global context around everything.                             *)
notifyResetAssertions(e) ==
    LET p == doPendingPops(e)
        u == IF p.userLevels = <<>> THEN p
             ELSE [PopLevels(p, Len(p.frames) - p.userLevels[1]) EXCEPT
                      !.userLevels = <<>>]
        b == [u EXCEPT !.asserts = @ /\ Len(u.frames) = 1]
    IN  PushUserContext([PopUserContext(b, 0) EXCEPT !.satLevel = 1])

notifyCheckSat(e, A) == IF A # <<>> THEN internalPush(e) ELSE e

notifyCheckSatResult(e, A) ==
    LET n == [e EXCEPT !.needPostsolve = TRUE]
    IN  IF A # <<>> THEN internalPop(n) ELSE n

(* shutdown and cleanup, of ~SolverEngine.                                 *)
shutdown(e) ==
    LET p == doPendingPops(e)
        n == Len(p.frames) - 1
        d == IF incremental /\ n > 0 THEN PopLevels(p, n) ELSE p
    IN  IF d.frames = <<>> THEN d
        ELSE [PopUserContext(d, 0) EXCEPT !.satLevel = 0, !.userLevels = <<>>]

-----------------------------------------------------------------------------
(* SolverEngine.                                                           *)

finishInit(e) ==
    IF e.inited THEN e
    ELSE PushUserContext([e EXCEPT !.inited = TRUE, !.prop = <<{}>>, !.satLevel = 1])

beginCall(e) == doPendingPops(finishInit(e))

(* SolverEngine::declareConst, declareSort.                                *)
declareConst ==
    /\ phase = "run"
    /\ d_smtMode' = "assert"
    /\ UNCHANGED <<incremental, eng, d_queryMade, d_expected, decided, phase>>

(* SolverEngine::setInfo("status", s).                                     *)
setStatus(s) ==
    /\ phase = "run"
    /\ d_expected' = s
    /\ UNCHANGED <<incremental, eng, d_smtMode, d_queryMade, decided, phase>>

(* SolverEngine::assertFormula, and defineFunction of a local definition.  *)
assertFormula(f) ==
    /\ phase = "run"
    /\ LET b == beginCall(eng)
       IN  /\ Len(b.list) < MaxList
           /\ eng' = [b EXCEPT !.list = Append(@, f)]
    /\ UNCHANGED <<incremental, d_smtMode, d_queryMade, d_expected, decided, phase>>

(* SolverEngine::defineFunction of a global definition.                    *)
defineFunction(d) ==
    /\ phase = "run"
    /\ Len(eng.globals) < MaxGlobals
    /\ eng' = [beginCall(eng) EXCEPT !.globals = Append(@, d)]
    /\ UNCHANGED <<incremental, d_smtMode, d_queryMade, d_expected, decided, phase>>

(* SolverEngine::push.  Without --incremental it throws, after the         *)
(* assertions went to the SAT solver.                                      *)
push ==
    /\ phase = "run"
    /\ Len(eng.userLevels) < MaxUserLevels
    /\ LET b == refreshAssertions(beginCall(eng))
       IN  IF incremental
           THEN /\ eng' = userPush(b)
                /\ d_smtMode' = "assert"
                /\ UNCHANGED phase
           ELSE /\ eng' = b
                /\ phase' = "failed"
                /\ UNCHANGED d_smtMode
    /\ UNCHANGED <<incremental, d_queryMade, d_expected, decided>>

(* SolverEngine::pop.  Without an open user frame it throws, in mode       *)
(* ASSERT if the solver is incremental.                                    *)
pop ==
    /\ phase = "run"
    /\ LET b == beginCall(eng)
       IN  IF incremental /\ eng.userLevels # <<>>
           THEN /\ eng' = userPop(b)
                /\ UNCHANGED phase
           ELSE /\ eng' = b
                /\ phase' = "failed"
    /\ d_smtMode' = IF incremental THEN "assert" ELSE d_smtMode
    /\ UNCHANGED <<incremental, d_queryMade, d_expected, decided>>

(* SolverEngine::resetAssertions, with a new PropEngine.                   *)
resetAssertions ==
    /\ phase = "run"
    /\ IF eng.inited
       THEN /\ eng' = [notifyResetAssertions(eng) EXCEPT !.prop = <<{}>>]
            /\ d_smtMode' = IF eng.userLevels = <<>> THEN d_smtMode ELSE "assert"
       ELSE UNCHANGED <<eng, d_smtMode>>
    /\ UNCHANGED <<incremental, d_queryMade, d_expected, decided, phase>>

-----------------------------------------------------------------------------
(* SolverEngine::checkSat.                                                 *)

(* The engine as the check finds it: the assumptions, if any, are in the   *)
(* list, in a frame of their own if the solver is incremental.             *)
WithAssumptions(A) ==
    LET p == notifyCheckSat(beginCall(eng), A)
    IN  [p EXCEPT !.assumed = A, !.list = @ \o A]

(* SolverEngineState::notifyCheckSatResult, which throws if the user       *)
(* expected another result.                                                *)
CheckSatResult(r) ==
    /\ d_queryMade' = TRUE
    /\ IF d_expected \in {"sat", "unsat"} /\ r # "unknown" /\ r # d_expected
       THEN /\ d_smtMode' = "assert"
            /\ phase' = "failed"
            /\ UNCHANGED d_expected
       ELSE /\ d_smtMode' = r
            /\ d_expected' = None
            /\ UNCHANGED phase

(* Only an incremental solver may be asked twice.                          *)
QueryAllowed == ~d_queryMade \/ incremental

(* The SAT solver runs and answers r.                                      *)
checkSat(A, r) ==
    /\ phase = "run"
    /\ QueryAllowed
    /\ LET s == refreshAssertions(WithAssumptions(A))
       IN  /\ eng' = notifyCheckSatResult([s EXCEPT !.trail = TRUE], A)
           /\ decided' = UNION Range(s.prop)
    /\ CheckSatResult(r)
    /\ UNCHANGED incremental

(* Resources had run out before: the SAT solver is not run.                *)
checkSatOut(A) ==
    /\ phase = "run"
    /\ QueryAllowed
    /\ eng' = notifyCheckSatResult(WithAssumptions(A), A)
    /\ CheckSatResult("unknown")
    /\ UNCHANGED <<incremental, decided>>

(* A LogicException or TypeCheckingException, before the assertions went   *)
(* to the SAT solver or while it runs: decisions are undone, the frame of  *)
(* the assumptions is not popped.                                          *)
checkSatThrows(A) ==
    /\ phase = "run"
    /\ QueryAllowed
    /\ \/ /\ eng' = resetTrail(WithAssumptions(A))
          /\ UNCHANGED decided
       \/ LET s == refreshAssertions(WithAssumptions(A))
          IN  /\ eng' = resetTrail([s EXCEPT !.trail = TRUE])
              /\ decided' = UNION Range(s.prop)
    /\ d_smtMode' = "assert"
    /\ phase' = "failed"
    /\ UNCHANGED <<incremental, d_queryMade, d_expected>>

(* A second check of a solver that is not incremental: ModalException.     *)
checkSatRefused ==
    /\ phase = "run"
    /\ ~QueryAllowed
    /\ eng' = beginCall(eng)
    /\ phase' = "failed"
    /\ UNCHANGED <<incremental, d_smtMode, d_queryMade, d_expected, decided>>

(* SolverEngine::~SolverEngine, after a failure too.                       *)
Destroy ==
    /\ phase \in {"run", "failed"}
    /\ eng' = shutdown(eng)
    /\ phase' = "ended"
    /\ UNCHANGED <<incremental, d_smtMode, d_queryMade, d_expected, decided>>

Ended ==
    /\ phase = "ended"
    /\ UNCHANGED vars

Assumptions == {<<>>} \cup {<<a>> : a \in Assumption}

Next ==
    \/ declareConst
    \/ \E s \in Status : setStatus(s)
    \/ \E f \in Formula : assertFormula(f)
    \/ \E d \in Definition : defineFunction(d)
    \/ push
    \/ pop
    \/ resetAssertions
    \/ \E A \in Assumptions :
          \/ \E r \in Result : checkSat(A, r)
          \/ checkSatOut(A)
          \/ checkSatThrows(A)
    \/ checkSatRefused
    \/ Destroy
    \/ Ended

Spec == Init /\ [][Next]_vars

-----------------------------------------------------------------------------
(* Properties.                                                             *)

(* Type correctness.                                                       *)
TypeOK ==
    /\ incremental \in BOOLEAN
    /\ eng \in Engine
    /\ d_smtMode \in Mode
    /\ d_queryMade \in BOOLEAN
    /\ d_expected \in Result \cup {None}
    /\ decided \subseteq Entry
    /\ phase \in {"run", "failed", "ended"}

(* No Assert of the code ever fails: the SAT solver is pushed and popped   *)
(* at decision level 0 only, whatever check, exception or deferred pop     *)
(* came before; a user frame to pop lies below the current level; reset    *)
(* finds the contexts at level 1; only an incremental solver defers pops.  *)
AssertsHold == eng.asserts

(* The user context, the SAT context and the assertion levels of the SAT   *)
(* solver are pushed and popped by three different classes, but stay       *)
(* paired; a level is a user frame, a deferred pop, or what a failed check *)
(* left behind.                                                            *)
LevelsAgree ==
    /\ TypeOK
    /\ phase # "ended" /\ eng.inited =>
          /\ Len(eng.frames) = eng.satLevel
          /\ Len(eng.frames) = Len(eng.prop)
          /\ eng.userLevels = [i \in 1 .. Len(eng.userLevels) |-> i]
          /\ LET extra == Len(eng.frames) - (Len(eng.userLevels) + 1)
             IN  IF phase = "run" THEN extra = eng.pendingPops
                                  ELSE extra \in 0 .. 1

(* The part of the assertion list that belongs to level k.                 *)
Segment(k) ==
    (eng.frames[k].size + 1) ..
       (IF k = Len(eng.frames) THEN Len(eng.list) ELSE eng.frames[k + 1].size)

(* The SAT solver holds at each level exactly the entries of the list that *)
(* belong to that level and that have been sent, and below the top level   *)
(* all have been: none is lost, sent to another level, or outlives a pop.  *)
PropMirrorsList ==
    phase # "ended" /\ eng.inited =>
       \A k \in DOMAIN eng.prop :
          /\ eng.prop[k] = {eng.list[i] : i \in {j \in Segment(k) : j <= eng.index}}
          /\ k < Len(eng.frames) => eng.frames[k + 1].size <= eng.index

(* The user frames that the list stands for: the frame of assumptions of a *)
(* check is none, and what refresh() adds is no assertion.                 *)
UserFrames ==
    [i \in 1 .. Len(eng.userLevels) + 1 |->
        IF i \notin DOMAIN eng.frames THEN {}
        ELSE {eng.list[j] : j \in Segment(i)} \cap Formula]

Abstract ==
    INSTANCE AssertionStack
       WITH stack <- UserFrames,
            definitions <- Range(eng.globals),
            assumed <- Range(eng.assumed)

(* The solver is an assertion stack: every check decides the assertions of *)
(* the open user frames, all global definitions and its own assumptions,   *)
(* however pushes, deferred pops and late sending are interleaved.         *)
BehavesAsAssertionStack == Abstract!Spec

=============================================================================
