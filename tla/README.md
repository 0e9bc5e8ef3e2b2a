# A TLA+ verification of the stateful core of cvc5

The repository is the artifact of a paper on proofs for an SMT solver. It holds
the solver, cvc5 (`src/cvc5`), the proof checker Ethos (`src/ethos`), the proof
calculus CPC (`src/cvc5/proofs/eo/cpc`) and the scripts that run both on
benchmarks and tabulate the results (`src/scripts`). Most of that is functions
on terms. This project models the parts that are about *state*: what is saved,
restored, shared and destroyed while the solver backtracks; which assertions a
check really decides; what passes between the SAT solver and the theories; how
terms are shared, counted and freed; how proofs are put together out of nodes
that are overwritten in place; and what the processes of the portfolio do to
each other.

## 1. Inventory

| part | state | operations | what is hard |
|---|---|---|---|
| Context, Scope, ContextObj (`context/context.{h,cpp}`, `cdo.h`) | a stack of scopes, each with a doubly linked list of the objects and saved copies that belong to it | push, pop, first write in a scope, construction and destruction at any level, callbacks inside pop | pointers are rewritten in place; memory of copies is freed by region; pop runs client code half way through |
| CDQueue, CDList (`cdqueue.h`, `cdlist.h`) | one vector, indices into it in every saved copy | push, pop, restore | elements are destroyed before the scope ends, although saved copies index the same vector |
| CDHashMap (`cdhashmap.h`) | hash table, circular list in insertion order, one context object per element | insert, update, clear, restore | elements remove themselves in the middle of a pop, and are deleted later |
| ContextMemoryManager (`context_mm.cpp`) | chunks, free chunks, stacks of saved pointers | newData, push, pop | regions share chunks; chunks are reused and freed at a limit |
| Portfolio driver (`main/portfolio_driver.cpp`) | jobs, processes, pipes | start, poll, wait, kill, flush | processes race: timers against workers, wait() against waitpid(), full pipes |
| CDInsertHashMap and the small wrappers | a map and a key list restored by size | insert, restore | an unchecked precondition in release builds |
| CDCL(T) propagator (`prop/cadical`, `theory_proxy.cpp`, `theory_preregistrar.cpp`) | trail, decision and user levels, queues of clauses and propagations, fixed literals, activation literals, preregistered atoms | the callbacks of CaDiCaL, push and pop of the user, the search | the SAT solver decides the order of callbacks; clauses outlive the level they belong to; fixed literals are reported once only; backtracks are reported twice |
| Solver engine state, context manager, SMT driver, assertions (`smt`) | mode, assertion list, user levels, pending pops, what the SAT solver holds | assert, define, check-sat, push, pop, reset, destroy | assertions are sent late, pops are deferred, exceptions end a check half way |
| NodeManager (`expr`) | the pool of terms, reference counts that saturate, zombies, attributes | inc, dec, build, reclaim, destroy | zombies are found again; they are reclaimed in the midst of other operations; saturated nodes are freed by force at the end |
| CDProof, LazyCDProof, ProofNodeManager (`proof`, `theory/uf/proof_equality_engine.cpp`) | mutable proof nodes, a proof for each fact, generators | addStep, addProof, getProofFor, mkScope, context pops | nodes that other proofs point to are overwritten in place; an equality and its symmetric form point to each other |
| Theory engine, equality engine (`theory`) | shared terms, facts, equalities | check, propagate, merge, backtrack | the order of notifications |
| Ethos (`src/ethos/src`) | scopes, assumption lists, symbol tables, reference counts | commands of the proof language | scoping of assumptions in nested proofs |
| Artifact runner (`src/scripts/run_artifact_subset.py`) | a thread pool, directories, a result list | run solver, run checker, record | parallel jobs with the same name; time-outs |
| parser, printer, options, API, rewriters, preprocessing, SAT solvers, tables of results | | | sequential, generated or third-party code, or functions on terms: not modelled |

Interaction: every context-dependent structure is built from ContextObj; a
Context owns a ContextMemoryManager and pushes and pops it in step with its
scopes. The solver keeps two contexts, one for the user's and one for the SAT
solver's levels: `SolverEngine` models how the driver keeps them paired,
`CdcltPropagator` how the SAT solver moves the second one. Proof stores are maps
in a context (`CDProof`). Terms are used by everything and are taken as values
by all modules but `NodeManager`. ContextNotifyObj callbacks run inside pop().
The portfolio forks whole solvers, which share nothing but pipes and the input.

What makes each modelled part correct:

* a context-dependent structure is, to its client, a stack of snapshots: push
  takes one, pop puts it back (`SnapshotStack`);
* below that, no pointer dangles, nothing is restored twice or not at all, no
  memory is released while something will still be read from it;
* the allocator never hands out memory that someone owns;
* the solver is, to its user, an assertion stack: every check decides the
  assertions of the open frames, the global definitions and its own assumptions
  (`AssertionStack`);
* the theories know what the SAT solver has assigned, nothing of a popped level
  reaches them, and sat is answered only after they have checked all of it;
* nothing in use points to a freed term, equal terms are one node, and the
  manager frees everything in the end;
* a proof is never cyclic, each of its steps is applied to proofs of its
  premises, the order of adding steps does not matter, and a proof that was
  given out stays closed;
* the portfolio prints exactly one complete answer, loses none, and ends.

## 2. Modules

`SnapshotStack` is the abstract specification shared by all backtrackable
structures: `cur`, a stack of snapshots, and Write, Push, Pop, Forget. Forget
is the one thing that reaches through to enclosing scopes: an object that is
destroyed, a table that is cleared.

`Context` models `context.{h,cpp}` with `cdo.h`. It keeps the pointers. A cell
of memory has an address, `<<o, Live>>` for an object and `<<o, l>>` for its
copy left in the scope at level l, and five fields (next, prev, scope, restore,
data); since a back link is the address of the field that points to a cell, it
is the address of the cell or scope that holds the field. `addToChain`, `save`,
`update`, `makeCurrent`, `restoreAndContinue`, `Unlink` and `NewContextObj` are
functions from heap to heap, one per function of the code and statement by
statement. The actions are the public operations (`Construct`, `ConstructWith`,
`set`, `Destroy` with the loop of destroy() as `DestroyStep`, `push`) and the
stages of pop in the order of the code: `pop` (pre-pop callbacks), `PopScope`,
`RestoreNext` once per object, `DeleteGarbage`, `PopRegion`, `PopEnd`
(post-pop callbacks). The client's operations are enabled during the two
callback stages too. Objects in `Elem` behave as the elements of a CDHashMap:
restoring the copy that was in no map sends them to the garbage of the dying
scope. The memory region of each copy is recorded, because that decides when it
is freed. The refinement mapping reads the value of an object at level l off
its newest version not newer than l.

`CDQueue` models `cdqueue.h` on top of `cdlist.h`: the vector, the three indices
and the saved copies of the indices. The context is reduced to what a single
object sees of it, the level of its scope and of its restore pointer.

`CDHashMap` models `cdhashmap.h`: the table, the circular list through d_next
and d_prev, the elements' saved copies with "was in a map or not", and the
order in which a scope restores its elements. A pop is a sequence of steps,
one per element, then the deletion of garbage. The refinement mapping
compares the contents *in order of iteration*.

`ContextMM` models `context_mm.cpp`: chunks are abstract, a chunk has a few
bytes, and what clients hold is recorded so that overlap can be seen.

`SolverEngine` models the path of an assertion from the user to the SAT solver:
SolverEngine, SolverEngineState, ContextManager, SmtDriver with
SmtDriverSingleCall, Assertions, and of SmtSolver, PropEngine and Minisat the
push, pop and reset of levels. The code is sequential and its methods call each
other, so the engine is one record `eng` and every method a function from
engine to engine; an action is a public call, the composition of the methods it
calls. The assertion list and its indices live in the user context and are
saved as snapshots, which is what `Context` and `CDQueue` justify. The SAT
solver is the set of formulas it holds at each assertion level, and whether it
may hold decisions. `asserts` records whether every Assert on the way held.
A call that throws anything but a recoverable exception leaves the phase
"failed", from which only the destructor follows: the API says of recoverable
exceptions alone that objects can still be used, and the error behaviour of the
solver is "immediate-exit". `AssertionStack` is the abstract specification; in
the refinement mapping a user frame is the part of the list between two levels.
Assertions, definitions and assumptions are drawn from disjoint sets, so that
what a check decided shows where it came from.

`Portfolio` models the class PortfolioProcessPool and the processes it forks.
The parent is a program counter over its system calls (the tests of its own
variables are folded into the call before them); a worker solves, crashes,
diverges or writes its output and exits; a timer sleeps, kills and exits. The
process table, the contents of the pipes and the holders of their writing ends
are the shared state. kill, fork and the end of a process are external.

`CdcltPropagator` models CadicalPropagator and what its callbacks do in
CadicalSolver, TheoryProxy, TheoryPreregistrar and CnfStream. The record `s` is
the state of cvc5, `cad` that of CaDiCaL (its decision level, the level of each
assigned variable, and which assignments cvc5 ignored because a partial model
was accepted). Each callback is a function from states to states, or to the set
of states it may end in where the theories choose; the actions are the calls
CaDiCaL may make and those of cvc5 between two searches. What is assumed of
CaDiCaL: it assumes the activation literals first, one per level; it fixes a
variable only if a clause without activation literal mentions it (an
activation literal occurs with one sign in clauses, so that resolution cannot
remove it); it asks for everything else in any order. With `FixAnywhere` a
variable may become fixed at any decision level of a search, and also when it
has a value already, and CaDiCaL may report it again at any time with the
regular notifications (`Report`): this is what the header and the code of the
callbacks provide for. Without `FixAnywhere` variables become fixed at decision level 0
only. After a search only the fact that CaDiCaL has a backtrack to report is
kept of its trail.
Signs are left out, a clause is a set of variables with at most one activation
literal, and a theory may infer, explain, create atoms and send lemmas at will.
Atoms are preregistered eagerly. The SAT context is a stack of snapshots.

`NodeManager` models the life of a term. A node is the number of its allocation.
The one thread of the program may be in the middle of an operation: `todo` is
what that operation has still to do, `batch` what reclaimZombies() has still to
free, and each release of a child, each deleted attribute and each freed node
is an action of its own, so that reclamation happens inside assignments,
builders and lookups as it does in the code. MAX_RC and the number of zombies
that triggers reclamation are constants. The destructor frees zombies, then the
saturated nodes in the order of TopologicalSort, then the zombies those leave.

`CDProof` models proofs under construction: the nodes of ProofNodeManager, with
the rule, children and (for the properties) the premises each was made for;
CDProof and LazyCDProof; and as client ProofEqEngine, whose lemmas are closed by
mkScope. There are three stores: `p`, in a context; `q`, temporary, made for a
lemma, with `p` as default generator (it stands for `tmpProof` and `outer`, each
of which only asks the next); and `g`, of BufferedProofGenerator. Each method is
a function from states to states. A node is named by its fact, a number and the
lemma it was cloned for, so that states that differ only in names coincide;
nodes nobody points to are dropped. Rules are not checked when applied, which is
the default (--proof-check=none), and d_autoSymm is set, also the default. The
assumptions of a lemma are any of the asserted literals that cover what is free
in its proof; where none do, the code is Unreachable. `linked` says that `p` got
its steps by addStep and copies only and that no level was popped, the cases in
which the code connects late steps.

Instances for TLC that need definitions are given in `MCContext`, `MCCDHashMap`,
`MCNodeManager` and `MCCDProof`; `MCCdcltPropagator` checks both kinds of CaDiCaL in one
run, where the properties named ...AtLevel0 speak of one of them. The theorems about a module M are in `M_proofs`:
there is one for `Context`, `CDQueue`, `CDHashMap`, `ContextMM`, `Portfolio`,
`SolverEngine`, `CdcltPropagator` and `NodeManager`. Definitions marked "Faulty" in
a module are variants with a plausible mistake, used to confirm that each property
would notice it. Except in `Context`, TypeOK is not a property of its
own but a conjunct of an invariant (SavedChain, ListMatchesTable, BlocksAreOwned, RunningIsExact,
LevelsAgree, CountsExact, StepsSound), so that every run still evaluates it.

## 3. Runs

| run | instance | shows |
|---|---|---|
| `context` | one CDO and two interchangeable map elements, a value other than the default, levels 0..3 (529 789 states up to symmetry) | every interleaving of writes, constructions, destructions and pops, also in callbacks, keeps lists of up to three cells and restore pointers consistent, and refines `SnapshotStack` |
| `queue` | two elements, vector up to 4, levels 0..3 (22 063) | the index invariants and the refinement |
| `map_order` | three keys, two values of one of them, levels 0..2 (25 069 up to symmetry) | table, list and garbage agree; iteration order and overwritten data come back |
| `memory` | three chunks of 3 bytes, at most one kept, blocks of 1 and 2, levels 0..3 (77 469) | ownership of blocks, matching of regions and chunks, chunks on one list only |
| `engine` | with and without --incremental; two assertions, a definition made up to twice, one assumption, list up to 3 before definitions, two user frames (537 472) | the Asserts of the code, pairing of levels, the SAT solver mirrors the list, refinement of `AssertionStack` |
| `portfolio` | three jobs, two at a time, two with timers, outputs up to one more than a pipe holds (1.1 million) | counts, answers, timers and termination |
| `portfolio_pipe` | two jobs, one at a time | a disagreement between comments and code, section 6 |
| `propagator` | two theory atoms, two user levels, two decision levels, one waiting lemma; variables fixed at level 0 only, with three pushes, and fixed anywhere, with two pushes and no waiting lemma, and with one push and waiting lemmas (1 052 387) | levels agree between CaDiCaL, cvc5 and the theories; preregistration and the atoms that are not fixed are up to date; popped levels are inert; propagations are current; sat is checked; in the first case also the Asserts of the code, the record is the trail, fixed literals are sent again after pops |
| `propagator_resend` | variables fixed anywhere, two pushes | a disagreement between comments and code, section 6: a fixed literal that is backtracked is not sent again |
| `nodes` | two interchangeable handles, three nodes (variables and applications) of up to two children, counts up to 3, one zombie allowed, one attribute (916 551 up to symmetry) | counts are exact, nothing in use is freed, terms are unique, nothing leaks |
| `nodes_operators` | the same with nodes that have an operator | a disagreement between comments and code, section 6 |
| `proofs` | an equality with its symmetric form and two more formulas, two steps, one generator, one lemma, levels 0..1, five nodes at a time (81 895) | no cycles, sound steps, late steps are connected, lemmas stay closed, steps are kept |

Why the bounds are enough. The links of a list have three cases (first, middle,
last), which three cells show, and a chain of versions needs three levels
before a copy has both a newer and an older neighbour; two values distinguish
restored from current. In the queue, four elements over four levels allow a
save, a dequeue to empty and new elements at each of two levels. Three chunks
allow one active, one kept and one freed. Two jobs at a time out of three let a
job start while another ends; the timer of one job is then reaped while the
worker of another is running. A pipe of one unit and outputs of 0, 1 and 2 are
the cases empty, fits and blocks. For the engine, two user frames and the frame of assumptions give a level with
neighbours on both sides, and a definition made twice gives an index that a pop
takes half way back. Without --incremental, assumptions are never popped, and
it is the refusal of a second check that keeps the refinement. For the
propagator, the interesting histories are a literal made in an inner level and
one made outside, a level popped and another pushed in its place, and a search
in each: two literals and two pushes. `FixedResent` needs a third push (a literal
is fixed at level 1, which is popped; it is sent to the theories again at level
2, which is popped in turn), which the solver that fixes at level 0 only has.
Two decision levels are needed to backtrack without going to level 0. Variables
that are no theory atoms occur as activation literals; the constant Atomic
admits others too. For nodes, three nodes make a chain
(child, parent, grandparent) whose reclamation cascades, with a limit of one
zombie every second release reclaims, and a count of 3 saturates with two
handles, a builder and a parent. For proofs, five nodes are what a lemma from
the premises yx and xy needs: three cloned nodes beside the two of the store,
of which one is then filled in by a later step; the formula iff has the same
rewritten form as xy, and pred is true when rewritten, so that all four ways in
which mkScope connects an assumption occur. Proofs are asked for xy, yx and iff;
pred, which no step proves, occurs as a premise. Without bounds the states of these systems
grow but the shapes repeat; where that is not obvious it is proved (section 5).

The bounds themselves are MaxLevel, MaxLen (queue), MaxUserLevels, MaxList and
MaxGlobals (engine), MaxLiterals, MaxPushes, MaxUserLevels, MaxDecisions and
MaxPending (propagator), MaxNodes, MaxChildren and MaxAttributes (nodes),
MaxNodes, MaxLevel, MaxGenerators and MaxLemmas (proofs), the finite sets of
objects, keys, values and chunks, MaxOut and Capacity. Deadlock is checked in
all passing runs except `portfolio`, where the code can really stop (a job
without a timer that blocks on a full pipe, see `portfolio_pipe`), and `nodes`,
where a destroyed manager is the end. The other structures can always push, pop
or search on, so that for them a deadlock would be an error.

## 4. Fairness

Only `Portfolio` states fairness. Every process is weakly fair: the operating
system runs each process that can run, delivers SIGKILL, and wakes a sleeping
timer. A worker that diverges is not forced to do anything else, and one that
blocks on a full pipe cannot run. `PoolEnds` therefore assumes that a job *without
a timer* neither diverges nor overfills its pipe; about jobs with a timer it
assumes nothing.

## 5. Proofs

Theorems hold for every value of the constants, with no bound on objects,
elements or depth beyond the parameters themselves.

`Context` (`Context_proofs`):

* `ContextTypeCorrect`: `Spec => []TypeOK`. One lemma per
  function on the heap says that it maps heaps to heaps; the inductive
  invariant adds to TypeOK that a pop in its first stage is above level 0 and
  one that restores is below MaxLevel, without which the level or the address
  of the dying scope could leave its range.
* `RestoreChainsHold`, `ScopeListsHold`, `NothingIsLeftBehind`,
  `GarbageRestored`: the invariants of run `context`. None is inductive. The
  invariant is `ContextInv`, and its core is `Good(h, E, T, top, X)`: with the
  objects E and the scopes 0..T the heap h is in shape, and the cells in X are on
  no list. It says nothing about paths, only about a cell and its neighbours: the
  cell that `next` leads to belongs to the same scope, no two cells lead to the same
  one, and up to the level `top` the back link leads back; every version on a list has
  a predecessor; there is a rank of the cells that grows along `next`, so that lists
  end; a saved copy belongs to an object that exists, is older than it, and is
  the restore pointer of some version; and a version restores the newest of the older
  copies. X is the object that DestroyStep has taken out of its list and not yet
  released. What the operations do to a list is one of four changes (a cell
  is added at the front, replaced in place, removed; a head is dropped), and each
  has one lemma about ranks and links; each function of the heap then has one
  lemma that it keeps `Good`, and each action one that it keeps `ContextInv`.
  `Leaving` accounts for d_garbage: an element that no map holds waits there or is
  being destroyed, and only the bottom scope knows a version of it that was in no map.
  `ScopeLists` speaks of the cells reached from a scope, so its theorem needs an
  argument about reachability: CellsOf follows the links as often as there are
  addresses; what is reached then is closed under `next`, because otherwise each
  step would have found a new address; and a version that is not reached would
  have an unreached predecessor of a smaller rank.
  Besides `ConstantsAssumption` this uses `FiniteObjects`: at any time the program
  has made finitely many objects.
* `ContextRefinesSnapshots`: `Spec => BehavesAsSnapshots`, the context implements
  `SnapshotStack`. What a scope will see of an object is the newest version that is
  not above it; the restore pointers, by RestoreChains, lead through the versions
  in that order. So a write, which saves a copy first if the scope has none, changes
  what the current scope sees and nothing else; a pop shows one object after the other
  what the scope below saw, and is complete when the list of the dying scope
  is empty; destroying an object takes it from all scopes, which is Forget.

`CDQueue` (`CDQueue_proofs`):

* `QueueCopiesChained`, `QueueIndicesInOrder`: the invariants of run `queue`, and
  `QueueTypeCorrect`, a conjunct of the first. None is inductive alone.
  The invariant is their conjunction with HasNewest: that d_lastsave is the size in the newest copy, and that sizes
  grow along the chain of copies, is what makes truncation in pop() safe, and
  that in turn needs the chain to be complete and ordered.
* `QueueRefinesSnapshots`: the queue implements `SnapshotStack`. A change of the
  queue leaves the elements below d_lastsave alone, all saved versions lie
  below it, so what every enclosing scope sees is unchanged; a pop of the
  context finds the newest copy, and the remaining versions are below its size.

`CDHashMap` (`CDHashMap_proofs`):

* `MapListMatchesTable`, `MapGarbageUnreachable`: the circular list holds
  exactly the keys of the table, and an element that waits for deletion is
  reachable from nothing. The invariant is Linked (a sequence without
  repetition of which the links are the circular successors), Versions (the copies of
  an element are older than it, the one of the bottom scope is there if the element
  has been written above it, and only that one may say "in no map"), Chains (the list of a scope
  holds once each element with a version there) and Stage. Removing an element from the middle
  of a sequence, and that nothing else is removed, is shown by a least
  counterexample. The keys are assumed finite, as those of a table are.
* `MapRefinesSnapshots`: the map implements `SnapshotStack`, with its contents in order of
  iteration as the value. MapAt(l) is the insertion-order list without the elements whose
  version in the scope at l says "in no map", with the data of the others. What a scope sees of
  an element is its newest version not above that scope; set() leaves a copy at the
  level the element had, so the enclosing scopes find there what they saw (UpdateKeeps); a new
  element is invisible to them (InsertKeeps) and an element that leaves the list was invisible to all
  scopes that are left (RestoreKeeps). So the list only ever changes at places that are filtered
  out, and filtering does not see it (WithoutHidden, by induction over the list). ContextPop is the
  pop of the snapshots; the turns of the loop of ~Scope and the deletion of garbage are
  stuttering steps: no scope can tell how far a pop has got.

`ContextMM` (`ContextMM_proofs`):

* `OwnedUntilPopped`, `ChunksAlwaysAccounted`: a block stays its owner's until
  its region is popped. The invariant adds to the two that the regions are nested
  (Nested: the chunks of an outer region are a prefix of those of an inner one)
  and that what was allocated before a region was pushed lies in the chunks and
  in front of the pointer that its pop goes back to (OuterBlocks): that is why a pop
  that moves d_nextFree back into a shared chunk hands out no block of an outer
  region.

`Portfolio` (`Portfolio_proofs`):

* `PoolCountsExactly`, `PoolAnswersRight`, `PoolLeavesNoTimer`: for any number
  of jobs, any limit, any output and any interleaving. The invariant says whose
  process is whose (Owners), how far the pool has come (Counters), which exit
  statuses there can be and that a worker that exits as solved has written all of its output
  (Verdicts), and what the place of the parent in run() tells about all of them
  (Control). d_running is a cardinality, so each step says which job enters or
  leaves the set of running jobs.

`SolverEngine` (`SolverEngine_proofs`):

* `EngineAssertsHold`, `EngineLevelsAgree`, `EnginePropMirrorsList`: for any number of frames,
  assertions, definitions and failures. Good(e) says of an engine, in the midst of a
  call or not, that what was saved at each level lies within what was saved above it
  and a level is pushed only when everything below it has been sent (FramesOK), that
  every entry of the list belongs to a level (Covered), that the SAT solver holds at
  each level what the list has there up to the index (Mirror), and that the global
  definitions that the index counts are in the list, also after any number of pops
  (Defs). Between(e) adds what holds between two calls: which levels exist beside
  those of the user, and that assumptions are found in their own frame only
  (AssumptionsApart). Each method has one lemma, from which state to which,
  and each action is the composition of those.
* `EngineRefinesAssertionStack`: the engine implements `AssertionStack`. Init maps
  to Init, and each action is the abstract call of the same name or a stutter; what a check
  decided is what the SAT solver holds, which by the invariant is the open frames, the
  definitions and the assumptions.

`CdcltPropagator` (`CdcltPropagator_proofs`):

* `AssertsNeverFail`, `LevelsAlwaysAgree`, `TheoriesStayUpToDate`,
  `FixedLiteralsResent`, `OnlyLiveLiteralsReachTheories`, `TrailIsRecorded`,
  `SatAnswersAreChecked`, `PoppedLevelsStayInert`, `PropagationsStayCurrent`: all
  invariants of run `propagator`, for any number of variables, pushes, user levels, decision levels and
  waiting clauses, and with theories that may answer each callback with any lemma, new
  atom or inference. One inductive invariant, `IInv` (theorem `Inductive`), carries
  them. `Good(t)` is about cvc5 alone and holds in the midst of a callback too: d_active_vars
  is ordered by user level, and each mark in d_active_vars_control is where the next
  level starts (Marks); d_assignments is the set of assigned active variables
  (Recorded), cut by d_assignment_control into segments with nothing in common
  (Segments), of which the first is what is fixed (FixedOK); a literal queued or
  preregistered at a context level is of a user level that lives as long (Contexts);
  an atom is preregistered at each level, or waits in d_sat_literals for the backtrack to that level
  (Preregistered); a fixed atom is queued from the level it was fixed at, or waits in
  d_renotify_fixed (Renotified), every other assigned atom from the level it was
  assigned at (Sent); the variables of a waiting clause live as long as its activation
  literal (Clauses); and at decision level 0 no propagation of a user level is left
  (Inferences). `FoundOK` says what d_found_solution promises, `Trail` relates the
  record to CaDiCaL's trail, `Stage` says what holds at each place of the search.
  The weak points that the invariants of the run do not show by themselves are Segments (without it a
  backtrack could unassign a variable of a lower level that is recorded twice) and the order of
  d_sat_literals by level (the loop of notifyBacktrack stops at the first entry of the
  present level or below). Each operation has one lemma that says which fields change
  (...Fields), one that the result is Good (...Good), and each action one that keeps
  `IInv` (...Step). user_pop filters with a recursive function; what it returns is shown
  by a least counterexample.

  `AssertsNeverFail`, `TrailIsRecorded` and `FixedLiteralsResent` have the
  hypothesis ~FixAnywhere (in the run they are the properties ...AtLevel0), which run `propagator_resend` shows to be needed for the
  last; the other six hold wherever variables become fixed. The invariant is one for
  both cases. In general it says that what is recorded below the first decision level is
  fixed, that only variables of user level 0 are fixed, that cvc5 and CaDiCaL agree on
  which they are, and that every assigned atom that is not fixed is queued. Guarded by
  ~FixAnywhere are the converses, which a backtrack destroys: a fixed variable is assigned
  and in the first segment (FixedOK), a fixed atom is queued or waits (Renotified), the
  record is all of the trail (Trail), and no Assert has failed (AssertsOK).

`NodeManager` (`NodeManager_proofs`):

* `NodesDoNotDangle`, `NodeCountsExact`, `NodesUnique`, `NodesDoNotLeak`: the invariants
  of run `nodes`, for any handles, MAX_RC, number of zombies that triggers
  reclamation, nodes, children and attributes. The invariant is `NInv`. Its core is
  CountsOK(k, E, P): in the manager k a count is E or maximal, a node with count 0 is
  a zombie, in the batch or one of P, and a node in the batch has count 0. E is RefCount, a
  sum of cardinalities (handles, entries of the builder, attributes, pending
  releases, children), so that no fold is needed: an operation changes one of the
  sets by one element, and each loop over children or attributes (DecAll) subtracts
  the occurrences in the sequence, by induction over its index. The hard part is
  the batch. While zombies are reclaimed, counts go down and up again in the middle of
  an operation that has named a node without counting it yet; TodoOK says that this
  node is not in the batch, and that the releases a lookup still has to do before it
  hands out the node are of its own children and therefore never the last ones, so that
  they start no reclaiming.
  The destructor sets counts to 0 by force. That this dangles
  nothing is OrderOK with TreeOK: for each node of `order` there is a set closed
  under children that has all nodes before it and not the node itself. If the last one had a
  parent, the youngest node outside of its set would not be saturated, so it would
  be counted exactly, so have a parent, which is younger and outside of the set too. The same argument
  with the empty set shows that no node is left at the end. TopologicalSort
  establishes OrderOK because what a depth-first search has left behind is always
  closed under children; this is shown for the recursive functions `post` and `first` by
  induction over ids and positions. It is where the theorems need their hypothesis that no
  kind is parameterized: of such nodes the search leaves out the operator, and run
  `nodes_operators` shows that NothingDangles then fails.
* `NodesOfEveryKind`: until the destructor begins, the four hold for all kinds.

Besides the assumptions on the constants this uses `HandlesFinite`: the program has
finitely many variables.

Only model-checked:

* termination of the portfolio: liveness under fairness is outside the prover;
* `CDProof`: its operations are folds over a graph of proofs that they rewrite in place, and
  what a proof rests on is a fixed point over that graph. That the walks end needs Acyclic first,
  whose argument is two-layered (the ranks of the facts, and within a rank the chains of SYMM
  steps, which an update may redirect), and each walk then needs an induction of its own, as
  TopologicalSort does in `NodeManager`. This has not been carried out.

## 6. Findings

Shown by a run:

* A worker's output is read only after the worker has terminated. If it is
  larger than a pipe, the worker blocks in write(), and wait() never returns (or the
  timer kills a worker that had the answer). The comments promise that the pipe buffers
  the output and that the pool runs until one configuration has solved the
  input (`portfolio_pipe`).
* TopologicalSort, which is to put parents before children, follows the children
  of a node but not its operator. If an application and its operator both have
  saturated counts, the destructor of the node manager may free the operator
  first and then release it again through the application (`nodes_operators`).
  It takes counts of 2^20 - 1, and happens when the solver is destroyed.

* notify_backtrack is to re-assign the fixed assignments that are backtracked and to
  enqueue their theory literals again (`cdclt_propagator.h:64-67`, and the comment at
  `cdclt_propagator.cpp:152`). Its loop (`157-165`) unassigns every literal above the
  new level, fixed or not, and sends none. After a new variable, a
  clause, a decision, a fixed assignment above level 0 and a backtrack, the literal
  is fixed for CaDiCaL and unknown to cvc5 and the theories until CaDiCaL
  happens to report it again (`propagator_resend`); a clause with it that arrives in between violates
  `Assert(val != 0)` (`:433`). If CaDiCaL only fixes variables at level 0, none is
  backtracked within a search, and renotify_fixed sends those of popped levels (`propagator`).

Seen in the code, without a run:

* The comments of SmtMode say that the solver is in ASSERT after an assert or a
  define and in SAT or UNSAT immediately after a check (`smt_mode.h:31-37`).
  assertFormula, defineFunction and (with no open frame) resetAssertions leave the mode
  alone, as their actions in `SolverEngine` do, so that a model or a core may be asked for,
  and is given, when the assertions are no longer those of the answer.
* When one worker of the portfolio has solved the input, the others are not
  stopped; and "terminate the corresponding timeout process if it is still
  running" (`portfolio_driver.cpp`) signals an identifier that may have been
  reaped, and by then reused by the system.
* Two consequences of fixing above decision level 0: a fixed literal that was
  backtracked and is reported again at a higher user level keeps its old
  level_fixed, so that user_pop does not put it into d_renotify_fixed; and a literal
  fixed while d_found_solution is set is marked as fixed although its assignment is
  not recorded.
* BufferedProofGenerator::getProofFor, if only the symmetric fact has a step,
  adds that step as if it proved the fact itself (`buffered_proof_generator.cpp:111`);
  ProofEqEngine asks only for facts it has added, so the case does not arise here.
* mkScope counts free assumptions that are true by rewriting as used, so that
  the comparison that decides whether to drop unused assumptions is off by them;
  a lemma may then keep assumptions it does not need, and is closed all the same.
* The map of a CDProof is undone by a pop, the nodes it points to are not: what
  was filled in within a level stays in proofs of the enclosing one.
  d_allVisited keeps addresses of nodes that may have been freed.
* ContextManager::userPush calls notifyUserPop and userPop calls
  notifyUserPush (`context_manager.cpp:96` and `107`); both do the same to the
  mode, only their error messages are exchanged.

No property of the context structures or the proofs failed, and of the propagator
only the one above.

## 7. Not modelled

* Context: the notification lists (only the callback points of pop are kept),
  several contexts at once, ScopedPush, clean-up callbacks of CDList, the
  debugging build of the allocator; CDInsertHashMap and the small wrappers.
* Solver engine: synthesis, abduction and interpolation, get-timeout-core, deep
  restarts, preprocessing, exceptions other than the two that
  SmtDriver::checkSat catches.
* Propagator: signs and phases, the lazy preregistration mode, assumptions of
  the unsat core mode, d_stopSearch, exceptions out of callbacks. When a
  backtrack registers literals again, the theories may create atoms, which
  preRegister then adds to d_sat_literals in the middle of the loop
  (`theory_preregistrar.cpp:110-118`); in the model theories create atoms in the
  other callbacks only.
* Nodes: copies of builders, attributes whose values are not counted, the type
  cache, failing allocation, reuse of the addresses of freed nodes. The
  `Assert(d_nv->d_rc > 0)` at the end of an assignment from a TNode
  (`node.h:1173`, `1201`) is a duty of the caller, who has to keep the node alive by
  other means than the handle that is overwritten; it is not among the properties.
* Proofs: SCOPE nodes inside proofs, LazyCDProofChain, the steps that
  explanations of the equality engine add, checking of steps, reuse of addresses.
* Portfolio: failing system calls, --portfolio-jobs=0, the configuration tables,
  the parsing before check-sat, reuse of process identifiers.
* The parts of the inventory marked so. They are functions over terms (rewriters,
  decision procedures, proof rules and their checkers, type checking), generated
  or third-party code, or input and output; they make up nearly all of the half a
  million lines of the repository, have no protocol that small instances would
  show, and would need a term algebra and arithmetic beyond TLC's reach.

## 8. Plan

1. Model next: CDInsertHashMap and CDTrailQueue as instances of
   `SnapshotStack`; the check loop of the theory engine with shared terms; the
   artifact runner; scopes and assumptions in the State of Ethos; the rest of the
   solver engine (queries in each mode, get-timeout-core).
2. Prove next: for `CDProof`, Acyclic, from an order of the nodes that every update
   respects, and on top of it StepsSound.
