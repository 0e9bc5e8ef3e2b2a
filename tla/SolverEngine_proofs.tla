------------------------ MODULE SolverEngine_proofs -------------------------
(***************************************************************************)
(* Proofs about the incremental core, for all sets of formulas,            *)
(* definitions and assumptions, and any number of levels, assertions and   *)
(* definitions.                                                            *)
(*                                                                         *)
(* Most operations of the module are functions on the engine, composed by  *)
(* the actions, so the invariant is stated for an engine e.                *)
(***************************************************************************)
EXTENDS SolverEngine, SequenceTheorems, TLAPS

(* The end of the part of the list that belongs to level k, and that part. *)
EndOf(e, k) == IF k = Len(e.frames) THEN Len(e.list) ELSE e.frames[k + 1].size
Content(e, k) == {e.list[i] : i \in e.frames[k].size + 1 .. EndOf(e, k)}

(* What was saved at each level lies within what was saved above it, and a *)
(* level is pushed only when everything below it has been sent.            *)
FramesOK(e) ==
    /\ e.index \in 0 .. Len(e.list)
    /\ e.frames[1].size = 0
    /\ \A k \in DOMAIN e.frames :
          e.frames[k].index = e.frames[k].size /\ e.frames[k].size <= e.index
    /\ \A k, l \in DOMAIN e.frames : k <= l => e.frames[k].size <= e.frames[l].size

(* Every entry of the list belongs to a level.                             *)
Covered(e) ==
    \A i \in 1 .. Len(e.list) :
       \E k \in DOMAIN e.frames : e.frames[k].size < i /\ i <= EndOf(e, k)

(* PropMirrorsList, of e. *)
Mirror(e) ==
    \A k \in DOMAIN e.frames :
       e.prop[k] = {e.list[i] : i \in {j \in e.frames[k].size + 1 .. EndOf(e, k) : j <= e.index}}

(* The global definitions that the index says are in the list are there,   *)
(* now and after any number of pops, and the list holds no others.         *)
Defs(e) ==
    /\ e.global <= Len(e.globals)
    /\ \A j \in 1 .. e.global : \E i \in 1 .. Len(e.list) : e.list[i] = e.globals[j]
    /\ \A k \in DOMAIN e.frames :
          /\ e.frames[k].global <= Len(e.globals)
          /\ \A j \in 1 .. e.frames[k].global :
                \E i \in 1 .. e.frames[k].size : e.list[i] = e.globals[j]
    /\ \A i \in 1 .. Len(e.list) : e.list[i] \in Definition =>
          \E j \in 1 .. Len(e.globals) : e.globals[j] = e.list[i]

(* An engine that has been initialised, in the midst of a call or not.     *)
Good(e) ==
    /\ e \in Engine /\ e.inited
    /\ Len(e.frames) = e.satLevel /\ Len(e.prop) = Len(e.frames) /\ e.frames # <<>>
    /\ FramesOK(e) /\ Covered(e) /\ Mirror(e) /\ Defs(e)

NewEngine ==
    [inited |-> FALSE, list |-> <<>>, index |-> 0, globals |-> <<>>,
     assumed |-> <<>>, global |-> 0, frames |-> <<>>,
     satLevel |-> 0, prop |-> <<>>, trail |-> FALSE,
     userLevels |-> <<>>, pendingPops |-> 0, needPostsolve |-> FALSE,
     asserts |-> TRUE]

(* Assumptions are found only in the frame of their own.                   *)
AssumptionsApart(e) ==
    \A i \in 1 .. Len(e.list) : e.list[i] \in Assumption =>
       /\ Len(e.userLevels) + 2 \in DOMAIN e.frames
       /\ i > e.frames[Len(e.userLevels) + 2].size

(* Between two calls: decisions only until doPendingPops is called, levels *)
(* above those of the user only if they will be popped by it, or after a   *)
(* failure.                                                                *)
Between(e) ==
    /\ Good(e)
    /\ e.userLevels = [i \in 1 .. Len(e.userLevels) |-> i]
    /\ e.trail => e.needPostsolve
    /\ e.pendingPops > 0 => incremental
    /\ Len(e.frames) >= Len(e.userLevels) + 1 + e.pendingPops
    /\ IF phase = "run" THEN Len(e.frames) = Len(e.userLevels) + 1 + e.pendingPops
       ELSE Len(e.frames) <= Len(e.userLevels) + 2
    /\ ~incremental => Len(e.frames) = 1
    /\ phase = "run" /\ QueryAllowed => AssumptionsApart(e)

(* The inductive invariant. *)
IInv ==
    /\ TypeOK
    /\ eng.asserts
    /\ phase # "ended" => IF eng.inited THEN Between(eng) ELSE eng = NewEngine

-----------------------------------------------------------------------------
(* The operations on an engine, field by field.                            *)

(* The fields of an engine.                                                *)
LEMMA EngineType ==
    ASSUME NEW e \in Engine
    PROVE  /\ e.list \in Seq(Entry) /\ e.globals \in Seq(Definition)
           /\ e.frames \in Seq(Frame) /\ e.prop \in Seq(SUBSET Entry)
           /\ e.userLevels \in Seq(Nat) /\ e.assumed \in Seq(Assumption)
           /\ e.index \in Nat /\ e.global \in Nat /\ e.satLevel \in Nat
           /\ e.pendingPops \in Nat
           /\ e.inited \in BOOLEAN /\ e.trail \in BOOLEAN
           /\ e.needPostsolve \in BOOLEAN /\ e.asserts \in BOOLEAN
  BY DEF Engine

(* The saved values of a level.                                            *)
LEMMA FrameType ==
    ASSUME NEW e \in Engine, NEW k \in 1 .. Len(e.frames)
    PROVE  e.frames[k].size \in Nat /\ e.frames[k].index \in Nat /\ e.frames[k].global \in Nat
  <1>1. e.frames[k] \in Frame  BY EngineType, ElementOfSeq
  <1> QED  BY <1>1 DEF Frame

(* A prefix of a sequence.                                                 *)
LEMMA Prefix ==
    ASSUME NEW S, NEW s \in Seq(S), NEW n \in 0 .. Len(s)
    PROVE  /\ SubSeq(s, 1, n) \in Seq(S)
           /\ Len(SubSeq(s, 1, n)) = n
           /\ \A i \in 1 .. n : SubSeq(s, 1, n)[i] = s[i]
  <1>1. \A i \in 1 .. n : s[i] \in S  BY ElementOfSeq
  <1> QED  BY <1>1, SubSeqProperties

(* A part of a sequence, and the rest of one.                              *)
LEMMA Part ==
    ASSUME NEW S, NEW s \in Seq(S), NEW m \in Nat \ {0}, NEW n \in Nat,
           n <= Len(s), m <= n + 1
    PROVE  /\ SubSeq(s, m, n) \in Seq(S)
           /\ Len(SubSeq(s, m, n)) = n - m + 1
           /\ \A i \in 1 .. n - m + 1 : SubSeq(s, m, n)[i] = s[m + i - 1]
  <1> DEFINE u == SubSeq(s, m, n)
  <1>1. Len(s) \in Nat /\ m \in Int /\ n \in Int /\ \A i \in m .. n : s[i] \in S
    OBVIOUS
  <1>2. /\ u \in Seq(S)
        /\ Len(u) = n - m + 1
        /\ \A i \in 1 .. n - m + 1 : u[i] = s[m + i - 1]
    BY <1>1, SubSeqProperties
  <1> QED  BY <1>2

LEMMA Suffix ==
    ASSUME NEW S, NEW s \in Seq(S), NEW n \in 0 .. Len(s)
    PROVE  /\ SubSeq(s, n + 1, Len(s)) \in Seq(S)
           /\ Len(SubSeq(s, n + 1, Len(s))) = Len(s) - n
           /\ \A i \in 1 .. Len(s) - n : SubSeq(s, n + 1, Len(s))[i] = s[i + n]
  <1>1. Len(s) \in Nat /\ n \in Nat  BY LenProperties
  <1> DEFINE m == n + 1
             l == Len(s)
             t == SubSeq(s, m, l)
  <1>2. m \in Nat \ {0} /\ l \in Nat /\ l <= Len(s) /\ m <= l + 1  BY <1>1
  <1> HIDE DEF m, l
  <1>3. /\ SubSeq(s, m, l) \in Seq(S)
        /\ Len(SubSeq(s, m, l)) = l - m + 1
        /\ \A i \in 1 .. l - m + 1 : SubSeq(s, m, l)[i] = s[m + i - 1]
    BY <1>2, Part, Zenon
  <1> HIDE DEF t
  <1>4. Len(t) = l - n  BY <1>1, <1>3 DEF m, l, t
  <1>5. \A i \in 1 .. l - n : i \in 1 .. l - m + 1 /\ m + i - 1 = i + n
    BY <1>1 DEF m, l
  <1>6. \A i \in 1 .. l - n : t[i] = s[i + n]  BY <1>3, <1>5 DEF t
  <1> QED  BY <1>3, <1>4, <1>6 DEF l, m, t

(* popto, in the user context.                                             *)
LEMMA PopUserContextFields ==
    ASSUME NEW e \in Engine, NEW n \in 0 .. Len(e.frames) - 1,
           e.frames[n + 1].size <= Len(e.list),
           NEW f, f = PopUserContext(e, n)
    PROVE  /\ f \in Engine
           /\ f.list = SubSeq(e.list, 1, e.frames[n + 1].size)
           /\ f.index = e.frames[n + 1].index
           /\ f.global = e.frames[n + 1].global
           /\ f.frames = SubSeq(e.frames, 1, n)
           /\ f.inited = e.inited /\ f.globals = e.globals /\ f.assumed = e.assumed
           /\ f.satLevel = e.satLevel /\ f.prop = e.prop /\ f.trail = e.trail
           /\ f.userLevels = e.userLevels /\ f.pendingPops = e.pendingPops
           /\ f.needPostsolve = e.needPostsolve /\ f.asserts = e.asserts
  <1> DEFINE sz == e.frames[n + 1].size
  <1>1. e.frames \in Seq(Frame) /\ e.list \in Seq(Entry)  BY EngineType
  <1>2. n + 1 \in 1 .. Len(e.frames) /\ n \in 0 .. Len(e.frames)  BY <1>1, LenProperties
  <1>3. sz \in 0 .. Len(e.list) /\ e.frames[n + 1].index \in Nat /\ e.frames[n + 1].global \in Nat
    BY <1>1, <1>2, FrameType, LenProperties
  <1>4. SubSeq(e.list, 1, sz) \in Seq(Entry)  BY <1>1, <1>3, Prefix
  <1>5. SubSeq(e.frames, 1, n) \in Seq(Frame)  BY <1>1, <1>2, Prefix
  <1> QED  BY <1>3, <1>4, <1>5 DEF PopUserContext, Engine

(* Pops of the SAT solver.                                                 *)
LEMMA PopPropFields ==
    ASSUME NEW e \in Engine, NEW n \in Nat, n <= e.satLevel, n <= Len(e.prop),
           NEW f, f = popPropContext(e, n)
    PROVE  /\ f \in Engine
           /\ f.prop = SubSeq(e.prop, 1, Len(e.prop) - n)
           /\ f.satLevel = e.satLevel - n
           /\ f.asserts = (e.asserts /\ ~e.trail)
           /\ f.inited = e.inited /\ f.globals = e.globals /\ f.assumed = e.assumed
           /\ f.list = e.list /\ f.index = e.index /\ f.global = e.global
           /\ f.frames = e.frames /\ f.trail = e.trail
           /\ f.userLevels = e.userLevels /\ f.pendingPops = e.pendingPops
           /\ f.needPostsolve = e.needPostsolve
  <1> DEFINE m == Len(e.prop) - n
  <1>1. e.prop \in Seq(SUBSET Entry) /\ e.satLevel \in Nat  BY EngineType
  <1>2. m \in 0 .. Len(e.prop)  BY <1>1, LenProperties
  <1>3. SubSeq(e.prop, 1, m) \in Seq(SUBSET Entry)  BY <1>1, <1>2, Prefix
  <1>4. e.satLevel - n \in Nat  BY <1>1
  <1>5. (e.asserts /\ ~e.trail) \in BOOLEAN  OBVIOUS
  <1> QED  BY <1>3, <1>4, <1>5 DEF popPropContext, Engine

(* What pushes of the user context and of the SAT solver save.             *)
LEMMA PushUserContextFields ==
    ASSUME NEW e \in Engine, NEW f, f = PushUserContext(e)
    PROVE  /\ f \in Engine
           /\ f.frames = Append(e.frames, [size |-> Len(e.list), index |-> e.index,
                                           global |-> e.global])
           /\ f.inited = e.inited /\ f.globals = e.globals /\ f.assumed = e.assumed
           /\ f.list = e.list /\ f.index = e.index /\ f.global = e.global
           /\ f.satLevel = e.satLevel /\ f.prop = e.prop /\ f.trail = e.trail
           /\ f.userLevels = e.userLevels /\ f.pendingPops = e.pendingPops
           /\ f.needPostsolve = e.needPostsolve /\ f.asserts = e.asserts
  <1> DEFINE r == [size |-> Len(e.list), index |-> e.index, global |-> e.global]
  <1>1. r \in Frame  BY EngineType, LenProperties DEF Frame
  <1>2. Append(e.frames, r) \in Seq(Frame)  BY <1>1, EngineType, AppendProperties
  <1> QED  BY <1>2 DEF PushUserContext, Engine

LEMMA PushPropFields ==
    ASSUME NEW e \in Engine, NEW f, f = pushPropContext(e)
    PROVE  /\ f \in Engine
           /\ f.prop = Append(e.prop, {})
           /\ f.satLevel = e.satLevel + 1
           /\ f.asserts = (e.asserts /\ ~e.trail)
           /\ f.inited = e.inited /\ f.globals = e.globals /\ f.assumed = e.assumed
           /\ f.list = e.list /\ f.index = e.index /\ f.global = e.global
           /\ f.frames = e.frames /\ f.trail = e.trail
           /\ f.userLevels = e.userLevels /\ f.pendingPops = e.pendingPops
           /\ f.needPostsolve = e.needPostsolve
  <1>1. Append(e.prop, {}) \in Seq(SUBSET Entry)  BY EngineType, AppendProperties
  <1>2. e.satLevel + 1 \in Nat  BY EngineType
  <1>3. (e.asserts /\ ~e.trail) \in BOOLEAN  OBVIOUS
  <1> QED  BY <1>1, <1>2, <1>3 DEF pushPropContext, Engine


(* Assertions::refresh.                                                    *)
LEMMA RefreshFields ==
    ASSUME NEW e \in Engine, e.global <= Len(e.globals), NEW f, f = refresh(e)
    PROVE  /\ f \in Engine
           /\ f.list \in Seq(Entry)
           /\ Len(f.list) = Len(e.list) + (Len(e.globals) - e.global)
           /\ \A i \in 1 .. Len(e.list) : f.list[i] = e.list[i]
           /\ \A i \in Len(e.list) + 1 .. Len(f.list) :
                 f.list[i] = e.globals[i - Len(e.list) + e.global]
           /\ f.global = Len(e.globals)
           /\ f.inited = e.inited /\ f.globals = e.globals /\ f.assumed = e.assumed
           /\ f.index = e.index /\ f.frames = e.frames /\ f.satLevel = e.satLevel
           /\ f.prop = e.prop /\ f.trail = e.trail
           /\ f.userLevels = e.userLevels /\ f.pendingPops = e.pendingPops
           /\ f.needPostsolve = e.needPostsolve /\ f.asserts = e.asserts
  <1> DEFINE t == SubSeq(e.globals, e.global + 1, Len(e.globals))
             l == e.list \o t
  <1>1. e.list \in Seq(Entry) /\ e.globals \in Seq(Definition) /\ e.global \in Nat
    BY EngineType
  <1>2. Len(e.list) \in Nat /\ Len(e.globals) \in Nat  BY <1>1, LenProperties
  <1>3. \A i \in 1 .. Len(e.globals) : e.globals[i] \in Entry
    BY <1>1, ElementOfSeq DEF Entry
  <1>5. /\ t \in Seq(Entry)
        /\ Len(t) = Len(e.globals) - e.global
        /\ \A i \in 1 .. Len(t) : t[i] = e.globals[i + e.global]
    <2>1. e.globals \in Seq(Entry)  BY <1>1, <1>3, LenProperties, IsASeq, SeqMonotonic DEF Entry
    <2>2. e.global \in 0 .. Len(e.globals)  BY <1>1, <1>2
    <2>3. /\ t \in Seq(Entry) /\ Len(t) = Len(e.globals) - e.global
          /\ \A i \in 1 .. Len(e.globals) - e.global : t[i] = e.globals[i + e.global]
      BY <2>1, <2>2, Suffix, Zenon
    <2> QED  BY <2>3, Zenon
  <1> HIDE DEF t
  <1>6. /\ l \in Seq(Entry)
        /\ Len(l) = Len(e.list) + Len(t)
        /\ \A i \in 1 .. Len(e.list) + Len(t) :
              l[i] = IF i <= Len(e.list) THEN e.list[i] ELSE t[i - Len(e.list)]
    BY <1>1, <1>5, ConcatProperties
  <1>7. f = [e EXCEPT !.list = l, !.global = Len(e.globals)]  BY DEF refresh, t
  <1> HIDE DEF l
  <1>8. f.list = l /\ f \in Engine /\ f.global = Len(e.globals)
    BY <1>2, <1>6, <1>7 DEF Engine
  <1>9. \A i \in 1 .. Len(e.list) : f.list[i] = e.list[i]
    BY <1>2, <1>5, <1>6, <1>8
  <1>10. \A i \in Len(e.list) + 1 .. Len(f.list) :
            f.list[i] = e.globals[i - Len(e.list) + e.global]
    <2> TAKE i \in Len(e.list) + 1 .. Len(f.list)
    <2>1. f.list[i] = t[i - Len(e.list)]  BY <1>2, <1>5, <1>6, <1>8
    <2>2. i - Len(e.list) \in 1 .. Len(t)  BY <1>2, <1>5, <1>6, <1>8
    <2> HIDE DEF l
    <2> QED  BY <2>1, <2>2, <1>5
  <1>11. Len(f.list) = Len(e.list) + (Len(e.globals) - e.global)
    BY <1>5, <1>6, <1>8
  <1>12. /\ f.inited = e.inited /\ f.globals = e.globals /\ f.assumed = e.assumed
         /\ f.index = e.index /\ f.frames = e.frames /\ f.satLevel = e.satLevel
         /\ f.prop = e.prop /\ f.trail = e.trail
         /\ f.userLevels = e.userLevels /\ f.pendingPops = e.pendingPops
         /\ f.needPostsolve = e.needPostsolve /\ f.asserts = e.asserts
    BY <1>7 DEF Engine
  <1> QED  BY <1>6, <1>8, <1>9, <1>10, <1>11, <1>12

(* getNextAssertions and assertToInternal.                                 *)
LEMMA AssertToInternalFields ==
    ASSUME NEW e \in Engine, e.prop # <<>>, e.index <= Len(e.list),
           NEW f, f = assertToInternal(e)
    PROVE  /\ f \in Engine
           /\ Len(f.prop) = Len(e.prop)
           /\ \A k \in 1 .. Len(e.prop) : k < Len(e.prop) => f.prop[k] = e.prop[k]
           /\ f.prop[Len(e.prop)] = e.prop[Len(e.prop)] \cup
                 {e.list[i] : i \in e.index + 1 .. Len(e.list)}
           /\ f.index = Len(e.list)
           /\ f.inited = e.inited /\ f.globals = e.globals /\ f.assumed = e.assumed
           /\ f.list = e.list /\ f.global = e.global
           /\ f.frames = e.frames /\ f.satLevel = e.satLevel /\ f.trail = e.trail
           /\ f.userLevels = e.userLevels /\ f.pendingPops = e.pendingPops
           /\ f.needPostsolve = e.needPostsolve /\ f.asserts = e.asserts
  <1> DEFINE t == SubSeq(e.list, e.index + 1, Len(e.list))
             n == Len(e.prop)
             p == [e.prop EXCEPT ![n] = @ \cup Range(t)]
  <1>1. /\ e.list \in Seq(Entry) /\ e.index \in Nat /\ e.prop \in Seq(SUBSET Entry)
    BY EngineType
  <1>2. Len(e.list) \in Nat /\ n \in Nat \ {0}  BY <1>1, EmptySeq, LenProperties
  <1>3. \A i \in 1 .. Len(e.list) : e.list[i] \in Entry  BY <1>1, ElementOfSeq
  <1>4. /\ t \in Seq(Entry)
        /\ Len(t) = Len(e.list) - e.index
        /\ \A i \in 1 .. Len(t) : t[i] = e.list[i + e.index]
    <2>1. e.index \in 0 .. Len(e.list)  BY <1>1, <1>2
    <2>2. /\ t \in Seq(Entry) /\ Len(t) = Len(e.list) - e.index
          /\ \A i \in 1 .. Len(e.list) - e.index : t[i] = e.list[i + e.index]
      BY <2>1, <1>1, Suffix, Zenon
    <2> QED  BY <2>2, Zenon
  <1> HIDE DEF t
  <1>5. Range(t) = {e.list[i] : i \in e.index + 1 .. Len(e.list)}
    <2>1. DOMAIN t = 1 .. Len(t)  BY <1>4, LenProperties
    <2>2. ASSUME NEW x \in Range(t)
          PROVE  x \in {e.list[i] : i \in e.index + 1 .. Len(e.list)}
      <3>1. PICK i \in 1 .. Len(t) : x = t[i]  BY <2>1 DEF Range
      <3>2. i + e.index \in e.index + 1 .. Len(e.list)  BY <1>1, <1>2, <1>4
      <3> QED  BY <3>1, <3>2, <1>4
    <2>3. ASSUME NEW i \in e.index + 1 .. Len(e.list)
          PROVE  e.list[i] \in Range(t)
      <3>1. i - e.index \in 1 .. Len(t) /\ i - e.index + e.index = i  BY <1>1, <1>2, <1>4
      <3>2. e.list[i] = t[i - e.index]  BY <3>1, <1>4
      <3> QED  BY <3>1, <3>2, <2>1 DEF Range
    <2> QED  BY <2>2, <2>3
  <1>6. Range(t) \subseteq Entry  BY <1>1, <1>2, <1>3, <1>5
  <1>7. e.prop[n] \in SUBSET Entry /\ n \in 1 .. Len(e.prop)
    BY <1>1, <1>2, ElementOfSeq
  <1>8. e.prop[n] \cup Range(t) \in SUBSET Entry  BY <1>6, <1>7
  <1>9. /\ p \in Seq(SUBSET Entry) /\ Len(p) = n
        /\ p[n] = e.prop[n] \cup Range(t)
        /\ \A k \in 1 .. n : k < n => p[k] = e.prop[k]
    BY <1>1, <1>2, <1>7, <1>8, ExceptSeq
  <1> HIDE DEF p
  <1>10. f = [e EXCEPT !.prop = p, !.index = Len(e.list)]
    BY DEF assertToInternal, p, t, n, Engine
  <1>11. f.prop = p /\ f \in Engine /\ f.index = Len(e.list)
    BY <1>2, <1>9, <1>10 DEF Engine
  <1>12. /\ f.inited = e.inited /\ f.globals = e.globals /\ f.assumed = e.assumed
         /\ f.list = e.list /\ f.global = e.global
         /\ f.frames = e.frames /\ f.satLevel = e.satLevel /\ f.trail = e.trail
         /\ f.userLevels = e.userLevels /\ f.pendingPops = e.pendingPops
         /\ f.needPostsolve = e.needPostsolve /\ f.asserts = e.asserts
    BY <1>10 DEF Engine
  <1> QED  BY <1>5, <1>9, <1>11, <1>12


-----------------------------------------------------------------------------
(* The operations keep a good engine good.                                 *)

(* Facts about a good engine that the proofs below keep needing.           *)
LEMMA GoodFacts ==
    ASSUME NEW e, Good(e)
    PROVE  /\ e \in Engine
           /\ Len(e.frames) \in Nat \ {0} /\ Len(e.list) \in Nat /\ Len(e.globals) \in Nat
           /\ DOMAIN e.frames = 1 .. Len(e.frames) /\ DOMAIN e.prop = 1 .. Len(e.frames)
           /\ \A k \in 1 .. Len(e.frames) :
                 /\ e.frames[k].size \in Nat /\ e.frames[k].global \in Nat
                 /\ e.frames[k].index = e.frames[k].size
                 /\ e.frames[k].size <= Len(e.list)
                 /\ EndOf(e, k) \in Nat /\ EndOf(e, k) <= Len(e.list)
                 /\ e.frames[k].size <= EndOf(e, k)
           /\ \A i \in 1 .. Len(e.list) : e.list[i] \in Entry
  <1>1. e \in Engine /\ FramesOK(e) /\ e.frames # <<>> /\ Len(e.prop) = Len(e.frames)
    BY DEF Good
  <1>2. e.frames \in Seq(Frame) /\ e.prop \in Seq(SUBSET Entry) /\ e.list \in Seq(Entry)
        /\ e.globals \in Seq(Definition) /\ e.index \in Nat
    BY <1>1, EngineType
  <1>3. /\ Len(e.frames) \in Nat \ {0} /\ Len(e.list) \in Nat /\ Len(e.globals) \in Nat
        /\ DOMAIN e.frames = 1 .. Len(e.frames) /\ DOMAIN e.prop = 1 .. Len(e.frames)
    BY <1>1, <1>2, EmptySeq, LenProperties
  <1>4. \A i \in 1 .. Len(e.list) : e.list[i] \in Entry  BY <1>2, ElementOfSeq
  <1>5. ASSUME NEW k \in 1 .. Len(e.frames)
        PROVE  /\ e.frames[k].size \in Nat /\ e.frames[k].global \in Nat
               /\ e.frames[k].index = e.frames[k].size
               /\ e.frames[k].size <= Len(e.list)
               /\ EndOf(e, k) \in Nat /\ EndOf(e, k) <= Len(e.list)
               /\ e.frames[k].size <= EndOf(e, k)
    <2>1. \A l \in 1 .. Len(e.frames) :
             /\ e.frames[l].size \in Nat /\ e.frames[l].global \in Nat
             /\ e.frames[l].index = e.frames[l].size
             /\ e.frames[l].size <= Len(e.list)
      <3> TAKE l \in 1 .. Len(e.frames)
      <3>1. e.frames[l].size \in Nat /\ e.frames[l].global \in Nat  BY <1>1, FrameType
      <3>2. e.frames[l].index = e.frames[l].size /\ e.frames[l].size <= e.index
        BY <1>1, <1>3 DEF FramesOK
      <3>3. e.index <= Len(e.list)  BY <1>1, <1>3 DEF FramesOK
      <3> QED  BY <1>2, <1>3, <3>1, <3>2, <3>3
    <2>2. CASE k = Len(e.frames)
      BY <2>1, <2>2, <1>3 DEF EndOf
    <2>3. CASE k # Len(e.frames)
      <3>1. k + 1 \in 1 .. Len(e.frames) /\ k <= k + 1  BY <1>3, <2>3
      <3>2. e.frames[k].size <= e.frames[k + 1].size
        BY <1>1, <1>3, <3>1 DEF FramesOK
      <3>3. EndOf(e, k) = e.frames[k + 1].size  BY <2>3 DEF EndOf
      <3> QED  BY <2>1, <3>1, <3>2, <3>3
    <2> QED  BY <2>2, <2>3
  <1> QED  BY <1>1, <1>3, <1>4, <1>5

(* Only these fields matter.                                               *)
LEMMA SameState ==
    ASSUME NEW e, Good(e), NEW f \in Engine,
           f.inited = e.inited, f.list = e.list, f.index = e.index,
           f.globals = e.globals, f.global = e.global, f.frames = e.frames,
           f.satLevel = e.satLevel, f.prop = e.prop
    PROVE  Good(f) /\ \A k : Content(f, k) = Content(e, k)
  <1>1. \A k : EndOf(f, k) = EndOf(e, k)  BY DEF EndOf
  <1>2. \A k : Content(f, k) = Content(e, k)  BY <1>1 DEF Content
  <1>3. FramesOK(f)  BY DEF Good, FramesOK
  <1>4. Covered(f)  BY <1>1 DEF Good, Covered
  <1>5. Mirror(f)  BY <1>1 DEF Good, Mirror
  <1>6. Defs(f)  BY DEF Good, Defs
  <1> QED  BY <1>2, <1>3, <1>4, <1>5, <1>6 DEF Good

(* An engine cut back to its first m levels, which had all been sent.      *)
CutBack(e, m, f) ==
    /\ f \in Engine
    /\ Len(f.frames) = m /\ \A k \in 1 .. m : f.frames[k] = e.frames[k]
    /\ Len(f.prop) = m /\ \A k \in 1 .. m : f.prop[k] = e.prop[k]
    /\ Len(f.list) = e.frames[m + 1].size
    /\ \A i \in 1 .. Len(f.list) : f.list[i] = e.list[i]
    /\ f.index = e.frames[m + 1].size /\ f.global = e.frames[m + 1].global
    /\ f.satLevel = m

(* What pops leave alone.                                                  *)
SameFlags(e, f) ==
    /\ f.inited = e.inited /\ f.globals = e.globals /\ f.assumed = e.assumed
    /\ f.trail = e.trail /\ f.userLevels = e.userLevels
    /\ f.pendingPops = e.pendingPops /\ f.needPostsolve = e.needPostsolve

LEMMA PopLevelsCutsBack ==
    ASSUME NEW e, Good(e), NEW n \in Nat \ {0}, n < Len(e.frames),
           NEW f, f = PopLevels(e, n)
    PROVE  /\ CutBack(e, Len(e.frames) - n, f) /\ SameFlags(e, f)
           /\ f.asserts = (e.asserts /\ ~e.trail)
  <1> DEFINE N == Len(e.frames)
             m == N - n
             p == popPropContext(e, n)
             sz == e.frames[m + 1].size
  <1>1. e \in Engine /\ Len(e.prop) = N /\ e.satLevel = N  BY DEF Good
  <1>2. N \in Nat \ {0}  BY GoodFacts
  <1>3. m \in Nat /\ m + 1 \in 1 .. N /\ m \in 0 .. N - 1 /\ n <= N  BY <1>2
  <1>4. p = popPropContext(e, n) /\ f = PopUserContext(p, m)  BY DEF PopLevels
  <1>5. Len(e.prop) - n = m /\ e.satLevel - n = m  BY <1>1
  <1> HIDE DEF m, p
  <1>6. /\ p \in Engine /\ p.prop = SubSeq(e.prop, 1, Len(e.prop) - n)
        /\ p.satLevel = e.satLevel - n
        /\ p.asserts = (e.asserts /\ ~e.trail)
        /\ p.list = e.list /\ p.index = e.index /\ p.global = e.global
        /\ p.frames = e.frames /\ SameFlags(e, p)
    <2>1. n \in Nat /\ n <= e.satLevel /\ n <= Len(e.prop)  BY <1>1, <1>3
    <2> QED  BY <2>1, <1>1, <1>4, PopPropFields DEF SameFlags
  <1>7. sz \in Nat /\ sz <= Len(e.list) /\ e.frames[m + 1].index = sz
    BY <1>3, GoodFacts
  <1>8. /\ f \in Engine /\ f.list = SubSeq(e.list, 1, sz)
        /\ f.index = sz /\ f.global = e.frames[m + 1].global
        /\ f.frames = SubSeq(e.frames, 1, m)
        /\ f.satLevel = p.satLevel /\ f.prop = p.prop
        /\ f.asserts = p.asserts /\ SameFlags(p, f)
    <2>1. m \in 0 .. Len(p.frames) - 1 /\ p.frames[m + 1].size <= Len(p.list)
      BY <1>3, <1>6, <1>7
    <2>2. /\ f \in Engine /\ f.list = SubSeq(p.list, 1, p.frames[m + 1].size)
          /\ f.index = p.frames[m + 1].index /\ f.global = p.frames[m + 1].global
          /\ f.frames = SubSeq(p.frames, 1, m)
          /\ f.satLevel = p.satLevel /\ f.prop = p.prop
          /\ f.asserts = p.asserts /\ SameFlags(p, f)
      <3>1. p \in Engine /\ f = PopUserContext(p, m)  BY <1>4, <1>6
      <3> QED  BY <3>1, <2>1, PopUserContextFields DEF SameFlags
    <2> QED  BY <1>6, <1>7, <2>2
  <1> HIDE DEF sz
  <1>9. e.frames \in Seq(Frame) /\ e.list \in Seq(Entry) /\ e.prop \in Seq(SUBSET Entry)
    BY <1>1, EngineType
  <1>10. m \in 0 .. Len(e.frames) /\ m \in 0 .. Len(e.prop) /\ sz \in 0 .. Len(e.list)
    <2>1. Len(e.list) \in Nat  BY <1>9, LenProperties
    <2> QED  BY <1>1, <1>3, <1>7, <2>1
  <1>11. f.prop = SubSeq(e.prop, 1, m) /\ f.satLevel = m
    BY <1>5, <1>6, <1>8
  <1>12. Len(f.frames) = m /\ \A k \in 1 .. m : f.frames[k] = e.frames[k]
    BY <1>8, <1>9, <1>10, Prefix
  <1>13. Len(f.prop) = m /\ \A k \in 1 .. m : f.prop[k] = e.prop[k]
    BY <1>9, <1>10, <1>11, Prefix
  <1>14. Len(f.list) = sz /\ \A i \in 1 .. sz : f.list[i] = e.list[i]
    BY <1>8, <1>9, <1>10, Prefix
  <1>15. CutBack(e, m, f)
    BY <1>8, <1>11, <1>12, <1>13, <1>14 DEF CutBack, sz
  <1>16. SameFlags(e, f) /\ f.asserts = (e.asserts /\ ~e.trail)
    BY <1>6, <1>8 DEF SameFlags
  <1> QED  BY <1>15, <1>16 DEF m

(* Levels that go leave those below as they were, with all their formulas  *)
(* sent.                                                                   *)
LEMMA CutBackGood ==
    ASSUME NEW e, Good(e), NEW m \in Nat \ {0}, m < Len(e.frames),
           NEW f, CutBack(e, m, f), SameFlags(e, f)
    PROVE  Good(f) /\ \A k \in 1 .. m : Content(f, k) = Content(e, k)
  <1> DEFINE N == Len(e.frames)
             sz == e.frames[m + 1].size
  <1>1. /\ e \in Engine /\ FramesOK(e) /\ Covered(e) /\ Mirror(e) /\ Defs(e) /\ e.inited
        /\ f \in Engine /\ f.globals = e.globals /\ f.inited = e.inited
    BY DEF Good, SameFlags, CutBack
  <1>2. /\ Len(f.frames) = m /\ \A k \in 1 .. m : f.frames[k] = e.frames[k]
        /\ Len(f.prop) = m /\ \A k \in 1 .. m : f.prop[k] = e.prop[k]
        /\ Len(f.list) = sz /\ f.satLevel = m
        /\ \A i \in 1 .. sz : f.list[i] = e.list[i]
        /\ f.index = sz /\ f.global = e.frames[m + 1].global
    BY DEF CutBack
  <1>3. N \in Nat /\ Len(e.list) \in Nat /\ DOMAIN e.frames = 1 .. N  BY GoodFacts
  <1>4. m + 1 \in 1 .. N /\ \A k \in 1 .. m : k \in 1 .. N /\ k # N /\ k + 1 \in 1 .. N
    BY <1>3
  <1>5. sz \in Nat /\ sz <= Len(e.list)  BY <1>4, GoodFacts
  <1>6. DOMAIN f.frames = 1 .. m
    BY <1>1, <1>2, EngineType, LenProperties
  <1>7. sz <= e.index /\ e.index \in Nat
    BY <1>1, <1>3, <1>4, EngineType DEF FramesOK
  <1>8. \A k, l \in 1 .. N : k <= l => e.frames[k].size <= e.frames[l].size
    BY <1>1, <1>3 DEF FramesOK
  <1> HIDE DEF N
  <1>9. ASSUME NEW k \in 1 .. m
        PROVE  /\ EndOf(e, k) = e.frames[k + 1].size
               /\ EndOf(f, k) = EndOf(e, k)
               /\ EndOf(e, k) \in Nat /\ e.frames[k].size \in Nat
               /\ EndOf(e, k) <= sz /\ e.frames[k].size <= sz
               /\ e.frames[k].index = e.frames[k].size
    <2>1. k \in 1 .. N /\ k # N /\ k + 1 \in 1 .. N /\ m + 1 \in 1 .. N
          /\ k <= m + 1 /\ k + 1 <= m + 1
      BY <1>4
    <2>2. EndOf(e, k) = e.frames[k + 1].size  BY <2>1 DEF EndOf, N
    <2>3. e.frames[k].size <= sz /\ e.frames[k + 1].size <= sz  BY <2>1, <1>8
    <2>4. EndOf(e, k) \in Nat /\ e.frames[k].size \in Nat
          /\ e.frames[k].index = e.frames[k].size
      BY <2>1, GoodFacts DEF N
    <2>5. CASE k = m
      BY <2>2, <2>3, <2>4, <2>5, <1>2 DEF EndOf
    <2>6. CASE k # m
      <3>1. k + 1 \in 1 .. m  BY <2>6
      <3>2. f.frames[k + 1] = e.frames[k + 1]  BY <3>1, <1>2
      <3>3. EndOf(f, k) = f.frames[k + 1].size  BY <2>6, <1>2 DEF EndOf
      <3> QED  BY <3>2, <3>3, <2>2, <2>3, <2>4
    <2> QED  BY <2>5, <2>6
  <1> HIDE DEF sz
  <1>10. \A k \in 1 .. m : Content(f, k) = Content(e, k)
    <2> TAKE k \in 1 .. m
    <2>1. f.frames[k].size = e.frames[k].size /\ EndOf(f, k) = EndOf(e, k)
      BY <1>2, <1>9
    <2>2. \A i \in e.frames[k].size + 1 .. EndOf(e, k) : i \in 1 .. sz
      BY <1>5, <1>9, SMTT(30)
    <2>3. \A i \in e.frames[k].size + 1 .. EndOf(e, k) : f.list[i] = e.list[i]
      BY <2>2, <1>2
    <2> QED  BY <2>1, <2>3 DEF Content
  <1>11. FramesOK(f)
    <2>1. 1 \in 1 .. m /\ 1 \in 1 .. N  BY <1>4
    <2>2. f.index \in 0 .. Len(f.list)  BY <1>5, <1>2
    <2>3. f.frames[1].size = 0  BY <1>1, <2>1, <1>2 DEF FramesOK
    <2>4. \A k \in 1 .. m : f.frames[k].index = f.frames[k].size /\ f.frames[k].size <= f.index
      <3> TAKE k \in 1 .. m
      <3>1. f.frames[k] = e.frames[k] /\ f.index = sz  BY <1>2
      <3> QED  BY <3>1, <1>9
    <2>5. \A k, l \in 1 .. m : k <= l => f.frames[k].size <= f.frames[l].size
      <3> TAKE k, l \in 1 .. m
      <3>1. f.frames[k] = e.frames[k] /\ f.frames[l] = e.frames[l]  BY <1>2
      <3> QED  BY <3>1, <1>4, <1>8
    <2> QED  BY <1>6, <2>2, <2>3, <2>4, <2>5 DEF FramesOK
  <1>12. Mirror(f)
    <2> SUFFICES ASSUME NEW k \in 1 .. m
                 PROVE  f.prop[k] = {f.list[i] : i \in
                           {j \in f.frames[k].size + 1 .. EndOf(f, k) : j <= f.index}}
      BY <1>6 DEF Mirror
    <2>1. k \in DOMAIN e.frames  BY <1>3, <1>4 DEF N
    <2> DEFINE J == {j \in e.frames[k].size + 1 .. EndOf(e, k) : j <= e.index}
    <2>2. e.prop[k] = {e.list[i] : i \in J}
      BY <2>1, <1>1 DEF Mirror
    <2>3. f.frames[k] = e.frames[k] /\ f.prop[k] = e.prop[k] /\ f.index = sz
      BY <1>2
    <2>4. J = {j \in f.frames[k].size + 1 .. EndOf(f, k) : j <= f.index}
      BY <2>3, <1>5, <1>7, <1>9
    <2>5. \A i \in J : i \in 1 .. sz
      BY <1>5, <1>9, SMTT(30)
    <2> HIDE DEF J
    <2>6. \A i \in J : f.list[i] = e.list[i]
      BY <2>5, <1>2
    <2>7. f.prop[k] = {f.list[i] : i \in J}
      BY <2>2, <2>3, <2>6
    <2> QED  BY <2>4, <2>7
  <1>13. Defs(f)
    <2>1. m + 1 \in DOMAIN e.frames  BY <1>3, <1>4 DEF N
    <2>2. /\ f.global <= Len(f.globals)
          /\ \A j \in 1 .. f.global : \E i \in 1 .. Len(f.list) : f.list[i] = f.globals[j]
      <3>1. /\ e.frames[m + 1].global <= Len(e.globals)
            /\ \A j \in 1 .. e.frames[m + 1].global :
                  \E i \in 1 .. sz : e.list[i] = e.globals[j]
        BY <2>1, <1>1 DEF Defs, sz
      <3> QED  BY <3>1, <1>1, <1>2
    <2>3. ASSUME NEW k \in 1 .. m
          PROVE  /\ f.frames[k].global <= Len(f.globals)
                 /\ \A j \in 1 .. f.frames[k].global :
                       \E i \in 1 .. f.frames[k].size : f.list[i] = f.globals[j]
      <3>1. k \in DOMAIN e.frames /\ f.frames[k] = e.frames[k]  BY <1>2, <1>3, <1>4 DEF N
      <3>2. \A i \in 1 .. e.frames[k].size : i \in 1 .. sz  BY <1>5, <1>9
      <3>3. \A i \in 1 .. e.frames[k].size : f.list[i] = e.list[i]  BY <3>2, <1>2
      <3>4. /\ e.frames[k].global <= Len(e.globals)
            /\ \A j \in 1 .. e.frames[k].global :
                  \E i \in 1 .. e.frames[k].size : e.list[i] = e.globals[j]
        BY <3>1, <1>1 DEF Defs
      <3> QED  BY <3>1, <3>3, <3>4, <1>1
    <2>4. \A i \in 1 .. Len(f.list) : f.list[i] \in Definition =>
             \E j \in 1 .. Len(f.globals) : f.globals[j] = f.list[i]
      <3>1. \A i \in 1 .. sz : i \in 1 .. Len(e.list)  BY <1>3, <1>5
      <3>2. \A i \in 1 .. Len(e.list) : e.list[i] \in Definition =>
               \E j \in 1 .. Len(e.globals) : e.globals[j] = e.list[i]
        BY <1>1 DEF Defs
      <3> QED  BY <3>1, <3>2, <1>1, <1>2, SMTT(30)
    <2> QED  BY <1>6, <2>2, <2>3, <2>4 DEF Defs
  <1>14. f.frames # <<>>
    <2>1. Len(f.frames) # 0  BY <1>2
    <2> QED  BY <2>1, Zenon, EmptySeq
  <1>15. Covered(f)
    <2> SUFFICES ASSUME NEW i \in 1 .. sz
                 PROVE  \E k \in 1 .. m : f.frames[k].size < i /\ i <= EndOf(f, k)
      BY <1>2, <1>6 DEF Covered
    <2>1. i \in 1 .. Len(e.list)  BY <1>3, <1>5
    <2>2. PICK k \in 1 .. N : e.frames[k].size < i /\ i <= EndOf(e, k)
      BY <2>1, <1>1, <1>3 DEF Covered, N
    <2>3. e.frames[k].size \in Nat  BY GoodFacts DEF N
    <2>4. k <= m
      <3> SUFFICES ASSUME m + 1 <= k PROVE FALSE  OBVIOUS
      <3>1. sz <= e.frames[k].size  BY <1>4, <1>8 DEF sz
      <3> QED  BY <3>1, <2>2, <2>3, <1>5
    <2>5. k \in 1 .. m  BY <2>4
    <2> QED  BY <2>2, <2>5, <1>2, <1>9
  <1>16. Good(f)
    BY <1>1, <1>2, <1>11, <1>12, <1>13, <1>14, <1>15 DEF Good
  <1> QED
    BY <1>10, <1>16


(* An engine whose list has grown.                                         *)
Grown(e, f) ==
    /\ f \in Engine /\ f.inited = e.inited
    /\ f.index = e.index /\ f.frames = e.frames
    /\ f.satLevel = e.satLevel /\ f.prop = e.prop
    /\ Len(f.list) >= Len(e.list)
    /\ \A i \in 1 .. Len(e.list) : f.list[i] = e.list[i]

(* What is added to the list belongs to the top level and waits to be sent. *)
LEMMA GrownGood ==
    ASSUME NEW e, Good(e), NEW f, Grown(e, f), Defs(f)
    PROVE  /\ Good(f)
           /\ \A k \in 1 .. Len(e.frames) :
                 Content(f, k) = Content(e, k) \cup
                    (IF k = Len(e.frames)
                     THEN {f.list[i] : i \in Len(e.list) + 1 .. Len(f.list)} ELSE {})
  <1> DEFINE N == Len(e.frames)
             n == Len(e.list)
             m == Len(f.list)
  <1>1. e \in Engine /\ FramesOK(e) /\ Covered(e) /\ Mirror(e) /\ e.inited /\ e.frames # <<>>
        /\ Len(e.frames) = e.satLevel /\ Len(e.prop) = Len(e.frames)
    BY DEF Good
  <1>2. /\ f \in Engine /\ f.inited = e.inited
        /\ f.index = e.index /\ f.frames = e.frames
        /\ f.satLevel = e.satLevel /\ f.prop = e.prop
    BY DEF Grown
  <1>3. \A i \in 1 .. n : f.list[i] = e.list[i]  BY DEF Grown
  <1>4. n \in Nat /\ m \in Nat /\ n <= m
    BY <1>1, <1>2, EngineType, LenProperties DEF Grown
  <1>5. N \in Nat /\ DOMAIN e.frames = 1 .. N  BY GoodFacts
  <1>6. e.index \in Nat /\ e.index <= n  BY <1>1, EngineType DEF FramesOK
  <1>7. FramesOK(f)
    <2>1. f.index \in 0 .. m  BY <1>2, <1>4, <1>6
    <2> QED  BY <2>1, <1>1, <1>2 DEF FramesOK
  <1>8. ASSUME NEW k \in 1 .. N
        PROVE  /\ EndOf(e, k) \in Nat /\ e.frames[k].size \in Nat /\ EndOf(e, k) <= n
               /\ e.frames[k].size <= EndOf(e, k)
               /\ k # N => EndOf(f, k) = EndOf(e, k)
               /\ k = N => EndOf(f, k) = m /\ EndOf(e, k) = n
    <2>1. EndOf(e, k) \in Nat /\ e.frames[k].size \in Nat /\ EndOf(e, k) <= n
          /\ e.frames[k].size <= EndOf(e, k)
      BY GoodFacts
    <2> QED  BY <2>1, <1>2 DEF EndOf
  <1> HIDE DEF N, n, m
  <1>9. ASSUME NEW k \in 1 .. N
        PROVE  Content(f, k) = Content(e, k) \cup
                  (IF k = N THEN {f.list[i] : i \in n + 1 .. m} ELSE {})
    <2> DEFINE I == e.frames[k].size + 1 .. EndOf(e, k)
    <2>1. \A i \in I : i \in 1 .. n  BY <1>4, <1>8
    <2>2. \A i \in I : f.list[i] = e.list[i]  BY <2>1, <1>3
    <2>3. Content(e, k) = {f.list[i] : i \in I}  BY <2>2 DEF Content
    <2>4. CASE k # N
      <3>1. EndOf(f, k) = EndOf(e, k)  BY <1>8, <2>4
      <3> QED  BY <2>3, <2>4, <3>1, <1>2 DEF Content
    <2>5. CASE k = N
      <3>1. e.frames[k].size + 1 .. EndOf(f, k) = I \cup (n + 1 .. m)
        BY <1>4, <1>8, <2>5
      <3> HIDE DEF I
      <3>2. Content(f, k) = {f.list[i] : i \in I \cup (n + 1 .. m)}
        BY <3>1, <1>2 DEF Content
      <3> QED  BY <2>3, <2>5, <3>2
    <2> QED  BY <2>4, <2>5
  <1>10. Mirror(f)
    <2> SUFFICES ASSUME NEW k \in 1 .. N
                 PROVE  f.prop[k] = {f.list[i] : i \in
                           {j \in f.frames[k].size + 1 .. EndOf(f, k) : j <= f.index}}
      BY <1>2, <1>5 DEF Mirror
    <2> DEFINE J == {j \in e.frames[k].size + 1 .. EndOf(e, k) : j <= e.index}
    <2>1. e.prop[k] = {e.list[i] : i \in J}  BY <1>1, <1>5 DEF Mirror
    <2>2. \A i \in J : i \in 1 .. n  BY <1>4, <1>6, <1>8
    <2>3. J = {j \in e.frames[k].size + 1 .. EndOf(f, k) : j <= e.index}
      BY <1>4, <1>6, <1>8
    <2> HIDE DEF J
    <2>4. \A i \in J : f.list[i] = e.list[i]  BY <2>2, <1>3
    <2>5. f.prop[k] = {f.list[i] : i \in J}  BY <2>1, <2>4, <1>2
    <2> QED  BY <2>3, <2>5, <1>2
  <1>11. Covered(f)
    <2> SUFFICES ASSUME NEW i \in 1 .. m
                 PROVE  \E k \in 1 .. N : e.frames[k].size < i /\ i <= EndOf(f, k)
      BY <1>2, <1>5 DEF Covered, m
    <2>1. CASE i \in 1 .. n
      <3>1. PICK k \in 1 .. N : e.frames[k].size < i /\ i <= EndOf(e, k)
        BY <2>1, <1>1, <1>5 DEF Covered, n
      <3> QED  BY <3>1, <1>4, <1>8
    <2>2. CASE n < i
      <3>1. N \in 1 .. N  BY <1>5, GoodFacts DEF N
      <3> QED  BY <3>1, <2>2, <1>4, <1>8
    <2> QED  BY <2>1, <2>2, <1>4
  <1>12. Good(f)
    BY <1>1, <1>2, <1>7, <1>10, <1>11 DEF Good
  <1> QED  BY <1>9, <1>12 DEF N, n, m

(* What refresh adds is definitions, and afterwards all are in the list.   *)
LEMMA RefreshGood ==
    ASSUME NEW e, Good(e), NEW f, f = refresh(e)
    PROVE  /\ Good(f) /\ Grown(e, f)
           /\ \A i \in Len(e.list) + 1 .. Len(f.list) : f.list[i] \in Definition
           /\ f.global = Len(f.globals) /\ SameFlags(e, f) /\ f.asserts = e.asserts
  <1>1. e \in Engine /\ Defs(e) /\ FramesOK(e)  BY DEF Good
  <1>2. e.global <= Len(e.globals)  BY <1>1 DEF Defs
  <1>3. /\ f \in Engine
        /\ Len(f.list) = Len(e.list) + (Len(e.globals) - e.global)
        /\ \A i \in 1 .. Len(e.list) : f.list[i] = e.list[i]
        /\ \A i \in Len(e.list) + 1 .. Len(f.list) :
              f.list[i] = e.globals[i - Len(e.list) + e.global]
        /\ f.global = Len(e.globals)
        /\ f.inited = e.inited /\ f.globals = e.globals /\ f.assumed = e.assumed
        /\ f.index = e.index /\ f.frames = e.frames /\ f.satLevel = e.satLevel
        /\ f.prop = e.prop /\ f.trail = e.trail
        /\ f.userLevels = e.userLevels /\ f.pendingPops = e.pendingPops
        /\ f.needPostsolve = e.needPostsolve /\ f.asserts = e.asserts
    BY <1>1, <1>2, RefreshFields
  <1> DEFINE n == Len(e.list)
             m == Len(f.list)
             G == Len(e.globals)
  <1>4. n \in Nat /\ G \in Nat /\ e.global \in Nat /\ m = n + (G - e.global)
    BY <1>1, <1>3, EngineType, LenProperties
  <1>5. SameFlags(e, f) /\ f.asserts = e.asserts /\ f.global = Len(f.globals)
    BY <1>3 DEF SameFlags
  <1>6. Grown(e, f)
    <2>1. m >= n  BY <1>2, <1>4
    <2> QED  BY <2>1, <1>3 DEF Grown
  <1>7. \A i \in n + 1 .. m : f.list[i] = e.globals[i - n + e.global]  BY <1>3
  <1>8. f.globals = e.globals /\ f.frames = e.frames /\ f.global = G
        /\ \A i \in 1 .. n : f.list[i] = e.list[i]
    BY <1>3
  <1>9. \A j \in 1 .. G : e.globals[j] \in Definition
    BY <1>1, EngineType, ElementOfSeq
  <1> HIDE DEF n, m, G
  <1>10. \A i \in n + 1 .. m : i - n + e.global \in 1 .. G  BY <1>4
  <1>11. \A i \in n + 1 .. m : f.list[i] \in Definition  BY <1>7, <1>9, <1>10
  <1>12. Defs(f)
    <2>1. G <= Len(f.globals)  BY <1>4, <1>8 DEF G
    <2>2. ASSUME NEW j \in 1 .. G
          PROVE  \E i \in 1 .. m : f.list[i] = e.globals[j]
      <3>1. CASE j <= e.global
        <4>1. j \in 1 .. e.global  BY <3>1, <1>4
        <4>2. PICK i \in 1 .. n : e.list[i] = e.globals[j]  BY <4>1, <1>1 DEF Defs, n
        <4>3. i \in 1 .. m  BY <1>2, <1>4 DEF G
        <4> QED  BY <4>2, <4>3, <1>8
      <3>2. CASE j > e.global
        <4> DEFINE i == n + (j - e.global)
        <4>1. i \in n + 1 .. m /\ i - n + e.global = j /\ i \in 1 .. m  BY <3>2, <1>4
        <4> HIDE DEF i
        <4>2. f.list[i] = e.globals[j]  BY <4>1, <1>7
        <4> QED  BY <4>1, <4>2
      <3> QED  BY <3>1, <3>2, <1>4
    <2>3. ASSUME NEW k \in DOMAIN e.frames
          PROVE  /\ e.frames[k].global <= G
                 /\ \A j \in 1 .. e.frames[k].global :
                       \E i \in 1 .. e.frames[k].size : f.list[i] = e.globals[j]
      <3>1. /\ e.frames[k].global <= G
            /\ \A j \in 1 .. e.frames[k].global :
                  \E i \in 1 .. e.frames[k].size : e.list[i] = e.globals[j]
        BY <1>1 DEF Defs, G
      <3>2. e.frames[k].size \in Nat /\ e.frames[k].size <= n  BY GoodFacts DEF n
      <3>3. \A i \in 1 .. e.frames[k].size : i \in 1 .. n  BY <3>2, <1>4
      <3>4. \A i \in 1 .. e.frames[k].size : f.list[i] = e.list[i]  BY <3>3, <1>8
      <3> QED  BY <3>1, <3>4
    <2>4. ASSUME NEW i \in 1 .. m, f.list[i] \in Definition
          PROVE  \E j \in 1 .. G : e.globals[j] = f.list[i]
      <3>1. CASE i <= n
        <4>1. i \in 1 .. n  BY <3>1, <1>4
        <4>2. f.list[i] = e.list[i]  BY <4>1, <1>8
        <4> QED  BY <4>1, <4>2, <2>4, <1>1 DEF Defs, n, G
      <3>2. CASE i > n
        <4>1. i \in n + 1 .. m  BY <3>2, <1>4
        <4> QED  BY <4>1, <1>7, <1>10
      <3> QED  BY <3>1, <3>2, <1>4
    <2> QED  BY <2>1, <2>2, <2>3, <2>4, <1>8 DEF Defs, G, m
  <1>13. Good(f)  BY <1>6, <1>12, GrownGood
  <1> QED  BY <1>5, <1>6, <1>11, <1>13 DEF n, m


(* Everything in the list is sent, to its own level.                       *)
LEMMA SendGood ==
    ASSUME NEW e, Good(e), NEW f, f = assertToInternal(e)
    PROVE  /\ Good(f)
           /\ \A k : Content(f, k) = Content(e, k)
           /\ f.index = Len(f.list) /\ f.list = e.list /\ f.global = e.global
           /\ f.frames = e.frames /\ SameFlags(e, f) /\ f.asserts = e.asserts
  <1> DEFINE N == Len(e.frames)
             n == Len(e.list)
             R == {e.list[i] : i \in e.index + 1 .. n}
  <1>1. e \in Engine /\ FramesOK(e) /\ Covered(e) /\ Mirror(e) /\ Defs(e) /\ e.inited
        /\ e.frames # <<>> /\ Len(e.frames) = e.satLevel /\ Len(e.prop) = N
    BY DEF Good
  <1>2. N \in Nat \ {0} /\ n \in Nat /\ DOMAIN e.frames = 1 .. N  BY GoodFacts
  <1>3. e.prop # <<>> /\ e.index <= Len(e.list) /\ e.index \in Nat
    <2>1. Len(e.prop) # 0  BY <1>1, <1>2
    <2>2. e.prop # <<>>  BY <2>1, EmptySeq, Zenon
    <2> QED  BY <2>2, <1>1, EngineType DEF FramesOK
  <1>4. /\ f \in Engine
        /\ Len(f.prop) = Len(e.prop)
        /\ \A k \in 1 .. Len(e.prop) : k < Len(e.prop) => f.prop[k] = e.prop[k]
        /\ f.prop[Len(e.prop)] = e.prop[Len(e.prop)] \cup R
        /\ f.index = Len(e.list)
        /\ f.inited = e.inited /\ f.globals = e.globals /\ f.assumed = e.assumed
        /\ f.list = e.list /\ f.global = e.global
        /\ f.frames = e.frames /\ f.satLevel = e.satLevel /\ f.trail = e.trail
        /\ f.userLevels = e.userLevels /\ f.pendingPops = e.pendingPops
        /\ f.needPostsolve = e.needPostsolve /\ f.asserts = e.asserts
    <2>1. e \in Engine /\ e.prop # <<>> /\ e.index <= Len(e.list)  BY <1>1, <1>3
    <2> QED  BY <2>1, AssertToInternalFields, ZenonT(30)
  <1>5. \A k : EndOf(f, k) = EndOf(e, k) /\ Content(f, k) = Content(e, k)
    BY <1>4 DEF EndOf, Content
  <1>6. FramesOK(f)
    <2>1. f.index \in 0 .. n  BY <1>2, <1>4
    <2>2. ASSUME NEW k \in 1 .. N
          PROVE  e.frames[k].index = e.frames[k].size /\ e.frames[k].size <= n
      BY GoodFacts
    <2> QED  BY <2>1, <2>2, <1>1, <1>2, <1>4, SMTT(30) DEF FramesOK
  <1>7. Covered(f)  BY <1>1, <1>4, <1>5 DEF Covered
  <1>8. Defs(f)  BY <1>1, <1>4 DEF Defs
  <1>9. f.list = e.list /\ f.frames = e.frames /\ f.index = n
        /\ f.prop[N] = e.prop[N] \cup R
        /\ \A k \in 1 .. N : k < N => f.prop[k] = e.prop[k]
    BY <1>1, <1>4
  <1>10. Mirror(f)
    <2> SUFFICES ASSUME NEW k \in 1 .. N
                 PROVE  f.prop[k] = {e.list[i] : i \in
                           {j \in e.frames[k].size + 1 .. EndOf(e, k) : j <= n}}
      BY <1>2, <1>5, <1>9 DEF Mirror
    <2> DEFINE J == {j \in e.frames[k].size + 1 .. EndOf(e, k) : j <= e.index}
               L == {j \in e.frames[k].size + 1 .. EndOf(e, k) : j <= n}
    <2>1. e.prop[k] = {e.list[i] : i \in J}  BY <1>1, <1>2 DEF Mirror
    <2>2. e.frames[k].size \in Nat /\ EndOf(e, k) \in Nat /\ EndOf(e, k) <= n
      BY GoodFacts
    <2>3. \A l \in 1 .. N : e.frames[l].size <= e.index  BY <1>1, <1>2 DEF FramesOK
    <2>4. CASE k < N
      <3>1. k + 1 \in 1 .. N /\ k # N  BY <2>4, <1>2
      <3>2. EndOf(e, k) = e.frames[k + 1].size  BY <3>1 DEF EndOf
      <3>3. EndOf(e, k) <= e.index  BY <3>1, <3>2, <2>3
      <3>4. J = L  BY <3>3, <2>2, <1>2, <1>3
      <3> HIDE DEF J, L, N, n, R
      <3>5. f.prop[k] = e.prop[k]  BY <2>4, <1>9
      <3>6. f.prop[k] = {e.list[i] : i \in L}  BY <2>1, <3>4, <3>5
      <3> QED  BY <3>6 DEF L
    <2>5. CASE k = N
      <3>1. EndOf(e, k) = n  BY <2>5 DEF EndOf
      <3>2. L = J \cup (e.index + 1 .. n)
        BY <3>1, <2>2, <2>3, <1>2, <1>3
      <3> HIDE DEF J, L, N
      <3>3. f.prop[k] = e.prop[k] \cup R  BY <2>5, <1>9
      <3>4. {e.list[i] : i \in L} = {e.list[i] : i \in J} \cup R  BY <3>2
      <3>5. f.prop[k] = {e.list[i] : i \in L}  BY <2>1, <3>3, <3>4
      <3> QED  BY <3>5 DEF L
    <2> QED  BY <2>4, <2>5, <1>2
  <1>11. Good(f)
    <2>1. f \in Engine /\ f.inited /\ f.frames # <<>> /\ Len(f.frames) = f.satLevel
          /\ Len(f.prop) = Len(f.frames)
      BY <1>1, <1>4
    <2> QED  BY <2>1, <1>6, <1>7, <1>8, <1>10, Zenon DEF Good
  <1> QED  BY <1>4, <1>5, <1>11 DEF SameFlags

(* After refreshAssertions everything has been sent, definitions included. *)
Sent(e, f) ==
    /\ Good(f) /\ f.index = Len(f.list) /\ f.global = Len(f.globals)
    /\ f.frames = e.frames /\ SameFlags(e, f) /\ f.asserts = e.asserts
    /\ \A k \in 1 .. Len(e.frames) : Content(f, k) \ Definition = Content(e, k) \ Definition
    /\ Len(f.list) >= Len(e.list)
    /\ \A i \in 1 .. Len(e.list) : f.list[i] = e.list[i]
    /\ \A i \in Len(e.list) + 1 .. Len(f.list) : f.list[i] \in Definition

LEMMA RefreshAssertionsSends ==
    ASSUME NEW e, Good(e), NEW f, f = refreshAssertions(e)
    PROVE  Sent(e, f)
  <1> DEFINE r == refresh(e)
  <1>1. /\ Good(r) /\ Grown(e, r)
        /\ \A i \in Len(e.list) + 1 .. Len(r.list) : r.list[i] \in Definition
        /\ r.global = Len(r.globals) /\ SameFlags(e, r) /\ r.asserts = e.asserts
    BY RefreshGood
  <1>2. f = assertToInternal(r)  BY DEF refreshAssertions
  <1> HIDE DEF r
  <1>3. /\ Good(f)
        /\ \A k : Content(f, k) = Content(r, k)
        /\ f.index = Len(f.list) /\ f.list = r.list /\ f.global = r.global
        /\ f.frames = r.frames /\ SameFlags(r, f) /\ f.asserts = r.asserts
    BY <1>1, <1>2, SendGood
  <1>4. ASSUME NEW k \in 1 .. Len(e.frames)
        PROVE  Content(f, k) \ Definition = Content(e, k) \ Definition
    <2>1. Defs(r)  BY <1>1 DEF Good
    <2>2. Content(r, k) = Content(e, k) \cup
             (IF k = Len(e.frames)
              THEN {r.list[i] : i \in Len(e.list) + 1 .. Len(r.list)} ELSE {})
      BY <2>1, <1>1, GrownGood
    <2> QED  BY <2>2, <1>1, <1>3
  <1> QED  BY <1>1, <1>3, <1>4 DEF Sent, SameFlags, Grown

(* A level is pushed on top when everything below has been sent.           *)
LEMMA PushLevelGood ==
    ASSUME NEW e, Good(e), e.index = Len(e.list), e.global = Len(e.globals),
           NEW f, f = pushPropContext(PushUserContext(e))
    PROVE  /\ Good(f) /\ Len(f.frames) = Len(e.frames) + 1
           /\ \A k \in 1 .. Len(e.frames) : Content(f, k) = Content(e, k)
           /\ Content(f, Len(e.frames) + 1) = {}
           /\ f.frames[Len(e.frames) + 1].size = Len(e.list)
           /\ \A k \in 1 .. Len(e.frames) : f.frames[k] = e.frames[k]
           /\ f.list = e.list /\ SameFlags(e, f)
           /\ f.asserts = (e.asserts /\ ~e.trail)
  <1> DEFINE N == Len(e.frames)
             n == Len(e.list)
             fr == [size |-> n, index |-> e.index, global |-> e.global]
             u == PushUserContext(e)
  <1>1. e \in Engine /\ FramesOK(e) /\ Covered(e) /\ Mirror(e) /\ Defs(e) /\ e.inited
        /\ e.frames # <<>> /\ Len(e.frames) = e.satLevel /\ Len(e.prop) = N
    BY DEF Good
  <1>2. N \in Nat \ {0} /\ n \in Nat /\ DOMAIN e.frames = 1 .. N  BY GoodFacts
  <1>3. /\ u \in Engine /\ u.frames = Append(e.frames, fr)
        /\ u.list = e.list /\ u.index = e.index /\ u.global = e.global
        /\ u.satLevel = e.satLevel /\ u.prop = e.prop
        /\ SameFlags(e, u) /\ u.asserts = e.asserts
    BY <1>1, PushUserContextFields DEF SameFlags
  <1>4. f = pushPropContext(u)  OBVIOUS
  <1> HIDE DEF u
  <1>5. /\ f \in Engine /\ f.prop = Append(u.prop, {}) /\ f.satLevel = u.satLevel + 1
        /\ f.asserts = (u.asserts /\ ~u.trail)
        /\ f.frames = u.frames /\ f.list = u.list /\ f.index = u.index
        /\ f.global = u.global /\ SameFlags(u, f)
    BY <1>3, <1>4, PushPropFields, SMTT(30) DEF SameFlags
  <1>6. e.frames \in Seq(Frame) /\ e.prop \in Seq(SUBSET Entry) /\ fr \in Frame
    BY <1>1, <1>2, EngineType DEF Frame
  <1>7. fr.size = n /\ fr.index = n /\ fr.global = Len(e.globals)  OBVIOUS
  <1> HIDE DEF fr
  <1>8. /\ Len(f.frames) = N + 1 /\ f.frames[N + 1] = fr
        /\ \A k \in 1 .. N : f.frames[k] = e.frames[k]
    BY <1>3, <1>5, <1>6, AppendProperties
  <1>9. /\ Len(f.prop) = N + 1 /\ f.prop[N + 1] = {}
        /\ \A k \in 1 .. N : f.prop[k] = e.prop[k]
    BY <1>1, <1>3, <1>5, <1>6, AppendProperties
  <1>10. f.list = e.list /\ f.index = n /\ f.global = Len(e.globals)
         /\ SameFlags(e, f) /\ f.globals = e.globals /\ f.inited
    BY <1>1, <1>3, <1>5 DEF SameFlags
  <1>11. DOMAIN f.frames = 1 .. N + 1
    BY <1>5, <1>8, EngineType, LenProperties
  <1>12. Len(f.list) = n  BY <1>10
  <1> HIDE DEF N, n
  <1>13. ASSUME NEW k \in 1 .. N
         PROVE  EndOf(f, k) = EndOf(e, k) /\ f.frames[k].size = e.frames[k].size
    <2>1. k # N + 1 /\ f.frames[k] = e.frames[k]  BY <1>2, <1>8
    <2>2. EndOf(f, k) = f.frames[k + 1].size  BY <2>1, <1>8 DEF EndOf
    <2>3. CASE k = N
      BY <2>1, <2>2, <2>3, <1>7, <1>8 DEF EndOf, N, n
    <2>4. CASE k # N
      <3>1. k + 1 \in 1 .. N  BY <2>4, <1>2
      <3>2. f.frames[k + 1] = e.frames[k + 1]  BY <3>1, <1>8
      <3>3. EndOf(e, k) = e.frames[k + 1].size  BY <2>4 DEF EndOf, N
      <3> QED  BY <2>1, <2>2, <3>2, <3>3
    <2> QED  BY <2>3, <2>4
  <1>14. EndOf(f, N + 1) = n /\ f.frames[N + 1].size = n
    BY <1>7, <1>8, <1>10 DEF EndOf, n
  <1>15. \A k \in 1 .. N : Content(f, k) = Content(e, k)
    BY <1>10, <1>13 DEF Content
  <1>16. Content(f, N + 1) = {}
    <2>1. n + 1 .. n = {}  BY <1>2
    <2> QED  BY <1>14, <2>1 DEF Content
  <1>17. \A k \in 1 .. N + 1 : k \in 1 .. N \/ k = N + 1  BY <1>2
  <1>18. \A k \in 1 .. N : e.frames[k].size \in Nat /\ e.frames[k].index = e.frames[k].size
                           /\ e.frames[k].size <= n
    BY GoodFacts DEF N, n
  <1>19. FramesOK(f)
    <2>1. f.index \in 0 .. n  BY <1>2, <1>10
    <2>2. f.frames[1].size = 0  BY <1>1, <1>2, <1>8 DEF FramesOK
    <2>3. ASSUME NEW k \in 1 .. N + 1
          PROVE  f.frames[k].index = f.frames[k].size /\ f.frames[k].size <= n
                 /\ f.frames[k].size \in Nat
      BY <1>2, <1>7, <1>8, <1>17, <1>18
    <2>4. ASSUME NEW k \in 1 .. N + 1, NEW l \in 1 .. N + 1, k <= l
          PROVE  f.frames[k].size <= f.frames[l].size
      <3>1. CASE l = N + 1
        BY <3>1, <2>3, <1>14
      <3>2. CASE l \in 1 .. N
        <4>1. k \in 1 .. N  BY <3>2, <2>4, <1>2
        <4>2. e.frames[k].size <= e.frames[l].size
          BY <4>1, <3>2, <2>4, <1>1, <1>2 DEF FramesOK
        <4> QED  BY <4>1, <4>2, <3>2, <1>8
      <3> QED  BY <3>1, <3>2, <1>17
    <2> QED  BY <2>1, <2>2, <2>3, <2>4, <1>10, <1>11, <1>12 DEF FramesOK
  <1>20. Covered(f)
    <2> SUFFICES ASSUME NEW i \in 1 .. n
                 PROVE  \E k \in 1 .. N + 1 : f.frames[k].size < i /\ i <= EndOf(f, k)
      BY <1>11, <1>12 DEF Covered
    <2>1. PICK k \in 1 .. N : e.frames[k].size < i /\ i <= EndOf(e, k)
      BY <1>1, <1>2 DEF Covered, n
    <2>2. k \in 1 .. N + 1  BY <1>2
    <2> QED  BY <2>1, <2>2, <1>13
  <1>21. Mirror(f)
    <2> SUFFICES ASSUME NEW k \in 1 .. N + 1
                 PROVE  f.prop[k] = {e.list[i] : i \in
                           {j \in f.frames[k].size + 1 .. EndOf(f, k) : j <= n}}
      BY <1>10, <1>11 DEF Mirror
    <2>1. CASE k \in 1 .. N
      <3>1. e.prop[k] = {e.list[i] : i \in
               {j \in e.frames[k].size + 1 .. EndOf(e, k) : j <= e.index}}
        BY <2>1, <1>1, <1>2 DEF Mirror
      <3>2. f.prop[k] = e.prop[k] /\ e.index = n  BY <2>1, <1>9 DEF n
      <3> QED  BY <2>1, <3>1, <3>2, <1>13
    <2>2. CASE k = N + 1
      <3>1. {j \in n + 1 .. n : j <= n} = {}  BY <1>2
      <3> QED  BY <2>2, <3>1, <1>9, <1>14
    <2> QED  BY <2>1, <2>2, <1>17
  <1>22. Defs(f)
    <2>1. /\ Len(e.globals) <= Len(e.globals)
          /\ \A j \in 1 .. Len(e.globals) : \E i \in 1 .. n : e.list[i] = e.globals[j]
      BY <1>1, GoodFacts DEF Defs, n
    <2>2. ASSUME NEW k \in 1 .. N + 1
          PROVE  /\ f.frames[k].global <= Len(e.globals)
                 /\ \A j \in 1 .. f.frames[k].global :
                       \E i \in 1 .. f.frames[k].size : e.list[i] = e.globals[j]
      <3>1. CASE k \in 1 .. N
        <4>1. f.frames[k] = e.frames[k] /\ k \in DOMAIN e.frames  BY <3>1, <1>2, <1>8
        <4>2. /\ e.frames[k].global <= Len(e.globals)
              /\ \A j \in 1 .. e.frames[k].global :
                    \E i \in 1 .. e.frames[k].size : e.list[i] = e.globals[j]
          BY <4>1, <1>1 DEF Defs
        <4> QED  BY <4>1, <4>2
      <3>2. CASE k = N + 1
        <4>1. f.frames[k].global = Len(e.globals) /\ f.frames[k].size = n
          BY <3>2, <1>7, <1>8
        <4> QED  BY <4>1, <2>1, Zenon
      <3> QED  BY <3>1, <3>2, <1>17
    <2>3. \A i \in 1 .. n : e.list[i] \in Definition =>
             \E j \in 1 .. Len(e.globals) : e.globals[j] = e.list[i]
      BY <1>1 DEF Defs, n
    <2> QED  BY <2>1, <2>2, <2>3, <1>10, <1>11, <1>12 DEF Defs
  <1>23. f.frames # <<>> /\ f.satLevel = N + 1
    <2>1. Len(f.frames) # 0  BY <1>2, <1>8
    <2>2. f.frames # <<>>  BY <2>1, Zenon, EmptySeq
    <2> QED  BY <2>2, <1>1, <1>3, <1>5 DEF N
  <1>24. Good(f)
    BY <1>5, <1>8, <1>9, <1>10, <1>19, <1>20, <1>21, <1>22, <1>23 DEF Good
  <1>25. f.asserts = (e.asserts /\ ~e.trail)  BY <1>3, <1>5 DEF SameFlags
  <1> QED  BY <1>8, <1>10, <1>14, <1>15, <1>16, <1>24, <1>25 DEF N, n


-----------------------------------------------------------------------------
(* ContextManager and SolverEngine.                                        *)

(* The levels of f are those of e, up to a level that e has.               *)
Lower(e, f) ==
    /\ Len(f.frames) <= Len(e.frames)
    /\ \A k \in 1 .. Len(f.frames) : f.frames[k] = e.frames[k] /\ Content(f, k) = Content(e, k)
    /\ Len(f.list) <= Len(e.list)
    /\ \A i \in 1 .. Len(f.list) : f.list[i] = e.list[i]
    /\ Len(f.frames) < Len(e.frames) => Len(f.list) = e.frames[Len(f.frames) + 1].size
    /\ Len(f.frames) = Len(e.frames) => f.list = e.list
    /\ f.globals = e.globals /\ f.assumed = e.assumed

(* PopLevels, of any number of levels but the first.                       *)
LEMMA PopLevelsLowers ==
    ASSUME NEW e, Good(e), ~e.trail, NEW n \in Nat, n < Len(e.frames),
           NEW f, f = PopLevels(e, n)
    PROVE  /\ Good(f) /\ Lower(e, f) /\ SameFlags(e, f) /\ f.asserts = e.asserts
           /\ Len(f.frames) = Len(e.frames) - n
  <1>1. e \in Engine /\ Len(e.frames) \in Nat /\ Len(e.list) \in Nat  BY GoodFacts
  <1>2. CASE n = 0
    <2>1. f = e  BY <1>2 DEF PopLevels
    <2> QED  BY <2>1, <1>1, <1>2 DEF Lower, SameFlags
  <1>3. CASE n # 0
    <2> DEFINE m == Len(e.frames) - n
    <2>1. CutBack(e, m, f) /\ SameFlags(e, f) /\ f.asserts = (e.asserts /\ ~e.trail)
      BY <1>3, PopLevelsCutsBack
    <2>2. m \in Nat \ {0} /\ m < Len(e.frames) /\ m + 1 \in 1 .. Len(e.frames)  BY <1>1, <1>3
    <2>3. f.asserts = e.asserts
      <3>1. e.asserts \in BOOLEAN /\ f.asserts \in BOOLEAN  BY <2>1, <1>1, EngineType DEF CutBack
      <3> QED  BY <3>1, <2>1, Zenon
    <2> HIDE DEF m
    <2>4. Good(f) /\ \A k \in 1 .. m : Content(f, k) = Content(e, k)
      BY <2>1, <2>2, CutBackGood
    <2>5. e.frames[m + 1].size <= Len(e.list)  BY <2>2, GoodFacts
    <2>6. /\ Len(f.frames) = m /\ \A k \in 1 .. m : f.frames[k] = e.frames[k]
          /\ Len(f.list) = e.frames[m + 1].size
          /\ \A i \in 1 .. Len(f.list) : f.list[i] = e.list[i]
      BY <2>1 DEF CutBack
    <2>7. f.globals = e.globals /\ f.assumed = e.assumed  BY <2>1 DEF SameFlags
    <2>8. Lower(e, f)
      <3>1. Len(f.frames) # Len(e.frames)  BY <2>2, <2>6
      <3> QED  BY <3>1, <2>2, <2>4, <2>5, <2>6, <2>7 DEF Lower
    <2> QED  BY <2>1, <2>3, <2>4, <2>6, <2>8 DEF m
  <1> QED  BY <1>2, <1>3

(* Decisions only while they are known to have to be undone, levels to pop *)
(* only in an incremental solver and never the first.                      *)
Pending(e) ==
    /\ Good(e)
    /\ e.trail => e.needPostsolve
    /\ e.pendingPops > 0 => incremental
    /\ e.pendingPops < Len(e.frames)

(* The engine after doPendingPops.                                         *)
Settled(f) ==
    /\ Good(f) /\ f.pendingPops = 0 /\ f.needPostsolve = FALSE /\ f.trail = FALSE

WithNothingPending(q, a) ==
    [q EXCEPT !.needPostsolve = FALSE, !.pendingPops = 0, !.asserts = a]

(* f is e but for the flags.                                               *)
SameContent(e, f) ==
    /\ f \in Engine /\ f.inited = e.inited /\ f.list = e.list /\ f.index = e.index
    /\ f.globals = e.globals /\ f.global = e.global /\ f.frames = e.frames
    /\ f.satLevel = e.satLevel /\ f.prop = e.prop

LEMMA SameContentGood ==
    ASSUME NEW e, Good(e), NEW f, SameContent(e, f)
    PROVE  Good(f) /\ \A k : Content(f, k) = Content(e, k)
  BY SameState DEF SameContent

LEMMA SettledFields ==
    ASSUME NEW q \in Engine, NEW a, a = q.asserts, NEW f, f = WithNothingPending(q, a)
    PROVE  /\ SameContent(q, f)
           /\ f.assumed = q.assumed /\ f.userLevels = q.userLevels
           /\ f.trail = q.trail /\ f.asserts = q.asserts
           /\ f.needPostsolve = FALSE /\ f.pendingPops = 0
  BY DEF Engine, WithNothingPending, SameContent

LEMMA DoPendingPopsSettles ==
    ASSUME NEW e, Pending(e), incremental \in BOOLEAN, NEW f, f = doPendingPops(e)
    PROVE  /\ Settled(f) /\ Lower(e, f) /\ Len(f.frames) = Len(e.frames) - e.pendingPops
           /\ f.userLevels = e.userLevels /\ f.asserts = e.asserts
  <1> DEFINE p == IF e.needPostsolve THEN resetTrail(e) ELSE e
             n == e.pendingPops
             q == PopLevels(p, n)
             a == q.asserts /\ (n = 0 \/ incremental)
  <1>1. Good(e) /\ e \in Engine /\ n \in Nat /\ n < Len(e.frames)
    BY EngineType DEF Pending, Good
  <1>2. /\ p \in Engine /\ p.trail = FALSE /\ p.inited = e.inited /\ p.list = e.list
        /\ p.index = e.index /\ p.globals = e.globals /\ p.global = e.global
        /\ p.frames = e.frames /\ p.satLevel = e.satLevel /\ p.prop = e.prop
        /\ p.assumed = e.assumed /\ p.userLevels = e.userLevels
        /\ p.pendingPops = e.pendingPops /\ p.asserts = e.asserts
    <2>1. CASE e.needPostsolve
      BY <2>1, <1>1 DEF resetTrail, Engine
    <2>2. CASE ~e.needPostsolve
      <3>1. e.trail = FALSE  BY <2>2, <1>1, EngineType DEF Pending
      <3> QED  BY <2>2, <3>1, <1>1
    <2> QED  BY <2>1, <2>2
  <1>3. f = [q EXCEPT !.needPostsolve = FALSE, !.pendingPops = 0,
                      !.asserts = a]
    BY DEF doPendingPops
  <1>4. q = PopLevels(p, n)  OBVIOUS
  <1> HIDE DEF p, q, a
  <1>5. Good(p) /\ \A k : Content(p, k) = Content(e, k)  BY <1>1, <1>2, SameState
  <1>6. /\ Good(q) /\ Lower(p, q) /\ SameFlags(p, q) /\ q.asserts = p.asserts
        /\ Len(q.frames) = Len(p.frames) - n
    <2>1. ~p.trail /\ n < Len(p.frames)  BY <1>1, <1>2
    <2> QED  BY <2>1, <1>1, <1>4, <1>5, PopLevelsLowers
  <1>7. q \in Engine /\ q.asserts \in BOOLEAN  BY <1>6, EngineType DEF Good
  <1>8. n = 0 \/ incremental  BY <1>1 DEF Pending
  <1>9. a = q.asserts  BY <1>7, <1>8, Zenon DEF a
  <1>11. /\ SameContent(q, f)
         /\ f.assumed = q.assumed /\ f.userLevels = q.userLevels
         /\ f.trail = q.trail /\ f.asserts = q.asserts
         /\ f.needPostsolve = FALSE /\ f.pendingPops = 0
    <2>1. f = WithNothingPending(q, a)  BY <1>3 DEF WithNothingPending
    <2>2. q \in Engine  BY <1>7
    <2> QED  BY <2>1, <2>2, <1>9, SettledFields
  <1>12. Good(f) /\ \A k : Content(f, k) = Content(q, k)
    BY <1>6, <1>11, SameContentGood
  <1>13. Settled(f)
    BY <1>2, <1>6, <1>11, <1>12 DEF Settled, SameFlags
  <1>14. Lower(e, f)
    BY <1>2, <1>5, <1>6, <1>11, <1>12 DEF Lower, SameContent
  <1>15. f.userLevels = e.userLevels /\ f.asserts = e.asserts
    BY <1>2, <1>6, <1>11 DEF SameFlags
  <1>16. Len(f.frames) = Len(e.frames) - e.pendingPops
    BY <1>2, <1>6, <1>11 DEF SameContent
  <1> QED  BY <1>13, <1>14, <1>15, <1>16


(* The user frames of e, as UserFrames has them for eng.                   *)
UF(e) ==
    [i \in 1 .. Len(e.userLevels) + 1 |->
        IF i \notin DOMAIN e.frames THEN {} ELSE Content(e, i) \cap Formula]

LEMMA UserFramesAreUF == UserFrames = UF(eng)
  BY DEF UserFrames, UF, Content, Segment, EndOf

(* The levels are those of the user and the first.                         *)
Ready(b) ==
    /\ Settled(b) /\ b.asserts = TRUE
    /\ b.userLevels = [i \in 1 .. Len(b.userLevels) |-> i]
    /\ Len(b.frames) = Len(b.userLevels) + 1
    /\ ~incremental => Len(b.frames) = 1
    /\ QueryAllowed => \A i \in 1 .. Len(b.list) : b.list[i] \notin Assumption

(* What the user sees is the same in e and f.                              *)
SameUser(e, f) ==
    /\ UF(f) = UF(e) /\ f.globals = e.globals /\ f.assumed = e.assumed
    /\ f.userLevels = e.userLevels

(* The user's view of an engine without user frames and assertions.        *)
LEMMA OneEmptyFrame ==
    ASSUME NEW f, f.userLevels = <<>>
    PROVE  /\ f.userLevels = [i \in 1 .. Len(f.userLevels) |-> i]
           /\ Len(f.frames) = 1 => Len(f.frames) = Len(f.userLevels) + 1
           /\ f.frames = <<>> => UF(f) = <<{}>>
           /\ DOMAIN f.frames = 1 .. 1 /\ Content(f, 1) = {} => UF(f) = <<{}>>
           /\ f.list = <<>> => \A i \in 1 .. Len(f.list) : f.list[i] \notin Assumption
  <1>1. Len(<<>>) = 0 /\ <<>> = [i \in 1 .. Len(<<>>) |-> i] /\ DOMAIN <<>> = {}
    OBVIOUS
  <1>2. [i \in 1 .. 1 |-> {}] = <<{}>> /\ 0 + 1 = 1 /\ \A i \in 1 .. 0 : FALSE  OBVIOUS
  <1>3. UF(f) = [i \in 1 .. 1 |->
                    IF i \notin DOMAIN f.frames THEN {} ELSE Content(f, i) \cap Formula]
    BY <1>1, <1>2 DEF UF
  <1>4. ASSUME f.frames = <<>>  PROVE UF(f) = <<{}>>
    <2>1. \A i \in 1 .. 1 : i \notin DOMAIN f.frames  BY <1>1, <1>4
    <2>2. UF(f) = [i \in 1 .. 1 |-> {}]  BY <2>1, <1>3
    <2> QED  BY <2>2, <1>2
  <1>5. ASSUME DOMAIN f.frames = 1 .. 1, Content(f, 1) = {}  PROVE UF(f) = <<{}>>
    <2>1. \A i \in 1 .. 1 : i = 1  OBVIOUS
    <2>2. UF(f) = [i \in 1 .. 1 |-> {}]  BY <2>1, <1>3, <1>5
    <2> QED  BY <2>2, <1>2
  <1> QED  BY <1>1, <1>2, <1>4, <1>5

(* An engine just initialised.                                             *)
LEMMA FreshGood ==
    ASSUME NEW f \in Engine, f.inited, f.list = <<>>, f.index = 0, f.global = 0,
           f.frames = <<[size |-> 0, index |-> 0, global |-> 0]>>,
           f.satLevel = 1, f.prop = <<{}>>
    PROVE  Good(f) /\ Len(f.frames) = 1 /\ Content(f, 1) = {}
  <1>1. Len(f.frames) = 1 /\ DOMAIN f.frames = {1} /\ Len(f.prop) = 1 /\ f.frames # <<>>
    OBVIOUS
  <1>2. f.frames[1].size = 0 /\ f.frames[1].index = 0 /\ f.frames[1].global = 0
        /\ f.prop[1] = {} /\ Len(f.list) = 0
    OBVIOUS
  <1>3. EndOf(f, 1) = 0  BY <1>1, <1>2 DEF EndOf
  <1>4. FramesOK(f)  BY <1>1, <1>2 DEF FramesOK
  <1>5. 1 .. 0 = {} /\ 0 + 1 .. 0 = {}  OBVIOUS
  <1>6. Covered(f)  BY <1>2, <1>5 DEF Covered
  <1>7. Mirror(f)  BY <1>1, <1>2, <1>3, <1>5 DEF Mirror
  <1>8. Len(f.globals) \in Nat  BY EngineType, LenProperties
  <1>9. Defs(f)  BY <1>1, <1>2, <1>5, <1>8 DEF Defs
  <1>10. Content(f, 1) = {}  BY <1>2, <1>3, <1>5 DEF Content
  <1> QED  BY <1>1, <1>4, <1>6, <1>7, <1>9, <1>10 DEF Good

(* finishInit's result.                                                    *)
Fresh(f) ==
    /\ f \in Engine /\ f.inited = TRUE /\ f.list = <<>> /\ f.index = 0 /\ f.global = 0
    /\ f.frames = <<[size |-> 0, index |-> 0, global |-> 0]>>
    /\ f.satLevel = 1 /\ f.prop = <<{}>>
    /\ f.globals = <<>> /\ f.assumed = <<>> /\ f.trail = FALSE /\ f.userLevels = <<>>
    /\ f.pendingPops = 0 /\ f.needPostsolve = FALSE /\ f.asserts = TRUE

LEMMA NewEngineType == NewEngine \in Engine
  <1>1. <<>> \in Seq(Entry) /\ <<>> \in Seq(Definition) /\ <<>> \in Seq(Assumption)
        /\ <<>> \in Seq(Frame) /\ <<>> \in Seq(Nat) /\ <<>> \in Seq(SUBSET Entry)
    OBVIOUS
  <1> QED  BY <1>1 DEF NewEngine, Engine

Initialised(e) == [e EXCEPT !.inited = TRUE, !.prop = <<{}>>, !.satLevel = 1]

LEMMA InitialisedFields ==
    ASSUME NEW e \in Engine, NEW n, n = Initialised(e)
    PROVE  /\ n \in Engine /\ n.inited = TRUE /\ n.list = e.list
           /\ n.index = e.index /\ n.global = e.global
           /\ n.frames = e.frames /\ n.satLevel = 1 /\ n.prop = <<{}>>
           /\ n.globals = e.globals /\ n.assumed = e.assumed
           /\ n.trail = e.trail /\ n.userLevels = e.userLevels
           /\ n.pendingPops = e.pendingPops
           /\ n.needPostsolve = e.needPostsolve /\ n.asserts = e.asserts
  <1>1. <<{}>> \in Seq(SUBSET Entry)  OBVIOUS
  <1> QED  BY <1>1 DEF Initialised, Engine

LEMMA FinishInitFresh ==
    ASSUME NEW f, f = finishInit(NewEngine)
    PROVE  Fresh(f)
  <1> DEFINE n == [NewEngine EXCEPT !.inited = TRUE, !.prop = <<{}>>, !.satLevel = 1]
  <1>1. NewEngine.inited = FALSE  BY DEF NewEngine
  <1>2. f = PushUserContext(n)  BY <1>1 DEF finishInit
  <1>4. /\ n \in Engine /\ n.inited = TRUE /\ n.list = <<>> /\ n.index = 0 /\ n.global = 0
        /\ n.frames = <<>> /\ n.satLevel = 1 /\ n.prop = <<{}>>
        /\ n.globals = <<>> /\ n.assumed = <<>> /\ n.trail = FALSE /\ n.userLevels = <<>>
        /\ n.pendingPops = 0 /\ n.needPostsolve = FALSE /\ n.asserts = TRUE
    <2>1. n = Initialised(NewEngine)  BY DEF Initialised
    <2>2. NewEngine \in Engine  BY NewEngineType
    <2>3. /\ n \in Engine /\ n.inited = TRUE /\ n.list = NewEngine.list
          /\ n.index = NewEngine.index /\ n.global = NewEngine.global
          /\ n.frames = NewEngine.frames /\ n.satLevel = 1 /\ n.prop = <<{}>>
          /\ n.globals = NewEngine.globals /\ n.assumed = NewEngine.assumed
          /\ n.trail = NewEngine.trail /\ n.userLevels = NewEngine.userLevels
          /\ n.pendingPops = NewEngine.pendingPops
          /\ n.needPostsolve = NewEngine.needPostsolve /\ n.asserts = NewEngine.asserts
      BY <2>1, <2>2, InitialisedFields
    <2> QED  BY <2>3 DEF NewEngine
  <1> HIDE DEF n
  <1>5. /\ f \in Engine
        /\ f.frames = Append(n.frames, [size |-> Len(n.list), index |-> n.index,
                                        global |-> n.global])
        /\ f.list = n.list /\ f.index = n.index /\ f.global = n.global
        /\ f.satLevel = n.satLevel /\ f.prop = n.prop
        /\ SameFlags(n, f) /\ f.asserts = n.asserts
    <2>1. n \in Engine  BY <1>4
    <2> QED  BY <2>1, <1>2, PushUserContextFields DEF SameFlags
  <1>6. f.frames = <<[size |-> 0, index |-> 0, global |-> 0]>>
    BY <1>4, <1>5
  <1> QED  BY <1>4, <1>5, <1>6 DEF Fresh, SameFlags

LEMMA FreshReady ==
    ASSUME NEW f, Fresh(f)
    PROVE  Good(f) /\ Content(f, 1) = {} /\ Len(f.frames) = 1
  BY FreshGood DEF Fresh

(* Every call begins with the levels of the user, whatever the last call   *)
(* left to be done, and what the user sees has not changed.                *)
LEMMA BeginCall ==
    ASSUME IInv, phase = "run", NEW b, b = beginCall(eng)
    PROVE  Ready(b) /\ SameUser(eng, b)
  <1>1. incremental \in BOOLEAN /\ eng \in Engine /\ eng.asserts  BY DEF IInv, TypeOK
  <1>2. CASE eng.inited
    <2>1. Between(eng)  BY <1>2 DEF IInv
    <2>2. b = doPendingPops(eng)  BY <1>2 DEF beginCall, finishInit
    <2>3. /\ Good(eng) /\ eng.userLevels = [i \in 1 .. Len(eng.userLevels) |-> i]
          /\ Len(eng.frames) = Len(eng.userLevels) + 1 + eng.pendingPops
          /\ ~incremental => Len(eng.frames) = 1
          /\ QueryAllowed => AssumptionsApart(eng)
      BY <2>1 DEF Between
    <2>4. Len(eng.userLevels) \in Nat /\ eng.pendingPops \in Nat /\ Len(eng.frames) \in Nat
          /\ DOMAIN eng.frames = 1 .. Len(eng.frames)
      BY <1>1, <2>3, EngineType, LenProperties, GoodFacts
    <2>5. Pending(eng)
      <3>1. eng.pendingPops < Len(eng.frames)  BY <2>3, <2>4
      <3> QED  BY <2>1, <3>1 DEF Between, Pending
    <2>6. /\ Settled(b) /\ Lower(eng, b) /\ Len(b.frames) = Len(eng.frames) - eng.pendingPops
          /\ b.userLevels = eng.userLevels /\ b.asserts = eng.asserts
      BY <1>1, <2>2, <2>5, DoPendingPopsSettles
    <2>7. Len(b.frames) = Len(eng.userLevels) + 1  BY <2>3, <2>4, <2>6
    <2>8. b.asserts = TRUE
      <3>1. b \in Engine  BY <2>6 DEF Settled, Good
      <3>2. b.asserts \in BOOLEAN /\ eng.asserts \in BOOLEAN  BY <3>1, <1>1, EngineType
      <3> QED  BY <3>2, <2>6, <1>1, Zenon
    <2>9. ~incremental => Len(b.frames) = 1
      BY <2>1, <2>3, <2>4, <2>6 DEF Between
    <2>10. ASSUME QueryAllowed, NEW i \in 1 .. Len(b.list), b.list[i] \in Assumption
           PROVE  FALSE
      <3>1. i \in 1 .. Len(eng.list) /\ b.list[i] = eng.list[i]
        <4>1. Len(eng.list) \in Nat /\ Len(b.list) \in Nat
          BY <2>3, <2>6, GoodFacts DEF Settled
        <4>2. Len(b.list) <= Len(eng.list) /\ b.list[i] = eng.list[i]  BY <2>6 DEF Lower
        <4> QED  BY <4>1, <4>2
      <3>2. /\ Len(eng.userLevels) + 2 \in DOMAIN eng.frames
            /\ i > eng.frames[Len(eng.userLevels) + 2].size
        BY <2>3, <2>10, <3>1 DEF AssumptionsApart
      <3>3. Len(b.frames) < Len(eng.frames) /\ Len(b.frames) + 1 = Len(eng.userLevels) + 2
        BY <2>4, <2>7, <3>2
      <3>4. Len(b.list) = eng.frames[Len(eng.userLevels) + 2].size
        BY <2>6, <3>3 DEF Lower
      <3>5. Len(b.list) \in Nat  BY <2>6, GoodFacts DEF Settled
      <3> QED  BY <3>2, <3>4, <3>5
    <2>11. UF(b) = UF(eng)
      <3> DEFINE m == Len(eng.userLevels) + 1
      <3>1. /\ b.userLevels = eng.userLevels
            /\ \A i \in 1 .. m : i \in DOMAIN eng.frames /\ i \in DOMAIN b.frames
        <4>1. DOMAIN b.frames = 1 .. Len(b.frames)  BY <2>6, GoodFacts DEF Settled
        <4> QED  BY <4>1, <2>3, <2>4, <2>6, <2>7
      <3>2. \A i \in 1 .. m : Content(b, i) = Content(eng, i)
        BY <2>6, <2>7 DEF Lower
      <3> QED  BY <3>1, <3>2 DEF UF
    <2>12. Ready(b)
      BY <2>3, <2>6, <2>7, <2>8, <2>9, <2>10 DEF Ready
    <2> QED  BY <2>6, <2>11, <2>12 DEF SameUser, Lower
  <1>3. CASE ~eng.inited
    <2>1. eng = NewEngine  BY <1>3 DEF IInv
    <2> DEFINE f == finishInit(NewEngine)
    <2>2. b = doPendingPops(f) /\ Fresh(f)  BY <2>1, FinishInitFresh DEF beginCall
    <2> HIDE DEF f
    <2>3. Pending(f)
      <3>1. Good(f) /\ Len(f.frames) = 1  BY <2>2, FreshReady
      <3>2. f.trail = FALSE /\ f.pendingPops = 0  BY <2>2 DEF Fresh
      <3> QED  BY <3>1, <3>2 DEF Pending
    <2>4. /\ Settled(b) /\ Lower(f, b) /\ Len(b.frames) = Len(f.frames) - f.pendingPops
          /\ b.userLevels = f.userLevels /\ b.asserts = f.asserts
      BY <1>1, <2>2, <2>3, DoPendingPopsSettles
    <2>5. /\ f.pendingPops = 0 /\ f.userLevels = <<>> /\ f.asserts = TRUE /\ f.list = <<>>
          /\ f.globals = <<>> /\ f.assumed = <<>>
      BY <2>2 DEF Fresh
    <2>6. Len(b.frames) = 1 /\ b.userLevels = <<>> /\ b.asserts = TRUE
      BY <2>2, <2>4, <2>5, FreshReady
    <2>7. Len(b.list) <= 0 /\ Len(b.list) \in Nat
      BY <2>4, <2>5, GoodFacts DEF Lower, Settled
    <2>8. <<>> = [i \in 1 .. Len(<<>>) |-> i] /\ Len(<<>>) = 0  OBVIOUS
    <2>9. \A i \in 1 .. Len(b.list) : FALSE  BY <2>7
    <2>10. Ready(b)
      <3>1. b.userLevels = [i \in 1 .. Len(b.userLevels) |-> i]
            /\ Len(b.frames) = Len(b.userLevels) + 1
        BY <2>6, <2>8
      <3> QED  BY <3>1, <2>4, <2>6, <2>9 DEF Ready
    <2>11. Content(b, 1) = {}
      <3>1. Content(f, 1) = {}  BY <2>2, FreshReady
      <3>2. 1 \in 1 .. Len(b.frames)  BY <2>6
      <3> QED  BY <3>1, <3>2, <2>4 DEF Lower
    <2>12. UF(b) = [i \in 1 .. 1 |-> {}]
      BY <2>6, <2>8, <2>11 DEF UF
    <2>13. eng.userLevels = <<>> /\ eng.frames = <<>> /\ eng.globals = <<>>
           /\ eng.assumed = <<>>
      BY <2>1 DEF NewEngine
    <2>14. UF(eng) = [i \in 1 .. 1 |-> {}]
      BY <2>8, <2>13 DEF UF
    <2> QED  BY <2>4, <2>5, <2>6, <2>10, <2>12, <2>13, <2>14 DEF SameUser, Lower
  <1> QED  BY <1>2, <1>3


(* The levels and the list of f extend those of e by definitions only, and *)
(* a new level with nothing in it is on top.                               *)
Opened(e, f) ==
    /\ Settled(f) /\ Len(f.frames) = Len(e.frames) + 1
    /\ \A k \in 1 .. Len(e.frames) :
          f.frames[k] = e.frames[k] /\ Content(f, k) \ Definition = Content(e, k) \ Definition
    /\ Content(f, Len(e.frames) + 1) = {}
    /\ f.frames[Len(e.frames) + 1].size = Len(f.list)
    /\ \A i \in 1 .. Len(f.list) :
          f.list[i] \in Definition \/ (i \in 1 .. Len(e.list) /\ f.list[i] = e.list[i])
    /\ f.globals = e.globals /\ f.assumed = e.assumed
    /\ f.userLevels = e.userLevels /\ f.asserts = e.asserts

LEMMA InternalPushOpens ==
    ASSUME NEW e, Settled(e), incremental = TRUE, NEW f, f = internalPush(e)
    PROVE  Opened(e, f)
  <1> DEFINE p == doPendingPops(e)
             r == refreshAssertions(p)
  <1>1. f = pushPropContext(PushUserContext(r))  BY DEF internalPush
  <1>2. Good(e) /\ Len(e.frames) \in Nat \ {0} /\ e.pendingPops = 0  BY GoodFacts DEF Settled
  <1>3. Pending(e)  BY <1>2 DEF Pending, Settled
  <1>4. /\ Settled(p) /\ Lower(e, p) /\ Len(p.frames) = Len(e.frames) - e.pendingPops
        /\ p.userLevels = e.userLevels /\ p.asserts = e.asserts
    BY <1>3, DoPendingPopsSettles
  <1>5. r = refreshAssertions(p)  OBVIOUS
  <1> HIDE DEF p, r
  <1>6. Sent(p, r)
    <2>1. Good(p)  BY <1>4 DEF Settled
    <2> QED  BY <2>1, <1>5, RefreshAssertionsSends
  <1>7. Good(r) /\ r.index = Len(r.list) /\ r.global = Len(r.globals)
        /\ r.frames = p.frames /\ SameFlags(p, r) /\ r.asserts = p.asserts
    BY <1>6 DEF Sent
  <1>8. /\ Good(f) /\ Len(f.frames) = Len(r.frames) + 1
        /\ \A k \in 1 .. Len(r.frames) : Content(f, k) = Content(r, k)
        /\ Content(f, Len(r.frames) + 1) = {}
        /\ f.frames[Len(r.frames) + 1].size = Len(r.list)
        /\ \A k \in 1 .. Len(r.frames) : f.frames[k] = r.frames[k]
        /\ f.list = r.list /\ SameFlags(r, f)
        /\ f.asserts = (r.asserts /\ ~r.trail)
    BY <1>1, <1>7, PushLevelGood
  <1>9. Len(p.frames) = Len(e.frames) /\ p.list = e.list
    <2>1. Len(p.frames) = Len(e.frames)  BY <1>2, <1>4
    <2> QED  BY <2>1, <1>4 DEF Lower
  <1>10. Len(r.frames) = Len(e.frames)  BY <1>7, <1>9
  <1>11. Settled(f)
    <2>1. /\ p.pendingPops = 0 /\ p.needPostsolve = FALSE /\ p.trail = FALSE  BY <1>4 DEF Settled
    <2>2. /\ f.pendingPops = 0 /\ f.needPostsolve = FALSE /\ f.trail = FALSE
      BY <2>1, <1>7, <1>8 DEF SameFlags
    <2> QED  BY <2>2, <1>8 DEF Settled
  <1>12. f.asserts = e.asserts
    <2>1. r.trail = FALSE  BY <1>4, <1>7 DEF Settled, SameFlags
    <2>2. r.asserts \in BOOLEAN  BY <1>7, EngineType DEF Good
    <2>3. f.asserts = r.asserts
      <3>1. f.asserts = (r.asserts /\ ~r.trail)  BY <1>8
      <3> QED  BY <3>1, <2>1, <2>2, Zenon
    <2> QED  BY <2>3, <1>4, <1>7
  <1>13. f.globals = e.globals /\ f.assumed = e.assumed /\ f.userLevels = e.userLevels
    BY <1>4, <1>7, <1>8 DEF SameFlags, Lower
  <1>14. ASSUME NEW k \in 1 .. Len(e.frames)
         PROVE  f.frames[k] = e.frames[k]
                /\ Content(f, k) \ Definition = Content(e, k) \ Definition
    <2>1. k \in 1 .. Len(r.frames) /\ k \in 1 .. Len(p.frames)  BY <1>9, <1>10
    <2>2. f.frames[k] = r.frames[k] /\ Content(f, k) = Content(r, k)  BY <2>1, <1>8
    <2>3. r.frames[k] = p.frames[k]
          /\ Content(r, k) \ Definition = Content(p, k) \ Definition
      BY <2>1, <1>6, <1>7 DEF Sent
    <2>4. p.frames[k] = e.frames[k] /\ Content(p, k) = Content(e, k)
      BY <2>1, <1>4 DEF Lower
    <2> QED  BY <2>2, <2>3, <2>4
  <1>15. ASSUME NEW i \in 1 .. Len(f.list)
         PROVE  f.list[i] \in Definition \/ (i \in 1 .. Len(e.list) /\ f.list[i] = e.list[i])
    <2>1. Len(e.list) \in Nat /\ Len(r.list) \in Nat  BY <1>2, <1>7, GoodFacts
    <2>2. i \in 1 .. Len(e.list) \/ i \in Len(e.list) + 1 .. Len(r.list)
      BY <2>1, <1>8
    <2>3. f.list[i] = r.list[i]  BY <1>8
    <2>4. /\ \A j \in 1 .. Len(e.list) : r.list[j] = e.list[j]
          /\ \A j \in Len(e.list) + 1 .. Len(r.list) : r.list[j] \in Definition
      BY <1>6, <1>9 DEF Sent
    <2> QED  BY <2>2, <2>3, <2>4
  <1>16. /\ Len(f.frames) = Len(e.frames) + 1 /\ Content(f, Len(e.frames) + 1) = {}
         /\ f.frames[Len(e.frames) + 1].size = Len(f.list)
    BY <1>8, <1>10
  <1> QED
    BY <1>11, <1>12, <1>13, <1>14, <1>15, <1>16 DEF Opened

(* What an engine is like after a call, but for the assumptions.           *)
Kept(f) ==
    /\ Good(f) /\ f.asserts = TRUE
    /\ f.userLevels = [i \in 1 .. Len(f.userLevels) |-> i]
    /\ f.trail => f.needPostsolve
    /\ f.pendingPops > 0 => incremental
    /\ Len(f.frames) >= Len(f.userLevels) + 1 + f.pendingPops
    /\ Len(f.frames) <= Len(f.userLevels) + 2
    /\ ~incremental => Len(f.frames) = 1

LEMMA KeptInv ==
    ASSUME TypeOK', UNCHANGED incremental, NEW f, Kept(f), eng' = f,
           phase' = "run" => Len(f.frames) = Len(f.userLevels) + 1 + f.pendingPops,
           phase' = "run" /\ QueryAllowed' => AssumptionsApart(f)
    PROVE  IInv'
  <1>1. AssumptionsApart(eng)' = AssumptionsApart(f)  BY DEF AssumptionsApart
  <1>2. Good(eng)' = Good(f)  BY Zenon
  <1>3. f.inited /\ f.asserts  BY DEF Kept, Good
  <1>4. Between(eng)'
    BY <1>1, <1>2 DEF Between, Kept
  <1> QED  BY <1>3, <1>4 DEF IInv

LEMMA ReadyKept ==
    ASSUME NEW b, Ready(b)
    PROVE  /\ Kept(b) /\ Len(b.frames) = Len(b.userLevels) + 1 + b.pendingPops
           /\ QueryAllowed => AssumptionsApart(b)
  <1>1. Good(b) /\ b.pendingPops = 0 /\ b.trail = FALSE  BY DEF Ready, Settled
  <1>2. Len(b.userLevels) \in Nat  BY <1>1, EngineType, LenProperties DEF Good
  <1>3. Len(b.frames) = Len(b.userLevels) + 1  BY DEF Ready
  <1>4. Kept(b)  BY <1>1, <1>2, <1>3 DEF Ready, Kept
  <1>5. QueryAllowed => AssumptionsApart(b)  BY DEF Ready, AssumptionsApart
  <1> QED  BY <1>1, <1>2, <1>3, <1>4, <1>5


(* The user frames of an engine without further levels.                    *)
LEMMA UFLevels ==
    ASSUME NEW e, Good(e), Len(e.frames) >= Len(e.userLevels) + 1
    PROVE  /\ UF(e) = [i \in 1 .. Len(e.userLevels) + 1 |-> Content(e, i) \cap Formula]
           /\ UF(e) \in Seq(SUBSET Formula) /\ Len(UF(e)) = Len(e.userLevels) + 1
           /\ Len(e.userLevels) \in Nat
  <1>1. Len(e.userLevels) \in Nat  BY EngineType, LenProperties DEF Good
  <1>2. Len(e.frames) \in Nat /\ DOMAIN e.frames = 1 .. Len(e.frames)  BY GoodFacts
  <1>3. \A i \in 1 .. Len(e.userLevels) + 1 : i \in DOMAIN e.frames  BY <1>1, <1>2
  <1>4. UF(e) = [i \in 1 .. Len(e.userLevels) + 1 |-> Content(e, i) \cap Formula]
    BY <1>3 DEF UF
  <1>5. \A i \in 1 .. Len(e.userLevels) + 1 : Content(e, i) \cap Formula \in SUBSET Formula
    OBVIOUS
  <1> QED  BY <1>1, <1>4, <1>5

(* The list has grown by what is no definition.                            *)
LEMMA GrownDefs ==
    ASSUME NEW e, Good(e), NEW f, Grown(e, f), f.globals = e.globals, f.global = e.global,
           \A i \in Len(e.list) + 1 .. Len(f.list) : f.list[i] \notin Definition
    PROVE  Defs(f)
  <1> DEFINE n == Len(e.list)
             m == Len(f.list)
  <1>1. Defs(e) /\ e \in Engine  BY DEF Good
  <1>2. f.frames = e.frames /\ (\A i \in 1 .. n : f.list[i] = e.list[i]) /\ n <= m
    BY <1>1, EngineType, LenProperties DEF Grown
  <1>3. n \in Nat /\ m \in Nat  BY <1>1, EngineType, LenProperties DEF Grown
  <1>4. \A i \in 1 .. m : i \in 1 .. n \/ i \in n + 1 .. m  BY <1>3
  <1>5. \A i \in 1 .. n : i \in 1 .. m  BY <1>2, <1>3
  <1>6. \A i \in n + 1 .. m : f.list[i] \notin Definition  OBVIOUS
  <1>7. /\ e.global <= Len(e.globals)
        /\ \A j \in 1 .. e.global : \E i \in 1 .. n : e.list[i] = e.globals[j]
        /\ \A i \in 1 .. n : e.list[i] \in Definition =>
              \E j \in 1 .. Len(e.globals) : e.globals[j] = e.list[i]
    BY <1>1 DEF Defs
  <1> HIDE DEF n, m
  <1>8. \A j \in 1 .. e.global : \E i \in 1 .. m : f.list[i] = e.globals[j]
    BY <1>2, <1>5, <1>7
  <1>9. ASSUME NEW k \in DOMAIN e.frames
        PROVE  /\ e.frames[k].global <= Len(e.globals)
               /\ \A j \in 1 .. e.frames[k].global :
                     \E i \in 1 .. e.frames[k].size : f.list[i] = e.globals[j]
    <2>1. /\ e.frames[k].global <= Len(e.globals)
          /\ \A j \in 1 .. e.frames[k].global :
                \E i \in 1 .. e.frames[k].size : e.list[i] = e.globals[j]
      BY <1>1 DEF Defs
    <2>2. e.frames[k].size \in Nat /\ e.frames[k].size <= n  BY GoodFacts DEF n
    <2>3. \A i \in 1 .. e.frames[k].size : i \in 1 .. n  BY <2>2, <1>3
    <2>4. \A i \in 1 .. e.frames[k].size : f.list[i] = e.list[i]  BY <2>3, <1>2
    <2> QED  BY <2>1, <2>4
  <1>10. \A i \in 1 .. m : f.list[i] \in Definition =>
            \E j \in 1 .. Len(e.globals) : e.globals[j] = f.list[i]
    BY <1>2, <1>4, <1>6, <1>7
  <1> QED  BY <1>2, <1>7, <1>8, <1>9, <1>10 DEF Defs, m

(* An assertion goes to the end of the list.                               *)
WithEntry(b, x) == [b EXCEPT !.list = Append(@, x)]

LEMMA WithEntryFields ==
    ASSUME NEW b \in Engine, NEW x \in Entry, NEW f, f = WithEntry(b, x)
    PROVE  /\ f \in Engine /\ f.list = Append(b.list, x)
           /\ f.inited = b.inited /\ f.index = b.index /\ f.global = b.global
           /\ f.frames = b.frames /\ f.satLevel = b.satLevel /\ f.prop = b.prop
           /\ SameFlags(b, f) /\ f.asserts = b.asserts
  <1>1. Append(b.list, x) \in Seq(Entry)  BY EngineType, AppendProperties
  <1> QED  BY <1>1 DEF WithEntry, Engine, SameFlags

LEMMA WithEntryReady ==
    ASSUME NEW b, Ready(b), NEW x \in Formula, NEW f, f = WithEntry(b, x)
    PROVE  /\ Ready(f) /\ f.globals = b.globals /\ f.assumed = b.assumed
           /\ UF(f) = [UF(b) EXCEPT ![Len(UF(b))] = @ \cup {x}]
  <1> DEFINE n == Len(b.list)
             N == Len(b.frames)
  <1>1. Good(b) /\ b \in Engine /\ Defs(b) /\ n \in Nat /\ N \in Nat \ {0}
        /\ DOMAIN b.frames = 1 .. N
    BY GoodFacts DEF Ready, Settled, Good
  <1>2. x \in Entry /\ x \notin Definition /\ x \notin Assumption
    BY SetsAssumption DEF Entry
  <1>3. /\ f \in Engine /\ f.list = Append(b.list, x)
        /\ f.inited = b.inited /\ f.index = b.index /\ f.global = b.global
        /\ f.frames = b.frames /\ f.satLevel = b.satLevel /\ f.prop = b.prop
        /\ SameFlags(b, f) /\ f.asserts = b.asserts
    BY <1>1, <1>2, WithEntryFields
  <1>4. /\ Len(f.list) = n + 1 /\ f.list[n + 1] = x
        /\ \A i \in 1 .. n : f.list[i] = b.list[i]
    BY <1>1, <1>2, <1>3, EngineType, AppendProperties
  <1>5. Grown(b, f)  BY <1>1, <1>3, <1>4 DEF Grown
  <1>6. f.globals = b.globals /\ f.global = b.global /\ f.frames = b.frames
    BY <1>3 DEF SameFlags
  <1>7. \A i \in 1 .. n + 1 : i \in 1 .. n \/ i = n + 1  BY <1>1
  <1>8. Defs(f)
    <2>1. \A i \in n + 1 .. Len(f.list) : f.list[i] \notin Definition
      <3>1. n + 1 .. n + 1 = {n + 1}  BY <1>1
      <3> QED  BY <3>1, <1>2, <1>4
    <2> QED  BY <2>1, <1>1, <1>5, <1>6, GrownDefs
  <1>9. Good(f) /\ \A k \in 1 .. N :
           Content(f, k) = Content(b, k) \cup
              (IF k = N THEN {f.list[i] : i \in n + 1 .. Len(f.list)} ELSE {})
    BY <1>1, <1>5, <1>8, GrownGood
  <1>10. {f.list[i] : i \in n + 1 .. Len(f.list)} = {x}
    <2>1. n + 1 .. n + 1 = {n + 1}  BY <1>1
    <2> QED  BY <2>1, <1>4
  <1>11. Ready(f)
    <2>1. Settled(f)  BY <1>3, <1>9 DEF Ready, Settled, SameFlags
    <2>2. QueryAllowed => \A i \in 1 .. Len(f.list) : f.list[i] \notin Assumption
      BY <1>2, <1>4, <1>7 DEF Ready
    <2> QED  BY <2>1, <2>2, <1>3 DEF Ready, SameFlags
  <1>12. f.userLevels = b.userLevels /\ f.assumed = b.assumed  BY <1>3 DEF SameFlags
  <1>13. N = Len(b.userLevels) + 1 /\ Len(f.frames) = N  BY <1>3 DEF Ready
  <1> HIDE DEF N, n
  <1>14. /\ UF(b) = [i \in 1 .. N |-> Content(b, i) \cap Formula]
         /\ UF(b) \in Seq(SUBSET Formula) /\ Len(UF(b)) = N
    <2>1. Len(b.frames) >= Len(b.userLevels) + 1  BY <1>1, <1>13 DEF N
    <2> QED  BY <2>1, <1>1, <1>13, UFLevels
  <1>15. UF(f) = [i \in 1 .. N |-> Content(f, i) \cap Formula]
    <2>1. Len(f.frames) >= Len(f.userLevels) + 1 /\ Len(f.userLevels) + 1 = N
      BY <1>1, <1>12, <1>13
    <2> QED  BY <2>1, <1>9, UFLevels
  <1>16. UF(f) = [UF(b) EXCEPT ![N] = @ \cup {x}]
    <2>1. \A i \in 1 .. N : Content(f, i) \cap Formula =
             IF i = N THEN (Content(b, i) \cap Formula) \cup {x} ELSE Content(b, i) \cap Formula
      BY <1>9, <1>10 DEF N, n
    <2>2. N \in 1 .. N  BY <1>1
    <2> QED  BY <2>1, <2>2, <1>14, <1>15
  <1> QED  BY <1>6, <1>11, <1>12, <1>14, <1>16

(* A global definition only grows the list of definitions.                 *)
WithDefinition(b, d) == [b EXCEPT !.globals = Append(@, d)]

LEMMA WithDefinitionFields ==
    ASSUME NEW b \in Engine, NEW d \in Definition, NEW f, f = WithDefinition(b, d)
    PROVE  /\ f \in Engine /\ f.globals = Append(b.globals, d) /\ f.list = b.list
           /\ f.inited = b.inited /\ f.index = b.index /\ f.global = b.global
           /\ f.frames = b.frames /\ f.satLevel = b.satLevel /\ f.prop = b.prop
           /\ f.assumed = b.assumed /\ f.trail = b.trail /\ f.userLevels = b.userLevels
           /\ f.pendingPops = b.pendingPops /\ f.needPostsolve = b.needPostsolve
           /\ f.asserts = b.asserts
  <1>1. Append(b.globals, d) \in Seq(Definition)  BY EngineType, AppendProperties
  <1> QED  BY <1>1 DEF WithDefinition, Engine

LEMMA WithDefinitionReady ==
    ASSUME NEW b, Ready(b), NEW d \in Definition, NEW f, f = WithDefinition(b, d)
    PROVE  /\ Ready(f) /\ f.globals = Append(b.globals, d) /\ f.assumed = b.assumed
           /\ UF(f) = UF(b)
  <1>1. Good(b) /\ b \in Engine /\ Defs(b)
    BY DEF Ready, Settled, Good
  <1>2. /\ f \in Engine /\ f.globals = Append(b.globals, d) /\ f.list = b.list
        /\ f.inited = b.inited /\ f.index = b.index /\ f.global = b.global
        /\ f.frames = b.frames /\ f.satLevel = b.satLevel /\ f.prop = b.prop
        /\ f.assumed = b.assumed /\ f.trail = b.trail /\ f.userLevels = b.userLevels
        /\ f.pendingPops = b.pendingPops /\ f.needPostsolve = b.needPostsolve
        /\ f.asserts = b.asserts
    BY <1>1, WithDefinitionFields
  <1> DEFINE G == Len(b.globals)
  <1>3. /\ G \in Nat /\ Len(f.globals) = G + 1
        /\ \A j \in 1 .. G : f.globals[j] = b.globals[j]
    BY <1>1, <1>2, EngineType, AppendProperties, LenProperties
  <1>4. b.global \in Nat  BY <1>1, EngineType
  <1>5. ASSUME NEW g \in Nat, g <= G
        PROVE  g <= Len(f.globals) /\ \A j \in 1 .. g : f.globals[j] = b.globals[j]
    <2>1. \A j \in 1 .. g : j \in 1 .. G  BY <1>3, <1>5
    <2> QED  BY <2>1, <1>3, <1>5
  <1> HIDE DEF G
  <1>6. Defs(f)
    <2>1. /\ f.global <= Len(f.globals)
          /\ \A j \in 1 .. f.global : \E i \in 1 .. Len(f.list) : f.list[i] = f.globals[j]
      <3>1. /\ b.global <= G
            /\ \A j \in 1 .. b.global : \E i \in 1 .. Len(b.list) : b.list[i] = b.globals[j]
        BY <1>1 DEF Defs, G
      <3> QED  BY <3>1, <1>2, <1>4, <1>5
    <2>2. ASSUME NEW k \in DOMAIN b.frames
          PROVE  /\ b.frames[k].global <= Len(f.globals)
                 /\ \A j \in 1 .. b.frames[k].global :
                       \E i \in 1 .. b.frames[k].size : b.list[i] = f.globals[j]
      <3>1. /\ b.frames[k].global <= G
            /\ \A j \in 1 .. b.frames[k].global :
                  \E i \in 1 .. b.frames[k].size : b.list[i] = b.globals[j]
        BY <1>1 DEF Defs, G
      <3>2. b.frames[k].global \in Nat  BY <1>1, GoodFacts
      <3> QED  BY <3>1, <3>2, <1>5
    <2>3. ASSUME NEW i \in 1 .. Len(b.list), b.list[i] \in Definition
          PROVE  \E j \in 1 .. Len(f.globals) : f.globals[j] = b.list[i]
      <3>1. PICK j \in 1 .. G : b.globals[j] = b.list[i]  BY <2>3, <1>1 DEF Defs, G
      <3>2. j \in 1 .. Len(f.globals)  BY <1>3
      <3> QED  BY <3>1, <3>2, <1>3
    <2>4. f.list = b.list /\ f.frames = b.frames  BY <1>2
    <2> QED  BY <2>1, <2>2, <2>3, <2>4 DEF Defs
  <1>7. \A k : EndOf(f, k) = EndOf(b, k) /\ Content(f, k) = Content(b, k)
    BY <1>2 DEF EndOf, Content
  <1>8. FramesOK(f) /\ Covered(f) /\ Mirror(f)
    BY <1>1, <1>2, <1>7 DEF Good, FramesOK, Covered, Mirror
  <1>9. Good(f)
    BY <1>1, <1>2, <1>6, <1>8 DEF Good
  <1>10. Ready(f)  BY <1>2, <1>9 DEF Ready, Settled
  <1>11. UF(f) = UF(b)  BY <1>2, <1>7 DEF UF
  <1> QED  BY <1>2, <1>10, <1>11


(* Sending changes nothing that the user sees.                             *)
LEMMA SentReady ==
    ASSUME NEW b, Ready(b), NEW s, Sent(b, s)
    PROVE  Ready(s) /\ SameUser(b, s)
  <1>1. Good(b) /\ Good(s) /\ s.frames = b.frames /\ SameFlags(b, s) /\ s.asserts = b.asserts
    BY DEF Ready, Settled, Sent
  <1>2. Len(b.list) \in Nat /\ Len(s.list) \in Nat  BY <1>1, GoodFacts
  <1>3. ASSUME QueryAllowed, NEW i \in 1 .. Len(s.list)
        PROVE  s.list[i] \notin Assumption
    <2>1. CASE i \in 1 .. Len(b.list)
      <3>1. s.list[i] = b.list[i]  BY <2>1 DEF Sent
      <3> QED  BY <3>1, <2>1, <1>3 DEF Ready
    <2>2. CASE i \in Len(b.list) + 1 .. Len(s.list)
      <3>1. s.list[i] \in Definition  BY <2>2 DEF Sent
      <3> QED  BY <3>1, SetsAssumption
    <2> QED  BY <2>1, <2>2, <1>2
  <1>4. Settled(s)  BY <1>1 DEF Ready, Settled, SameFlags
  <1>5. Ready(s)  BY <1>1, <1>3, <1>4 DEF Ready, SameFlags
  <1>6. \A k \in 1 .. Len(b.frames) : Content(s, k) \ Definition = Content(b, k) \ Definition
    BY DEF Sent
  <1>7. \A k \in DOMAIN b.frames : Content(s, k) \cap Formula = Content(b, k) \cap Formula
    <2>1. DOMAIN b.frames = 1 .. Len(b.frames)  BY <1>1, GoodFacts
    <2> QED  BY <1>6, <2>1, SetsAssumption
  <1>8. UF(s) = UF(b)
    BY <1>1, <1>7 DEF UF, SameFlags
  <1> QED  BY <1>1, <1>5, <1>8 DEF SameUser, SameFlags

(* userPush.                                                               *)
WithLevel(s, n) == [s EXCEPT !.userLevels = Append(@, n)]

LEMMA WithLevelFields ==
    ASSUME NEW s \in Engine, NEW n \in Nat, NEW w, w = WithLevel(s, n)
    PROVE  /\ SameContent(s, w) /\ w.userLevels = Append(s.userLevels, n)
           /\ w.assumed = s.assumed /\ w.trail = s.trail /\ w.asserts = s.asserts
           /\ w.pendingPops = s.pendingPops /\ w.needPostsolve = s.needPostsolve
  <1>1. Append(s.userLevels, n) \in Seq(Nat)  BY EngineType, AppendProperties
  <1> QED  BY <1>1 DEF WithLevel, Engine, SameContent

LEMMA UserPushReady ==
    ASSUME NEW s, Ready(s), incremental = TRUE, NEW f, f = userPush(s)
    PROVE  /\ Ready(f) /\ f.globals = s.globals /\ f.assumed = s.assumed
           /\ UF(f) = Append(UF(s), {})
  <1> DEFINE w == WithLevel(s, Len(s.frames))
             n == Len(s.userLevels)
  <1>1. f = internalPush(w)  BY DEF userPush, WithLevel
  <1>2. Good(s) /\ s \in Engine /\ Len(s.frames) \in Nat /\ Len(s.frames) = n + 1 /\ n \in Nat
    BY GoodFacts, EngineType, LenProperties DEF Ready, Settled, Good
  <1>3. w = WithLevel(s, Len(s.frames))  OBVIOUS
  <1> HIDE DEF w
  <1>4. /\ SameContent(s, w) /\ w.userLevels = Append(s.userLevels, Len(s.frames))
        /\ w.assumed = s.assumed /\ w.trail = s.trail /\ w.asserts = s.asserts
        /\ w.pendingPops = s.pendingPops /\ w.needPostsolve = s.needPostsolve
    BY <1>2, <1>3, WithLevelFields
  <1>5. Good(w) /\ \A k : Content(w, k) = Content(s, k)  BY <1>2, <1>4, SameContentGood
  <1>6. Settled(w)  BY <1>4, <1>5 DEF Ready, Settled
  <1>7. Opened(w, f)  BY <1>1, <1>6, InternalPushOpens
  <1>8. w.frames = s.frames /\ w.list = s.list /\ w.globals = s.globals
    BY <1>4 DEF SameContent
  <1>9. /\ Settled(f) /\ Len(f.frames) = n + 2
        /\ f.globals = s.globals /\ f.assumed = s.assumed
        /\ f.userLevels = Append(s.userLevels, n + 1) /\ f.asserts = TRUE
    <2>1. Len(f.frames) = n + 2
      <3>1. Len(f.frames) = Len(w.frames) + 1  BY <1>7 DEF Opened
      <3> QED  BY <3>1, <1>2, <1>8
    <2>2. f.asserts = TRUE
      <3>1. f.asserts = w.asserts  BY <1>7 DEF Opened
      <3> QED  BY <3>1, <1>4 DEF Ready
    <2> QED  BY <2>1, <2>2, <1>2, <1>4, <1>7, <1>8 DEF Opened
  <1>10. s.userLevels = [i \in 1 .. n |-> i] /\ s.userLevels \in Seq(Nat)
    BY <1>2, EngineType DEF Ready
  <1>11. /\ Len(f.userLevels) = n + 1
         /\ f.userLevels = [i \in 1 .. Len(f.userLevels) |-> i]
    <2>1. Len(f.userLevels) = n + 1  BY <1>2, <1>9, <1>10, AppendProperties
    <2>2. Append([i \in 1 .. n |-> i], n + 1) = [i \in 1 .. n + 1 |-> i]
      BY <1>2
    <2> QED  BY <2>1, <2>2, <1>9, <1>10
  <1>12. ASSUME QueryAllowed, NEW i \in 1 .. Len(f.list)
         PROVE  f.list[i] \notin Assumption
    <2>1. f.list[i] \in Definition \/ (i \in 1 .. Len(s.list) /\ f.list[i] = s.list[i])
      BY <1>7, <1>8 DEF Opened
    <2>2. \A j \in 1 .. Len(s.list) : s.list[j] \notin Assumption  BY <1>12 DEF Ready
    <2> QED  BY <2>1, <2>2, SetsAssumption
  <1>13. Ready(f)
    <2>1. Len(f.frames) = Len(f.userLevels) + 1  BY <1>2, <1>9, <1>11
    <2> QED  BY <2>1, <1>9, <1>11, <1>12 DEF Ready
  <1>14. /\ \A k \in 1 .. n + 1 : Content(f, k) \cap Formula = Content(s, k) \cap Formula
         /\ Content(f, n + 2) = {}
    <2>1. Len(w.frames) = n + 1 /\ Len(w.frames) + 1 = n + 2  BY <1>2, <1>8
    <2>2. \A k \in 1 .. n + 1 : Content(f, k) \ Definition = Content(s, k) \ Definition
      BY <2>1, <1>5, <1>7 DEF Opened
    <2>3. Content(f, n + 2) = {}  BY <2>1, <1>7 DEF Opened
    <2> QED  BY <2>2, <2>3, SetsAssumption
  <1>15. UF(s) = [i \in 1 .. n + 1 |-> Content(s, i) \cap Formula]
    BY <1>2, UFLevels
  <1>16. UF(f) = [i \in 1 .. n + 2 |-> Content(f, i) \cap Formula]
    <2>1. Good(f) /\ Len(f.frames) >= Len(f.userLevels) + 1 /\ Len(f.userLevels) + 1 = n + 2
      BY <1>2, <1>9, <1>11 DEF Settled
    <2> QED  BY <2>1, UFLevels
  <1>17. UF(f) = Append(UF(s), {})
    <2> DEFINE S == [i \in 1 .. n + 1 |-> Content(s, i) \cap Formula]
               F == [i \in 1 .. n + 2 |-> Content(f, i) \cap Formula]
    <2>1. Append(S, {}) = [i \in 1 .. n + 2 |-> IF i = n + 2 THEN {} ELSE S[i]]
      <3>1. Len(S) = n + 1  BY <1>2
      <3> QED  BY <3>1, <1>2
    <2>2. \A i \in 1 .. n + 2 : i # n + 2 => i \in 1 .. n + 1  BY <1>2
    <2>3. F = [i \in 1 .. n + 2 |-> IF i = n + 2 THEN {} ELSE S[i]]
      BY <2>2, <1>14
    <2> QED  BY <2>1, <2>3, <1>15, <1>16
  <1> QED  BY <1>9, <1>13, <1>17

(* userPop.                                                                *)
WithoutLevel(q, m, a) == [q EXCEPT !.userLevels = SubSeq(@, 1, m), !.asserts = a]

LEMMA WithoutLevelFields ==
    ASSUME NEW q \in Engine, NEW m \in Nat, m <= Len(q.userLevels),
           NEW a, a = q.asserts, NEW f, f = WithoutLevel(q, m, a)
    PROVE  /\ SameContent(q, f) /\ f.userLevels = SubSeq(q.userLevels, 1, m)
           /\ f.assumed = q.assumed /\ f.trail = q.trail /\ f.asserts = q.asserts
           /\ f.pendingPops = q.pendingPops /\ f.needPostsolve = q.needPostsolve
  <1>1. q.userLevels \in Seq(Nat) /\ m \in 0 .. Len(q.userLevels)
    BY EngineType, LenProperties
  <1>2. SubSeq(q.userLevels, 1, m) \in Seq(Nat)  BY <1>1, Prefix
  <1> QED  BY <1>2 DEF WithoutLevel, Engine, SameContent

LEMMA UserPopReady ==
    ASSUME NEW b, Ready(b), b.userLevels # <<>>, incremental = TRUE, NEW f, f = userPop(b)
    PROVE  /\ Ready(f) /\ f.globals = b.globals /\ f.assumed = b.assumed
           /\ Len(UF(b)) > 1 /\ UF(f) = SubSeq(UF(b), 1, Len(UF(b)) - 1)
  <1> DEFINE n == Len(b.userLevels)
             q == PopLevels(b, 1)
             back == b.userLevels[n]
             a == q.asserts /\ back < Len(b.frames)
  <1>1. Good(b) /\ b \in Engine /\ Len(b.frames) = n + 1 /\ n \in Nat \ {0}
        /\ b.userLevels \in Seq(Nat) /\ b.userLevels = [i \in 1 .. n |-> i]
        /\ ~b.trail
    <2>1. b \in Engine  BY DEF Ready, Settled, Good
    <2>2. b.userLevels \in Seq(Nat)  BY <2>1, EngineType
    <2>3. n \in Nat \ {0}  BY <2>2, EmptySeq, LenProperties
    <2> QED  BY <2>1, <2>2, <2>3 DEF Ready, Settled
  <1>2. back = n  BY <1>1
  <1>3. Len(b.frames) - back = 1 /\ back < Len(b.frames)  BY <1>1, <1>2
  <1>4. f = WithoutLevel(q, Len(q.userLevels) - 1, a)
    BY <1>3 DEF userPop, WithoutLevel
  <1>5. q = PopLevels(b, 1) /\ a = (q.asserts /\ back < Len(b.frames))  OBVIOUS
  <1> HIDE DEF q, a, back
  <1>6. /\ Good(q) /\ Lower(b, q) /\ SameFlags(b, q) /\ q.asserts = b.asserts
        /\ Len(q.frames) = Len(b.frames) - 1
    <2>1. 1 \in Nat /\ 1 < Len(b.frames)  BY <1>1
    <2> QED  BY <2>1, <1>1, <1>5, PopLevelsLowers
  <1>7. a = q.asserts
    <2>1. q.asserts \in BOOLEAN  BY <1>6, EngineType DEF Good
    <2> QED  BY <2>1, <1>3, <1>5, Zenon
  <1>8. q \in Engine /\ q.userLevels = b.userLevels  BY <1>6 DEF Good, SameFlags
  <1>9. /\ SameContent(q, f) /\ f.userLevels = SubSeq(q.userLevels, 1, n - 1)
        /\ f.assumed = q.assumed /\ f.trail = q.trail /\ f.asserts = q.asserts
        /\ f.pendingPops = q.pendingPops /\ f.needPostsolve = q.needPostsolve
    <2>1. n - 1 \in Nat /\ n - 1 <= Len(q.userLevels) /\ Len(q.userLevels) - 1 = n - 1
      BY <1>1, <1>8
    <2>2. f = WithoutLevel(q, n - 1, a)  BY <2>1, <1>4
    <2> QED  BY <2>1, <2>2, <1>7, <1>8, WithoutLevelFields
  <1>10. Good(f) /\ \A k : Content(f, k) = Content(q, k)  BY <1>6, <1>9, SameContentGood
  <1>11. f.frames = q.frames /\ f.list = q.list /\ f.globals = q.globals
    BY <1>9 DEF SameContent
  <1>12. Settled(f)
    BY <1>6, <1>9, <1>10 DEF Ready, Settled, SameFlags
  <1>13. Len(f.frames) = n  BY <1>1, <1>6, <1>11
  <1>14. Len(f.userLevels) = n - 1 /\ f.userLevels = [i \in 1 .. Len(f.userLevels) |-> i]
    <2>1. n - 1 \in 0 .. Len(b.userLevels)  BY <1>1
    <2>2. Len(f.userLevels) = n - 1 /\ f.userLevels \in Seq(Nat)
          /\ \A i \in 1 .. n - 1 : f.userLevels[i] = b.userLevels[i]
      BY <2>1, <1>1, <1>8, <1>9, Prefix
    <2>3. \A i \in 1 .. n - 1 : b.userLevels[i] = i
      <3>1. \A i \in 1 .. n - 1 : i \in 1 .. n  BY <1>1
      <3>2. \A i \in 1 .. n : [j \in 1 .. n |-> j][i] = i  OBVIOUS
      <3> QED  BY <3>1, <3>2, <1>1
    <2>4. f.userLevels = [i \in 1 .. n - 1 |-> i]
      <3>1. DOMAIN f.userLevels = 1 .. n - 1  BY <2>2, LenProperties
      <3>2. f.userLevels = [i \in 1 .. n - 1 |-> f.userLevels[i]]  BY <3>1, <2>2
      <3> QED  BY <3>2, <2>2, <2>3
    <2> QED  BY <2>2, <2>4
  <1>15. ASSUME QueryAllowed, NEW i \in 1 .. Len(f.list)
         PROVE  f.list[i] \notin Assumption
    <2>1. f.list[i] = b.list[i] /\ Len(f.list) <= Len(b.list)  BY <1>6, <1>11 DEF Lower
    <2>2. Len(f.list) \in Nat /\ Len(b.list) \in Nat  BY <1>1, <1>10, GoodFacts
    <2>3. i \in 1 .. Len(b.list)  BY <2>1, <2>2
    <2> QED  BY <2>1, <2>3, <1>15 DEF Ready
  <1>16. f.asserts = TRUE  BY <1>6, <1>9 DEF Ready
  <1>17. Ready(f)
    <2>1. Len(f.frames) = Len(f.userLevels) + 1  BY <1>1, <1>13, <1>14
    <2> QED  BY <2>1, <1>12, <1>14, <1>15, <1>16 DEF Ready
  <1>18. UF(b) = [i \in 1 .. n + 1 |-> Content(b, i) \cap Formula] /\ Len(UF(b)) = n + 1
         /\ UF(b) \in Seq(SUBSET Formula)
    BY <1>1, UFLevels
  <1>19. UF(f) = [i \in 1 .. n |-> Content(f, i) \cap Formula]
    <2>1. Len(f.frames) >= Len(f.userLevels) + 1 /\ Len(f.userLevels) + 1 = n
      BY <1>1, <1>13, <1>14
    <2> QED  BY <2>1, <1>10, UFLevels
  <1>20. \A k \in 1 .. n : Content(f, k) = Content(b, k)
    <2>1. Len(q.frames) = n  BY <1>1, <1>6
    <2> QED  BY <2>1, <1>6, <1>10 DEF Lower
  <1>21. UF(f) = SubSeq(UF(b), 1, n)
    <2> DEFINE u == UF(b)
    <2>1. n \in 0 .. Len(u) /\ u \in Seq(SUBSET Formula)  BY <1>1, <1>18
    <2>2. \A i \in 1 .. n : i \in 1 .. n + 1  BY <1>1
    <2>3. \A i \in 1 .. n : u[i] = Content(f, i) \cap Formula  BY <2>2, <1>18, <1>20
    <2> HIDE DEF u
    <2>4. SubSeq(u, 1, n) = [i \in 1 .. n |-> u[i]]
      BY <2>1
    <2> QED  BY <2>3, <2>4, <1>19 DEF u
  <1>22. Len(UF(b)) > 1 /\ Len(UF(b)) - 1 = n  BY <1>1, <1>18
  <1>23. f.globals = b.globals /\ f.assumed = b.assumed  BY <1>6, <1>9, <1>11 DEF SameFlags
  <1> QED  BY <1>17, <1>21, <1>22, <1>23


(* The pop of the user context to level zero.                              *)
LEMMA PopAllFields ==
    ASSUME NEW e, Good(e), NEW f, f = PopUserContext(e, 0)
    PROVE  /\ f \in Engine /\ f.list = <<>> /\ f.index = 0 /\ f.global = 0
           /\ f.frames = <<>> /\ SameFlags(e, f) /\ f.asserts = e.asserts
  <1>1. e \in Engine /\ FramesOK(e) /\ Defs(e)  BY DEF Good
  <1>2. Len(e.frames) \in Nat \ {0} /\ Len(e.list) \in Nat /\ DOMAIN e.frames = 1 .. Len(e.frames)
    BY GoodFacts
  <1>3. 0 \in 0 .. Len(e.frames) - 1 /\ 0 + 1 = 1 /\ 1 \in 1 .. Len(e.frames)  BY <1>2
  <1>4. e.frames[1].size = 0 /\ e.frames[1].index = 0 /\ e.frames[1].global \in Nat
    <2>1. e.frames[1].size = 0  BY <1>1 DEF FramesOK
    <2> QED  BY <2>1, <1>3, GoodFacts
  <1>5. e.frames[1].global = 0
    <2>1. \A j \in 1 .. e.frames[1].global : \E i \in 1 .. e.frames[1].size :
             e.list[i] = e.globals[j]
      BY <1>1, <1>2, <1>3 DEF Defs
    <2>2. \A j \in 1 .. e.frames[1].global : FALSE
      <3>1. \A i \in 1 .. 0 : FALSE  OBVIOUS
      <3> QED  BY <2>1, <3>1, <1>4
    <2> QED  BY <2>2, <1>4
  <1>6. e.frames[0 + 1].size <= Len(e.list)  BY <1>2, <1>4
  <1>7. /\ f \in Engine
        /\ f.list = SubSeq(e.list, 1, e.frames[0 + 1].size)
        /\ f.index = e.frames[0 + 1].index
        /\ f.global = e.frames[0 + 1].global
        /\ f.frames = SubSeq(e.frames, 1, 0)
        /\ SameFlags(e, f) /\ f.asserts = e.asserts
    BY <1>1, <1>3, <1>6, PopUserContextFields DEF SameFlags
  <1>8. SubSeq(e.list, 1, 0) = <<>> /\ SubSeq(e.frames, 1, 0) = <<>>
    BY SubSeqEmpty
  <1> QED  BY <1>4, <1>5, <1>7, <1>8

(* resetAssertions: back to the first level, then to none, and one push.   *)
AtFirstLevel(p) ==
    IF p.userLevels = <<>> THEN p
    ELSE [PopLevels(p, Len(p.frames) - p.userLevels[1]) EXCEPT !.userLevels = <<>>]
NoUserLevels(q) == [q EXCEPT !.userLevels = <<>>]
Checked(u, a) == [u EXCEPT !.asserts = a]
AtLevelOne(e) == [e EXCEPT !.satLevel = 1]
EmptySolver(e) == [e EXCEPT !.prop = <<{}>>]

LEMMA NoUserLevelsFields ==
    ASSUME NEW q \in Engine, NEW f, f = NoUserLevels(q)
    PROVE  /\ SameContent(q, f) /\ f.userLevels = <<>>
           /\ f.assumed = q.assumed /\ f.trail = q.trail /\ f.asserts = q.asserts
           /\ f.pendingPops = q.pendingPops /\ f.needPostsolve = q.needPostsolve
  <1>1. <<>> \in Seq(Nat)  OBVIOUS
  <1> QED  BY <1>1 DEF NoUserLevels, Engine, SameContent

LEMMA CheckedFields ==
    ASSUME NEW q \in Engine, NEW a, a = q.asserts, NEW f, f = Checked(q, a)
    PROVE  SameContent(q, f) /\ SameFlags(q, f) /\ f.asserts = q.asserts
  BY DEF Checked, Engine, SameContent, SameFlags

LEMMA AtLevelOneFields ==
    ASSUME NEW q \in Engine, NEW f, f = AtLevelOne(q)
    PROVE  /\ f \in Engine /\ f.satLevel = 1 /\ f.list = q.list /\ f.index = q.index
           /\ f.global = q.global /\ f.frames = q.frames
           /\ SameFlags(q, f) /\ f.asserts = q.asserts
  BY DEF AtLevelOne, Engine, SameFlags

LEMMA EmptySolverFields ==
    ASSUME NEW q \in Engine, NEW f, f = EmptySolver(q)
    PROVE  /\ f \in Engine /\ f.prop = <<{}>> /\ f.list = q.list /\ f.index = q.index
           /\ f.global = q.global /\ f.frames = q.frames /\ f.satLevel = q.satLevel
           /\ SameFlags(q, f) /\ f.asserts = q.asserts
  <1>1. <<{}>> \in Seq(SUBSET Entry)  OBVIOUS
  <1> QED  BY <1>1 DEF EmptySolver, Engine, SameFlags

LEMMA AtFirstLevelGood ==
    ASSUME NEW p, Ready(p), NEW u, u = AtFirstLevel(p)
    PROVE  /\ Settled(u) /\ Len(u.frames) = 1 /\ u.userLevels = <<>> /\ u.asserts = TRUE
           /\ u.globals = p.globals /\ u.assumed = p.assumed
  <1>1. Good(p) /\ p \in Engine /\ ~p.trail /\ p.asserts = TRUE
        /\ p.userLevels = [i \in 1 .. Len(p.userLevels) |-> i]
        /\ Len(p.frames) = Len(p.userLevels) + 1
    BY DEF Ready, Settled, Good
  <1>2. CASE p.userLevels = <<>>
    <2>1. u = p  BY <1>2 DEF AtFirstLevel
    <2>2. Len(p.frames) = 1  BY <1>1, <1>2
    <2> QED  BY <2>1, <2>2, <1>2 DEF Ready
  <1>3. CASE p.userLevels # <<>>
    <2> DEFINE n == Len(p.userLevels)
               q == PopLevels(p, n)
    <2>1. n \in Nat \ {0} /\ p.userLevels[1] = 1
      <3>1. p.userLevels \in Seq(Nat)  BY <1>1, EngineType
      <3>2. n \in Nat \ {0}  BY <3>1, <1>3, EmptySeq, LenProperties
      <3> QED  BY <3>2, <1>1
    <2>2. Len(p.frames) - p.userLevels[1] = n /\ n < Len(p.frames)  BY <1>1, <2>1
    <2>3. u = NoUserLevels(q)  BY <2>2, <1>3 DEF AtFirstLevel, NoUserLevels
    <2>4. q = PopLevels(p, n)  OBVIOUS
    <2> HIDE DEF q
    <2>5. /\ Good(q) /\ Lower(p, q) /\ SameFlags(p, q) /\ q.asserts = p.asserts
          /\ Len(q.frames) = Len(p.frames) - n
      <3>1. n \in Nat  BY <2>1
      <3> QED  BY <3>1, <1>1, <2>2, <2>4, PopLevelsLowers
    <2>6. q \in Engine  BY <2>5 DEF Good
    <2>7. /\ SameContent(q, u) /\ u.userLevels = <<>>
          /\ u.assumed = q.assumed /\ u.trail = q.trail /\ u.asserts = q.asserts
          /\ u.pendingPops = q.pendingPops /\ u.needPostsolve = q.needPostsolve
      BY <2>3, <2>6, NoUserLevelsFields
    <2>8. Good(u)  BY <2>5, <2>7, SameContentGood
    <2>9. Settled(u)  BY <2>5, <2>7, <2>8 DEF Ready, Settled, SameFlags
    <2>10. Len(u.frames) = 1
      <3>1. Len(q.frames) = 1  BY <1>1, <2>1, <2>5
      <3> QED  BY <3>1, <2>7 DEF SameContent
    <2> QED  BY <1>1, <2>5, <2>7, <2>9, <2>10 DEF SameContent, SameFlags
  <1> QED  BY <1>2, <1>3

LEMMA ResetReady ==
    ASSUME NEW e, NEW p, p = doPendingPops(e), Ready(p),
           NEW f, f = [notifyResetAssertions(e) EXCEPT !.prop = <<{}>>]
    PROVE  /\ Ready(f) /\ f.globals = p.globals /\ f.assumed = p.assumed
           /\ UF(f) = <<{}>>
  <1> DEFINE u == AtFirstLevel(p)
             a == u.asserts /\ Len(u.frames) = 1
             b == Checked(u, a)
             c == PopUserContext(b, 0)
             d == AtLevelOne(c)
             g == PushUserContext(d)
  <1>1. notifyResetAssertions(e) = g
    BY DEF notifyResetAssertions, AtFirstLevel, Checked, AtLevelOne
  <1>2. f = EmptySolver(g)  BY <1>1 DEF EmptySolver
  <1>3. /\ Settled(u) /\ Len(u.frames) = 1 /\ u.userLevels = <<>> /\ u.asserts = TRUE
        /\ u.globals = p.globals /\ u.assumed = p.assumed
    BY AtFirstLevelGood
  <1>4. b = Checked(u, a) /\ c = PopUserContext(b, 0) /\ d = AtLevelOne(c)
        /\ g = PushUserContext(d)
    OBVIOUS
  <1> HIDE DEF u, b, c, d, g
  <1>5. a = u.asserts  BY <1>3
  <1> HIDE DEF a
  <1>6. Good(u) /\ u \in Engine /\ u.trail = FALSE /\ u.pendingPops = 0
        /\ u.needPostsolve = FALSE
    BY <1>3 DEF Settled, Good
  <1>7. SameContent(u, b) /\ SameFlags(u, b) /\ b.asserts = u.asserts
    <2>1. u \in Engine  BY <1>6
    <2>2. b = Checked(u, a)  BY <1>4
    <2> QED  BY <2>1, <2>2, <1>5, CheckedFields
  <1>8. Good(b)  BY <1>6, <1>7, SameContentGood
  <1>9. /\ c \in Engine /\ c.list = <<>> /\ c.index = 0 /\ c.global = 0
        /\ c.frames = <<>> /\ SameFlags(b, c) /\ c.asserts = b.asserts
    BY <1>4, <1>8, PopAllFields
  <1>10. /\ d \in Engine /\ d.satLevel = 1 /\ d.list = c.list /\ d.index = c.index
         /\ d.global = c.global /\ d.frames = c.frames
         /\ SameFlags(c, d) /\ d.asserts = c.asserts
    <2>1. c \in Engine /\ d = AtLevelOne(c)  BY <1>4, <1>9
    <2> QED  BY <2>1, AtLevelOneFields
  <1>11. /\ g \in Engine
         /\ g.frames = Append(d.frames, [size |-> Len(d.list), index |-> d.index,
                                         global |-> d.global])
         /\ g.list = d.list /\ g.index = d.index /\ g.global = d.global
         /\ g.satLevel = d.satLevel /\ SameFlags(d, g) /\ g.asserts = d.asserts
    <2>1. d \in Engine /\ g = PushUserContext(d)  BY <1>4, <1>10
    <2> QED  BY <2>1, PushUserContextFields DEF SameFlags
  <1>12. g.frames = <<[size |-> 0, index |-> 0, global |-> 0]>>
    BY <1>9, <1>10, <1>11
  <1>13. /\ f \in Engine /\ f.prop = <<{}>> /\ f.list = g.list /\ f.index = g.index
         /\ f.global = g.global /\ f.frames = g.frames /\ f.satLevel = g.satLevel
         /\ SameFlags(g, f) /\ f.asserts = g.asserts
    <2>1. g \in Engine  BY <1>11
    <2> QED  BY <2>1, <1>2, EmptySolverFields
  <1>14. SameFlags(u, f) /\ f.asserts = TRUE
    BY <1>3, <1>7, <1>9, <1>10, <1>11, <1>13 DEF SameFlags
  <1>15. /\ f.inited /\ f.list = <<>> /\ f.index = 0 /\ f.global = 0 /\ f.satLevel = 1
         /\ f.frames = <<[size |-> 0, index |-> 0, global |-> 0]>>
    <2>1. u.inited  BY <1>6 DEF Good
    <2> QED  BY <2>1, <1>9, <1>10, <1>11, <1>12, <1>13, <1>14, ZenonT(40) DEF SameFlags
  <1>16. Good(f) /\ Len(f.frames) = 1 /\ Content(f, 1) = {}
    BY <1>13, <1>15, FreshGood
  <1>17. Settled(f) /\ f.userLevels = <<>> /\ f.globals = p.globals /\ f.assumed = p.assumed
    BY <1>3, <1>6, <1>14, <1>16 DEF Settled, SameFlags
  <1>18. f.userLevels = <<>> /\ Len(f.frames) = 1 /\ f.list = <<>> /\ Content(f, 1) = {}
         /\ DOMAIN f.frames = 1 .. 1
    <2>1. DOMAIN f.frames = 1 .. Len(f.frames)  BY <1>16, GoodFacts
    <2> QED  BY <2>1, <1>15, <1>16, <1>17
  <1>19. /\ f.userLevels = [i \in 1 .. Len(f.userLevels) |-> i]
         /\ Len(f.frames) = Len(f.userLevels) + 1 /\ UF(f) = <<{}>>
         /\ \A i \in 1 .. Len(f.list) : f.list[i] \notin Assumption
    BY <1>18, OneEmptyFrame
  <1>20. Ready(f)
    BY <1>14, <1>17, <1>18, <1>19 DEF Ready
  <1> QED  BY <1>17, <1>19, <1>20


(* shutdown and cleanup.                                                   *)
Ending(d) == [d EXCEPT !.satLevel = 0, !.userLevels = <<>>]

LEMMA EndingFields ==
    ASSUME NEW d \in Engine, NEW f, f = Ending(d)
    PROVE  /\ f \in Engine /\ f.userLevels = <<>> /\ f.frames = d.frames
           /\ f.globals = d.globals /\ f.assumed = d.assumed /\ f.asserts = d.asserts
  <1>1. <<>> \in Seq(Nat)  OBVIOUS
  <1> QED  BY <1>1 DEF Ending, Engine

(* What the user sees of an engine that is gone.                           *)
Gone(e, f) ==
    /\ f \in Engine /\ f.asserts = e.asserts /\ UF(f) = <<{}>>
    /\ f.globals = e.globals /\ f.assumed = e.assumed

LEMMA ShutdownEnds ==
    ASSUME NEW e, Pending(e), incremental \in BOOLEAN, NEW f, f = shutdown(e)
    PROVE  Gone(e, f)
  <1> DEFINE p == doPendingPops(e)
             n == Len(p.frames) - 1
             d == IF incremental /\ n > 0 THEN PopLevels(p, n) ELSE p
             c == PopUserContext(d, 0)
  <1>1. /\ Settled(p) /\ Lower(e, p) /\ p.asserts = e.asserts
    BY DoPendingPopsSettles
  <1>2. Good(p) /\ Len(p.frames) \in Nat \ {0} /\ ~p.trail
    BY <1>1, GoodFacts DEF Settled
  <1>3. Good(d) /\ d.globals = p.globals /\ d.assumed = p.assumed /\ d.asserts = p.asserts
    <2>1. CASE incremental /\ n > 0
      <3>1. n \in Nat /\ n < Len(p.frames)  BY <1>2
      <3>2. d = PopLevels(p, n)  BY <2>1
      <3> HIDE DEF p, n, d
      <3>3. Good(d) /\ SameFlags(p, d) /\ d.asserts = p.asserts
        BY <3>1, <3>2, <1>2, PopLevelsLowers
      <3> QED  BY <3>3 DEF SameFlags
    <2>2. CASE ~(incremental /\ n > 0)
      <3>1. d = p  BY <2>2
      <3> QED  BY <3>1, <1>2
    <2> QED  BY <2>1, <2>2
  <1>4. d.frames # <<>>
    <2> HIDE DEF d
    <2> QED  BY <1>3 DEF Good
  <1>5. f = Ending(c)  BY <1>4 DEF shutdown, Ending
  <1>6. c = PopUserContext(d, 0)  OBVIOUS
  <1> HIDE DEF p, n, d, c
  <1>7. /\ c \in Engine /\ c.frames = <<>> /\ SameFlags(d, c) /\ c.asserts = d.asserts
    BY <1>3, <1>6, PopAllFields
  <1>8. /\ f \in Engine /\ f.userLevels = <<>> /\ f.frames = c.frames
        /\ f.globals = c.globals /\ f.assumed = c.assumed /\ f.asserts = c.asserts
    <2>1. c \in Engine  BY <1>7
    <2> QED  BY <2>1, <1>5, EndingFields
  <1>9. UF(f) = <<{}>>
    <2>1. f.userLevels = <<>> /\ f.frames = <<>>  BY <1>7, <1>8
    <2> QED  BY <2>1, OneEmptyFrame
  <1>10. f.globals = e.globals /\ f.assumed = e.assumed /\ f.asserts = e.asserts
    BY <1>1, <1>3, <1>7, <1>8 DEF SameFlags, Lower
  <1> QED  BY <1>8, <1>9, <1>10 DEF Gone

(* ... and of one that was never initialised.                              *)
LEMMA ShutdownNewEnds ==
    ASSUME incremental \in BOOLEAN, NEW f, f = shutdown(NewEngine)
    PROVE  Gone(NewEngine, f)
  <1> DEFINE e == NewEngine
             a == e.asserts /\ (e.pendingPops = 0 \/ incremental)
             p == WithNothingPending(e, a)
  <1>1. e.needPostsolve = FALSE /\ e.pendingPops = 0 /\ e.asserts = TRUE
        /\ e.frames = <<>> /\ e.userLevels = <<>>
    BY DEF NewEngine
  <1>2. e \in Engine  BY NewEngineType
  <1> HIDE DEF e
  <1>3. doPendingPops(e) = p
    BY <1>1 DEF doPendingPops, PopLevels, WithNothingPending
  <1>4. a = e.asserts  BY <1>1
  <1> HIDE DEF p, a
  <1>5. /\ SameContent(e, p) /\ p.assumed = e.assumed /\ p.userLevels = e.userLevels
        /\ p.asserts = e.asserts
    <2>1. p = WithNothingPending(e, a)  BY DEF p
    <2> QED  BY <2>1, <1>2, <1>4, SettledFields
  <1>6. p.frames = <<>> /\ p.userLevels = <<>> /\ p \in Engine /\ p.globals = e.globals
    BY <1>1, <1>5 DEF SameContent
  <1>7. Len(p.frames) - 1 < 1  BY <1>6
  <1>8. f = shutdown(e)  BY DEF e
  <1>9. f = p
    <2>1. ~(Len(p.frames) - 1 > 0)  BY <1>6
    <2> QED  BY <2>1, <1>3, <1>6, <1>8 DEF shutdown
  <1>10. UF(f) = <<{}>>
    <2>1. f.userLevels = <<>> /\ f.frames = <<>>  BY <1>6, <1>9
    <2> QED  BY <2>1, OneEmptyFrame
  <1>11. Gone(e, f)  BY <1>5, <1>6, <1>9, <1>10 DEF Gone
  <1> QED  BY <1>11 DEF e


-----------------------------------------------------------------------------
(* Checks.                                                                 *)

Entries(e) == {e.list[i] : i \in 1 .. Len(e.list)}

(* The engine of a check for which the user sees what b has: formulas only *)
(* in the levels of the user, assumptions only those of the check, and if  *)
(* the solver is incremental only in a level of their own.                 *)
Asking(b, A, f) ==
    /\ Settled(f) /\ f.asserts = TRUE
    /\ f.userLevels = b.userLevels /\ f.globals = b.globals /\ f.assumed = A
    /\ Len(f.frames) = Len(b.frames) + (IF A # <<>> /\ incremental THEN 1 ELSE 0)
    /\ \A k \in 1 .. Len(b.frames) : Content(f, k) \cap Formula = Content(b, k) \cap Formula
    /\ \A x \in Entries(f) : x \in Formula => \E k \in 1 .. Len(b.frames) : x \in Content(f, k)
    /\ \A i \in 1 .. Len(f.list) : f.list[i] \in Assumption =>
          \/ f.list[i] \in Entries(b)
          \/ f.list[i] \in Range(A) /\ (incremental =>
                /\ Len(f.frames) = Len(b.frames) + 1
                /\ i > f.frames[Len(b.frames) + 1].size)
    /\ Range(A) \subseteq Entries(f)

(* Every entry of the list is in the part of some level.                   *)
LEMMA EntryInLevel ==
    ASSUME NEW e, Good(e), NEW i \in 1 .. Len(e.list)
    PROVE  \E k \in 1 .. Len(e.frames) : e.list[i] \in Content(e, k)
  <1>1. PICK k \in 1 .. Len(e.frames) : e.frames[k].size < i /\ i <= EndOf(e, k)
    BY GoodFacts DEF Good, Covered
  <1>2. e.frames[k].size \in Nat /\ EndOf(e, k) \in Nat  BY GoodFacts
  <1>3. i \in e.frames[k].size + 1 .. EndOf(e, k)  BY <1>1, <1>2
  <1> QED  BY <1>3 DEF Content

Assuming(p, A) == [p EXCEPT !.assumed = A, !.list = @ \o A]

LEMMA AssumingFields ==
    ASSUME NEW p \in Engine, NEW A \in Seq(Assumption), NEW f, f = Assuming(p, A)
    PROVE  /\ f \in Engine /\ f.list = p.list \o A /\ f.assumed = A
           /\ f.inited = p.inited /\ f.index = p.index /\ f.global = p.global
           /\ f.globals = p.globals
           /\ f.frames = p.frames /\ f.satLevel = p.satLevel /\ f.prop = p.prop
           /\ f.trail = p.trail /\ f.userLevels = p.userLevels /\ f.asserts = p.asserts
           /\ f.pendingPops = p.pendingPops /\ f.needPostsolve = p.needPostsolve
  <1>1. p.list \in Seq(Entry) /\ A \in Seq(Entry)
    <2>1. Assumption \subseteq Entry  BY DEF Entry
    <2> QED  BY <2>1, EngineType, SeqMonotonic
  <1>2. p.list \o A \in Seq(Entry)  BY <1>1, ConcatProperties
  <1> QED  BY <1>2 DEF Assuming, Engine

(* Assumptions are put on top.                                             *)
OnTop(p, A, f) ==
    /\ Settled(f) /\ f.asserts = p.asserts /\ f.assumed = A /\ f.frames = p.frames
    /\ f.userLevels = p.userLevels /\ f.globals = p.globals
    /\ \A k \in 1 .. Len(p.frames) :
          /\ Content(p, k) \subseteq Content(f, k)
          /\ Content(f, k) \subseteq Content(p, k) \cup Range(A)
    /\ Len(f.list) = Len(p.list) + Len(A)
    /\ \A i \in 1 .. Len(p.list) : f.list[i] = p.list[i]
    /\ \A i \in Len(p.list) + 1 .. Len(f.list) : f.list[i] \in Range(A)
    /\ Range(A) \subseteq Entries(f)

LEMMA AssumingGood ==
    ASSUME NEW p, Settled(p), NEW A \in Seq(Assumption), NEW f, f = Assuming(p, A)
    PROVE  OnTop(p, A, f)
  <1> DEFINE n == Len(p.list)
             m == Len(f.list)
             l == Len(A)
  <1>1. Good(p) /\ p \in Engine /\ n \in Nat  BY GoodFacts DEF Settled
  <1>2. /\ f \in Engine /\ f.list = p.list \o A /\ f.assumed = A
        /\ f.inited = p.inited /\ f.index = p.index /\ f.global = p.global
        /\ f.globals = p.globals
        /\ f.frames = p.frames /\ f.satLevel = p.satLevel /\ f.prop = p.prop
        /\ f.trail = p.trail /\ f.userLevels = p.userLevels /\ f.asserts = p.asserts
        /\ f.pendingPops = p.pendingPops /\ f.needPostsolve = p.needPostsolve
    BY <1>1, AssumingFields
  <1>3. l \in Nat /\ DOMAIN A = 1 .. l /\ \A i \in 1 .. l : A[i] \in Assumption
    BY LenProperties, ElementOfSeq
  <1>4. /\ m = n + l
        /\ \A i \in 1 .. n + l : f.list[i] = IF i <= n THEN p.list[i] ELSE A[i - n]
    <2>1. p.list \in Seq(Entry) /\ A \in Seq(Entry)
      <3>1. Assumption \subseteq Entry  BY DEF Entry
      <3> QED  BY <3>1, <1>1, EngineType, SeqMonotonic
    <2> QED  BY <2>1, <1>2, ConcatProperties
  <1> HIDE DEF n, m, l
  <1>5. \A i \in 1 .. n : f.list[i] = p.list[i]  BY <1>1, <1>3, <1>4 DEF n
  <1>6. ASSUME NEW i \in n + 1 .. m  PROVE f.list[i] \in Range(A)
    <2>1. i \in 1 .. n + l /\ ~(i <= n) /\ i - n \in 1 .. l  BY <1>1, <1>3, <1>4
    <2>2. f.list[i] = A[i - n]  BY <2>1, <1>4
    <2> QED  BY <2>1, <2>2, <1>3 DEF Range
  <1>7. ASSUME NEW x \in Range(A)  PROVE x \in Entries(f)
    <2>1. PICK j \in 1 .. l : x = A[j]  BY <1>3 DEF Range
    <2>2. n + j \in 1 .. n + l /\ ~(n + j <= n) /\ (n + j) - n = j  BY <1>1, <1>3
    <2>3. f.list[n + j] = x  BY <2>1, <2>2, <1>4
    <2> QED  BY <2>2, <2>3, <1>4 DEF Entries, m
  <1>8. Range(A) \subseteq Assumption  BY <1>3 DEF Range
  <1>9. Grown(p, f)
    <2>1. m >= n  BY <1>1, <1>3, <1>4
    <2> QED  BY <2>1, <1>2, <1>5 DEF Grown, n, m
  <1>10. Defs(f)
    <2>1. \A i \in Len(p.list) + 1 .. Len(f.list) : f.list[i] \notin Definition
      BY <1>6, <1>8, SetsAssumption DEF n, m
    <2> QED  BY <2>1, <1>1, <1>2, <1>9, GrownDefs
  <1>11. Good(f) /\ \A k \in 1 .. Len(p.frames) :
            Content(f, k) = Content(p, k) \cup
               (IF k = Len(p.frames)
                THEN {f.list[i] : i \in Len(p.list) + 1 .. Len(f.list)} ELSE {})
    BY <1>1, <1>9, <1>10, GrownGood
  <1>12. {f.list[i] : i \in Len(p.list) + 1 .. Len(f.list)} \subseteq Range(A)
    BY <1>6 DEF n, m
  <1>13. \A k \in 1 .. Len(p.frames) :
            /\ Content(p, k) \subseteq Content(f, k)
            /\ Content(f, k) \subseteq Content(p, k) \cup Range(A)
    BY <1>11, <1>12
  <1>14. Settled(f)  BY <1>2, <1>11 DEF Settled
  <1> QED  BY <1>2, <1>4, <1>5, <1>6, <1>7, <1>13, <1>14 DEF n, m, l, OnTop


(* notifyCheckSat: a level for the assumptions, if there are any and the   *)
(* solver is incremental.                                                  *)
Notified(b, A, p) ==
    /\ Settled(p) /\ p.asserts = TRUE
    /\ p.userLevels = b.userLevels /\ p.globals = b.globals
    /\ Len(p.frames) = Len(b.frames) + (IF A # <<>> /\ incremental THEN 1 ELSE 0)
    /\ \A k \in 1 .. Len(b.frames) : Content(p, k) \ Definition = Content(b, k) \ Definition
    /\ A # <<>> /\ incremental => /\ Content(p, Len(b.frames) + 1) = {}
                                  /\ p.frames[Len(b.frames) + 1].size = Len(p.list)
    /\ \A i \in 1 .. Len(p.list) : p.list[i] \in Definition \/ p.list[i] \in Entries(b)

LEMMA NotifyCheckSat ==
    ASSUME NEW b, Ready(b), incremental \in BOOLEAN, NEW A, NEW p, p = notifyCheckSat(b, A)
    PROVE  Notified(b, A, p)
  <1>1. Settled(b) /\ b.asserts = TRUE /\ Good(b) /\ Len(b.frames) \in Nat \ {0}
        /\ b.pendingPops = 0
    BY GoodFacts DEF Ready, Settled
  <1>2. CASE A # <<>> /\ incremental
    <2>1. p = internalPush(b) /\ incremental = TRUE  BY <1>2 DEF notifyCheckSat
    <2>2. Opened(b, p)  BY <2>1, <1>1, InternalPushOpens
    <2>3. \A i \in 1 .. Len(p.list) : p.list[i] \in Definition \/ p.list[i] \in Entries(b)
      BY <2>2 DEF Opened, Entries
    <2> QED  BY <2>2, <2>3, <1>1, <1>2 DEF Notified, Opened
  <1>3. CASE ~(A # <<>> /\ incremental)
    <2>1. /\ Settled(p) /\ p.asserts = TRUE /\ p.userLevels = b.userLevels
          /\ p.globals = b.globals /\ Len(p.frames) = Len(b.frames) /\ p.list = b.list
          /\ \A k \in 1 .. Len(b.frames) : Content(p, k) = Content(b, k)
      <3>1. CASE A = <<>>
        <4>1. p = b  BY <3>1 DEF notifyCheckSat
        <4> QED  BY <4>1, <1>1
      <3>2. CASE A # <<>>
        <4>1. p = doPendingPops(b)  BY <3>2, <1>3 DEF notifyCheckSat, internalPush
        <4>2. Pending(b)  BY <1>1 DEF Pending, Settled
        <4>3. /\ Settled(p) /\ Lower(b, p) /\ Len(p.frames) = Len(b.frames) - b.pendingPops
              /\ p.userLevels = b.userLevels /\ p.asserts = b.asserts
          BY <4>1, <4>2, DoPendingPopsSettles
        <4>4. Len(p.frames) = Len(b.frames)  BY <4>3, <1>1
        <4> QED  BY <4>3, <4>4, <1>1 DEF Lower
      <3> QED  BY <3>1, <3>2
    <2>2. Len(p.frames) = Len(b.frames) + 0  BY <2>1, <1>1
    <2>3. \A i \in 1 .. Len(p.list) : p.list[i] \in Entries(b)  BY <2>1 DEF Entries
    <2> QED  BY <2>1, <2>2, <2>3, <1>3 DEF Notified
  <1> QED  BY <1>2, <1>3

LEMMA AssumingAsks ==
    ASSUME NEW b, Ready(b), incremental \in BOOLEAN, NEW A \in Seq(Assumption),
           NEW p, Notified(b, A, p), NEW f, f = Assuming(p, A)
    PROVE  Asking(b, A, f)
  <1> DEFINE N == Len(b.frames)
             n == Len(p.list)
  <1>1. /\ Settled(p) /\ p.asserts = TRUE
        /\ p.userLevels = b.userLevels /\ p.globals = b.globals
        /\ Len(p.frames) = N + (IF A # <<>> /\ incremental THEN 1 ELSE 0)
    BY DEF Notified
  <1>2. /\ Settled(f) /\ f.asserts = p.asserts /\ f.assumed = A /\ f.frames = p.frames
        /\ f.userLevels = p.userLevels /\ f.globals = p.globals
        /\ Len(f.list) = n + Len(A) /\ Range(A) \subseteq Entries(f)
    BY <1>1, AssumingGood DEF OnTop
  <1>3. /\ \A k \in 1 .. Len(p.frames) :
              /\ Content(p, k) \subseteq Content(f, k)
              /\ Content(f, k) \subseteq Content(p, k) \cup Range(A)
        /\ \A i \in 1 .. n : f.list[i] = p.list[i]
        /\ \A i \in n + 1 .. Len(f.list) : f.list[i] \in Range(A)
    <2>1. OnTop(p, A, f)  BY <1>1, AssumingGood
    <2> QED  BY <2>1 DEF OnTop
  <1>4. N \in Nat \ {0} /\ n \in Nat /\ Good(p)  BY <1>1, GoodFacts DEF Ready, Settled
  <1>5. Len(A) \in Nat /\ Range(A) \subseteq Assumption
    <2>1. Len(A) \in Nat /\ DOMAIN A = 1 .. Len(A)  BY LenProperties
    <2>2. \A i \in DOMAIN A : A[i] \in Assumption  BY <2>1, ElementOfSeq
    <2> QED  BY <2>1, <2>2 DEF Range
  <1>6. \/ Len(p.frames) = N
        \/ Len(p.frames) = N + 1 /\ A # <<>> /\ incremental
    <2>1. CASE A # <<>> /\ incremental  BY <2>1, <1>1
    <2>2. CASE ~(A # <<>> /\ incremental)
      <3>1. Len(p.frames) = N + 0  BY <2>2, <1>1, Zenon
      <3> QED  BY <3>1, <1>4
    <2> QED  BY <2>1, <2>2
  <1>61. \A k \in 1 .. N : k \in 1 .. Len(p.frames)  BY <1>4, <1>6
  <1>7. \A k \in 1 .. Len(p.frames) : k \in 1 .. N \/ (k = N + 1 /\ A # <<>> /\ incremental)
    <2>1. CASE Len(p.frames) = N  BY <2>1
    <2>2. CASE Len(p.frames) = N + 1 /\ A # <<>> /\ incremental
      <3>1. \A k \in 1 .. N + 1 : k \in 1 .. N \/ k = N + 1  BY <1>4
      <3> QED  BY <2>2, <3>1
    <2> QED  BY <2>1, <2>2, <1>6
  <1>8. \A i \in 1 .. Len(f.list) : i \in 1 .. n \/ i \in n + 1 .. Len(f.list)
    BY <1>2, <1>4, <1>5
  <1> HIDE DEF N, n
  <1>9. ASSUME NEW k \in 1 .. N
        PROVE  Content(f, k) \cap Formula = Content(b, k) \cap Formula
    <2>1. Content(p, k) \ Definition = Content(b, k) \ Definition  BY DEF Notified, N
    <2>2. /\ Content(p, k) \subseteq Content(f, k)
          /\ Content(f, k) \subseteq Content(p, k) \cup Assumption
      BY <1>3, <1>5, <1>61
    <2> QED  BY <2>1, <2>2, SetsAssumption
  <1>10. ASSUME NEW x \in Entries(f), x \in Formula
         PROVE  \E k \in 1 .. N : x \in Content(f, k)
    <2>1. PICK i \in 1 .. Len(f.list) : x = f.list[i]  BY DEF Entries
    <2>2. x \notin Assumption  BY <1>10, SetsAssumption
    <2>3. i \in 1 .. n  BY <2>1, <2>2, <1>3, <1>5, <1>8
    <2>4. x = p.list[i]  BY <2>1, <2>3, <1>3
    <2>5. PICK k \in 1 .. Len(p.frames) : x \in Content(p, k)
      BY <2>3, <2>4, <1>4, EntryInLevel DEF n
    <2>6. k \in 1 .. N
      <3> SUFFICES ASSUME k = N + 1, A # <<>>, incremental  PROVE FALSE  BY <1>7
      <3>1. Content(p, N + 1) = {}  BY DEF Notified, N
      <3> QED  BY <3>1, <2>5
    <2> QED  BY <2>5, <2>6, <1>3
  <1>11. ASSUME NEW i \in 1 .. Len(f.list), f.list[i] \in Assumption
         PROVE  \/ f.list[i] \in Entries(b)
                \/ f.list[i] \in Range(A) /\ (incremental =>
                      Len(f.frames) = N + 1 /\ i > f.frames[N + 1].size)
    <2>1. CASE i \in 1 .. n
      <3>1. f.list[i] = p.list[i]  BY <2>1, <1>3
      <3>2. p.list[i] \in Definition \/ p.list[i] \in Entries(b)  BY <2>1 DEF Notified, n
      <3> QED  BY <3>1, <3>2, <1>11, SetsAssumption
    <2>2. CASE i \in n + 1 .. Len(f.list)
      <3>1. f.list[i] \in Range(A)  BY <2>2, <1>3
      <3>2. ASSUME incremental
            PROVE  Len(f.frames) = N + 1 /\ i > f.frames[N + 1].size
        <4>1. A # <<>>
          <5>1. Len(A) # 0
            <6>1. n + 1 <= n + Len(A)  BY <2>2, <1>2, <1>4, <1>5
            <6> QED  BY <6>1, <1>4, <1>5
          <5> QED  BY <5>1, EmptySeq, Zenon
        <4>2. p.frames[N + 1].size = n  BY <4>1, <3>2 DEF Notified, N, n
        <4>3. Len(p.frames) = N + 1  BY <4>1, <3>2, <1>1
        <4>4. i > n  BY <2>2, <1>4, <1>2, <1>5
        <4> QED  BY <4>2, <4>3, <4>4, <1>2
      <3> QED  BY <3>1, <3>2
    <2> QED  BY <2>1, <2>2, <1>8
  <1>12. Len(f.frames) = N + (IF A # <<>> /\ incremental THEN 1 ELSE 0)  BY <1>1, <1>2
  <1> QED
    BY <1>1, <1>2, <1>9, <1>10, <1>11, <1>12 DEF Asking, N

(* The engine of a check, of the state a call finds.                       *)
LEMMA WithAssumptionsAsks ==
    ASSUME NEW b, b = beginCall(eng), Ready(b), incremental \in BOOLEAN,
           NEW A \in Seq(Assumption), NEW f, f = WithAssumptions(A)
    PROVE  Asking(b, A, f)
  <1> DEFINE p == notifyCheckSat(b, A)
  <1>1. f = Assuming(p, A)  BY DEF WithAssumptions, Assuming
  <1>2. Notified(b, A, p)  BY NotifyCheckSat
  <1> HIDE DEF p
  <1> QED  BY <1>1, <1>2, AssumingAsks

(* Sending before the SAT solver is run keeps all that.                    *)
LEMMA SentAsks ==
    ASSUME NEW b, NEW A, NEW f, Asking(b, A, f), Good(b), NEW s, Sent(f, s)
    PROVE  Asking(b, A, s)
  <1>1. /\ Good(f) /\ Good(s) /\ s.frames = f.frames /\ SameFlags(f, s) /\ s.asserts = f.asserts
    BY DEF Asking, Settled, Sent
  <1>2. Settled(s)  BY <1>1 DEF Asking, Settled, SameFlags
  <1>3. /\ s.asserts = TRUE /\ s.userLevels = b.userLevels /\ s.globals = b.globals
        /\ s.assumed = A
        /\ Len(s.frames) = Len(b.frames) + (IF A # <<>> /\ incremental THEN 1 ELSE 0)
    BY <1>1 DEF Asking, SameFlags
  <1>4. Len(f.list) \in Nat /\ Len(s.list) \in Nat /\ Len(f.list) <= Len(s.list)
    BY <1>1, GoodFacts DEF Sent
  <1>5. \A i \in 1 .. Len(s.list) :
           \/ i \in 1 .. Len(f.list) /\ s.list[i] = f.list[i]
           \/ s.list[i] \in Definition
    <2>1. \A i \in 1 .. Len(s.list) :
             i \in 1 .. Len(f.list) \/ i \in Len(f.list) + 1 .. Len(s.list)
      BY <1>4
    <2> QED  BY <2>1 DEF Sent
  <1>6. \A k \in 1 .. Len(b.frames) : Content(s, k) \ Definition = Content(f, k) \ Definition
    <2>1. \A k \in 1 .. Len(b.frames) : k \in 1 .. Len(f.frames)
      <3>1. Len(b.frames) \in Nat /\ Len(f.frames) \in Nat  BY <1>1, GoodFacts
      <3>2. Len(f.frames) = Len(b.frames) \/ Len(f.frames) = Len(b.frames) + 1
        <4>1. Len(f.frames) = Len(b.frames) + (IF A # <<>> /\ incremental THEN 1 ELSE 0)
          BY <1>1, <1>3
        <4>2. CASE A # <<>> /\ incremental  BY <4>1, <4>2, Zenon
        <4>3. CASE ~(A # <<>> /\ incremental)
          <5>1. Len(f.frames) = Len(b.frames) + 0  BY <4>1, <4>3, Zenon
          <5> QED  BY <5>1, <3>1
        <4> QED  BY <4>2, <4>3
      <3> QED  BY <3>1, <3>2
    <2> QED  BY <2>1 DEF Sent
  <1>7. ASSUME NEW k \in 1 .. Len(b.frames)
        PROVE  Content(s, k) \cap Formula = Content(b, k) \cap Formula
    <2>1. Content(f, k) \cap Formula = Content(b, k) \cap Formula  BY DEF Asking
    <2> QED  BY <2>1, <1>6, SetsAssumption
  <1>8. ASSUME NEW x \in Entries(s), x \in Formula
        PROVE  \E k \in 1 .. Len(b.frames) : x \in Content(s, k)
    <2>1. PICK i \in 1 .. Len(s.list) : x = s.list[i]  BY DEF Entries
    <2>2. x \notin Definition  BY <1>8, SetsAssumption
    <2>3. x \in Entries(f)  BY <2>1, <2>2, <1>5 DEF Entries
    <2>4. PICK k \in 1 .. Len(b.frames) : x \in Content(f, k)  BY <2>3, <1>8 DEF Asking
    <2> QED  BY <2>2, <2>4, <1>6
  <1>9. ASSUME NEW i \in 1 .. Len(s.list), s.list[i] \in Assumption
        PROVE  \/ s.list[i] \in Entries(b)
               \/ s.list[i] \in Range(A) /\ (incremental =>
                     /\ Len(s.frames) = Len(b.frames) + 1
                     /\ i > s.frames[Len(b.frames) + 1].size)
    <2>1. i \in 1 .. Len(f.list) /\ s.list[i] = f.list[i]  BY <1>5, <1>9, SetsAssumption
    <2> QED  BY <2>1, <1>1, <1>9 DEF Asking
  <1>10. Range(A) \subseteq Entries(s)
    <2>1. Range(A) \subseteq Entries(f)  BY DEF Asking
    <2>2. Entries(f) \subseteq Entries(s)
      <3>1. \A i \in 1 .. Len(f.list) : i \in 1 .. Len(s.list)  BY <1>4
      <3>2. \A i \in 1 .. Len(f.list) : s.list[i] = f.list[i]  BY DEF Sent
      <3> QED  BY <3>1, <3>2 DEF Entries
    <2> QED  BY <2>1, <2>2
  <1> QED  BY <1>2, <1>3, <1>7, <1>8, <1>9, <1>10 DEF Asking

(* When everything has been sent, the SAT solver holds the list.           *)
LEMMA SolverHoldsList ==
    ASSUME NEW s, Good(s), s.index = Len(s.list)
    PROVE  UNION Range(s.prop) = Entries(s)
  <1>1. /\ Len(s.frames) \in Nat /\ Len(s.list) \in Nat
        /\ DOMAIN s.prop = 1 .. Len(s.frames) /\ DOMAIN s.frames = 1 .. Len(s.frames)
        /\ \A k \in 1 .. Len(s.frames) :
              s.frames[k].size \in Nat /\ EndOf(s, k) \in Nat /\ EndOf(s, k) <= Len(s.list)
    BY GoodFacts
  <1>2. ASSUME NEW k \in 1 .. Len(s.frames)  PROVE s.prop[k] = Content(s, k)
    <2>1. s.prop[k] = {s.list[i] : i \in {j \in s.frames[k].size + 1 .. EndOf(s, k) : j <= s.index}}
      BY <1>1 DEF Good, Mirror
    <2>2. \A j \in s.frames[k].size + 1 .. EndOf(s, k) : j <= s.index  BY <1>1
    <2> QED  BY <2>1, <2>2 DEF Content
  <1>3. ASSUME NEW k \in 1 .. Len(s.frames), NEW x \in Content(s, k)  PROVE x \in Entries(s)
    <2>1. PICK i \in s.frames[k].size + 1 .. EndOf(s, k) : x = s.list[i]  BY DEF Content
    <2>2. i \in 1 .. Len(s.list)  BY <1>1
    <2> QED  BY <2>1, <2>2 DEF Entries
  <1>4. ASSUME NEW x \in Entries(s)  PROVE \E k \in 1 .. Len(s.frames) : x \in Content(s, k)
    <2>1. PICK i \in 1 .. Len(s.list) : x = s.list[i]  BY DEF Entries
    <2> QED  BY <2>1, EntryInLevel
  <1>5. Range(s.prop) = {s.prop[k] : k \in 1 .. Len(s.frames)}  BY <1>1 DEF Range
  <1> QED  BY <1>2, <1>3, <1>4, <1>5

(* The entries of the list that are global definitions are all of them.    *)
LEMMA ListHoldsDefinitions ==
    ASSUME NEW s, Good(s), s.global = Len(s.globals)
    PROVE  Entries(s) \cap Definition = Range(s.globals)
  <1>1. s.globals \in Seq(Definition) /\ Defs(s)  BY EngineType DEF Good
  <1>2. /\ DOMAIN s.globals = 1 .. Len(s.globals)
        /\ \A j \in 1 .. Len(s.globals) : s.globals[j] \in Definition
    BY <1>1, LenProperties, ElementOfSeq
  <1>3. ASSUME NEW x \in Entries(s), x \in Definition  PROVE x \in Range(s.globals)
    <2>1. PICK i \in 1 .. Len(s.list) : x = s.list[i]  BY DEF Entries
    <2>2. PICK j \in 1 .. Len(s.globals) : s.globals[j] = s.list[i]
      BY <2>1, <1>1, <1>3 DEF Defs
    <2> QED  BY <2>1, <2>2, <1>2 DEF Range
  <1>4. ASSUME NEW x \in Range(s.globals)  PROVE x \in Entries(s) /\ x \in Definition
    <2>1. PICK j \in 1 .. Len(s.globals) : x = s.globals[j]  BY <1>2 DEF Range
    <2>2. PICK i \in 1 .. Len(s.list) : s.list[i] = s.globals[j]  BY <1>1 DEF Defs
    <2> QED  BY <2>1, <2>2, <1>2 DEF Entries
  <1> QED  BY <1>3, <1>4

(* The SAT solver is run on the assertions of the user frames, the global  *)
(* definitions, the assumptions of the check, and nothing else.            *)
LEMMA CheckDecides ==
    ASSUME NEW b, Ready(b), QueryAllowed, NEW A \in Seq(Assumption),
           NEW s, Asking(b, A, s), s.index = Len(s.list), s.global = Len(s.globals)
    PROVE  UNION Range(s.prop) =
              (UNION {UF(b)[i] : i \in DOMAIN UF(b)}) \cup Range(b.globals) \cup Range(A)
  <1>1. Good(b) /\ Good(s) /\ s.globals = b.globals /\ Len(b.frames) = Len(b.userLevels) + 1
    BY DEF Ready, Asking, Settled
  <1>2. UNION Range(s.prop) = Entries(s)  BY <1>1, SolverHoldsList
  <1>3. Entries(s) \cap Definition = Range(b.globals)  BY <1>1, ListHoldsDefinitions
  <1>4. DOMAIN UF(b) = 1 .. Len(b.frames)
        /\ \A k \in 1 .. Len(b.frames) : UF(b)[k] = Content(b, k) \cap Formula
    <2>1. Len(b.userLevels) \in Nat  BY <1>1, EngineType, LenProperties DEF Good
    <2>2. Len(b.frames) >= Len(b.userLevels) + 1  BY <1>1, <2>1
    <2>3. UF(b) = [i \in 1 .. Len(b.userLevels) + 1 |-> Content(b, i) \cap Formula]
      BY <1>1, <2>2, UFLevels
    <2> HIDE DEF UF
    <2> QED  BY <2>3, <1>1
  <1>5. \A k \in 1 .. Len(b.frames) : UF(b)[k] = Content(s, k) \cap Formula
    BY <1>4 DEF Asking
  <1>6. ASSUME NEW x \in Entries(s), x \in Formula
        PROVE  x \in UNION {UF(b)[i] : i \in DOMAIN UF(b)}
    <2>1. PICK k \in 1 .. Len(b.frames) : x \in Content(s, k)  BY <1>6 DEF Asking
    <2>2. k \in DOMAIN UF(b) /\ x \in UF(b)[k]  BY <2>1, <1>4, <1>5, <1>6
    <2> QED  BY <2>2
  <1>7. ASSUME NEW k \in DOMAIN UF(b), NEW x \in UF(b)[k]  PROVE x \in Entries(s)
    <2>1. k \in 1 .. Len(b.frames)  BY <1>4
    <2>2. x \in Content(b, k) \cap Formula  BY <2>1, <1>4
    <2>3. x \in Content(s, k)  BY <2>1, <2>2 DEF Asking
    <2>4. k \in 1 .. Len(s.frames)
      <3>1. Len(b.frames) \in Nat /\ Len(s.frames) \in Nat  BY <1>1, GoodFacts
      <3>2. Len(s.frames) = Len(b.frames) + (IF A # <<>> /\ incremental THEN 1 ELSE 0)
        BY DEF Asking
      <3>3. Len(s.frames) = Len(b.frames) + 1 \/ Len(s.frames) = Len(b.frames) + 0
        BY <3>2, Zenon
      <3> QED  BY <3>1, <3>3, <2>1
    <2>5. PICK i \in s.frames[k].size + 1 .. EndOf(s, k) : x = s.list[i]
      BY <2>3 DEF Content
    <2>6. /\ s.frames[k].size \in Nat /\ EndOf(s, k) \in Nat /\ EndOf(s, k) <= Len(s.list)
          /\ Len(s.list) \in Nat
      BY <2>4, <1>1, GoodFacts
    <2>7. i \in 1 .. Len(s.list)  BY <2>6
    <2> QED  BY <2>5, <2>7 DEF Entries
  <1>8. ASSUME NEW x \in Entries(s), x \in Assumption  PROVE x \in Range(A)
    <2>1. PICK i \in 1 .. Len(s.list) : x = s.list[i]  BY DEF Entries
    <2>2. x \notin Entries(b)  BY <1>8 DEF Ready, Entries
    <2> QED  BY <2>1, <2>2, <1>8 DEF Asking
  <1>9. \A x \in Entries(s) : x \in Formula \/ x \in Definition \/ x \in Assumption
    <2>1. \A i \in 1 .. Len(s.list) : s.list[i] \in Entry  BY <1>1, GoodFacts
    <2> QED  BY <2>1 DEF Entries, Entry
  <1>10. Range(A) \subseteq Entries(s)  BY DEF Asking
  <1> DEFINE U == UNION {UF(b)[i] : i \in DOMAIN UF(b)}
  <1>11. \A x \in Entries(s) : x \in Formula => x \in U  BY <1>6
  <1>12. \A x \in U : x \in Entries(s)
    <2> TAKE x \in U
    <2>1. PICK k \in DOMAIN UF(b) : x \in UF(b)[k]  OBVIOUS
    <2> QED  BY <2>1, <1>7
  <1> HIDE DEF U
  <1>13. Entries(s) = U \cup Range(b.globals) \cup Range(A)
    BY <1>3, <1>8, <1>9, <1>10, <1>11, <1>12
  <1> QED  BY <1>2, <1>13 DEF U

(* What a check does to the flags.                                         *)
Running(s) == [s EXCEPT !.trail = TRUE]

FlagsOnly(s, f) ==
    /\ SameContent(s, f) /\ f.assumed = s.assumed /\ f.userLevels = s.userLevels
    /\ f.asserts = s.asserts

LEMMA RunningFields ==
    ASSUME NEW s \in Engine, NEW f, f = Running(s)
    PROVE  /\ FlagsOnly(s, f) /\ f.trail = TRUE /\ f.pendingPops = s.pendingPops
           /\ f.needPostsolve = s.needPostsolve
  BY DEF Engine, Running, SameContent, FlagsOnly

LEMMA ResetTrailFields ==
    ASSUME NEW s \in Engine, NEW f, f = resetTrail(s)
    PROVE  /\ FlagsOnly(s, f) /\ f.trail = FALSE /\ f.pendingPops = s.pendingPops
           /\ f.needPostsolve = s.needPostsolve
  BY DEF Engine, resetTrail, SameContent, FlagsOnly

Answered(s, n) == [s EXCEPT !.needPostsolve = TRUE, !.pendingPops = n]

LEMMA AnsweredFields ==
    ASSUME NEW s \in Engine, NEW n \in Nat, NEW f, f = Answered(s, n)
    PROVE  FlagsOnly(s, f) /\ f.needPostsolve = TRUE /\ f.pendingPops = n
  BY DEF Engine, Answered, SameContent, FlagsOnly

LEMMA ResultFields ==
    ASSUME NEW s \in Engine, s.pendingPops = 0, incremental \in BOOLEAN, NEW A,
           NEW f, f = notifyCheckSatResult(s, A)
    PROVE  /\ FlagsOnly(s, f) /\ f.needPostsolve = TRUE
           /\ f.pendingPops = IF A # <<>> /\ incremental THEN 1 ELSE 0
  <1>1. CASE A # <<>> /\ incremental
    <2>1. f = Answered(s, s.pendingPops + 1)
      BY <1>1 DEF notifyCheckSatResult, internalPop, Engine, Answered
    <2>2. s.pendingPops + 1 = 1 /\ 1 \in Nat  OBVIOUS
    <2>3. (IF A # <<>> /\ incremental THEN 1 ELSE 0) = 1  BY <1>1, Zenon
    <2>4. FlagsOnly(s, f) /\ f.needPostsolve = TRUE /\ f.pendingPops = 1
      <3>1. f = Answered(s, 1)  BY <2>1, <2>2, Zenon
      <3> QED  BY <3>1, <2>2, AnsweredFields, Zenon
    <2> QED  BY <2>3, <2>4, Zenon
  <1>2. CASE ~(A # <<>> /\ incremental)
    <2>1. f = [s EXCEPT !.needPostsolve = TRUE]
      BY <1>2 DEF notifyCheckSatResult, internalPop
    <2> QED  BY <2>1, <1>2 DEF Engine, SameContent, FlagsOnly
  <1> QED  BY <1>1, <1>2

(* An engine after a check, whatever became of it: the user sees the same  *)
(* frames, and if the frame of the assumptions is going to be popped,      *)
(* nothing of the check will be left.                                      *)
Asked(b, A, f) ==
    /\ Kept(f) /\ UF(f) = UF(b) /\ f.globals = b.globals /\ f.assumed = A
    /\ f.pendingPops = (IF A # <<>> /\ incremental THEN 1 ELSE 0) =>
          Len(f.frames) = Len(f.userLevels) + 1 + f.pendingPops
    /\ incremental => AssumptionsApart(f)

LEMMA AskingAsked ==
    ASSUME NEW b, Ready(b), incremental \in BOOLEAN, NEW A, NEW s, Asking(b, A, s),
           NEW f, FlagsOnly(s, f), f.trail => f.needPostsolve,
           \/ f.pendingPops = 0
           \/ f.pendingPops = IF A # <<>> /\ incremental THEN 1 ELSE 0
    PROVE  Asked(b, A, f)
  <1> DEFINE N == Len(b.frames)
             x == IF A # <<>> /\ incremental THEN 1 ELSE 0
  <1>1. Good(b) /\ N \in Nat \ {0} /\ N = Len(b.userLevels) + 1
        /\ b.userLevels = [i \in 1 .. Len(b.userLevels) |-> i] /\ (~incremental => N = 1)
    BY GoodFacts DEF Ready, Settled
  <1>2. Good(s) /\ s.userLevels = b.userLevels /\ s.globals = b.globals /\ s.assumed = A
        /\ s.asserts = TRUE /\ Len(s.frames) = N + x
    BY DEF Asking, Settled
  <1>3. SameContent(s, f)  BY DEF FlagsOnly
  <1>4. Good(f) /\ \A k : Content(f, k) = Content(s, k)  BY <1>2, <1>3, SameContentGood
  <1>5. f.userLevels = b.userLevels /\ f.globals = b.globals /\ f.assumed = A
        /\ f.asserts = TRUE /\ f.frames = s.frames /\ f.list = s.list
    BY <1>2, <1>3 DEF FlagsOnly, SameContent
  <1>6. \/ x = 0
        \/ x = 1 /\ incremental
    OBVIOUS
  <1>7. f.pendingPops = 0 \/ f.pendingPops = x  OBVIOUS
  <1>8. Len(b.userLevels) \in Nat  BY <1>1, EngineType, LenProperties DEF Good
  <1> HIDE DEF N, x
  <1>9. /\ Len(f.frames) >= Len(f.userLevels) + 1 + f.pendingPops
        /\ Len(f.frames) <= Len(f.userLevels) + 2
        /\ f.pendingPops = x => Len(f.frames) = Len(f.userLevels) + 1 + f.pendingPops
    BY <1>1, <1>2, <1>5, <1>6, <1>7, <1>8
  <1>10. ~incremental => Len(f.frames) = 1
    <2> SUFFICES ASSUME ~incremental PROVE Len(f.frames) = 1  OBVIOUS
    <2>1. x = 0  BY <1>6
    <2>2. N = 1  BY <1>1
    <2> QED  BY <2>1, <2>2, <1>2, <1>5
  <1>11. f.pendingPops > 0 => incremental
    <2> SUFFICES ASSUME f.pendingPops > 0  PROVE incremental  OBVIOUS
    <2>1. x # 0  BY <1>7
    <2> QED  BY <2>1, <1>6, Zenon
  <1>12. Kept(f)
    BY <1>1, <1>4, <1>5, <1>9, <1>10, <1>11 DEF Kept
  <1>13. UF(f) = UF(b)
    <2>1. Len(b.frames) >= Len(b.userLevels) + 1  BY <1>1, <1>8 DEF N
    <2>2. Len(f.frames) >= Len(f.userLevels) + 1  BY <1>1, <1>2, <1>5, <1>6, <1>8
    <2>3. UF(b) = [i \in 1 .. Len(b.userLevels) + 1 |-> Content(b, i) \cap Formula]
      BY <2>1, <1>1, UFLevels
    <2>4. UF(f) = [i \in 1 .. Len(b.userLevels) + 1 |-> Content(f, i) \cap Formula]
      BY <2>2, <1>4, <1>5, UFLevels
    <2>5. \A i \in 1 .. Len(b.userLevels) + 1 :
             Content(f, i) \cap Formula = Content(b, i) \cap Formula
      <3> TAKE i \in 1 .. Len(b.userLevels) + 1
      <3>1. i \in 1 .. Len(b.frames)  BY <1>1 DEF N
      <3>2. Content(s, i) \cap Formula = Content(b, i) \cap Formula  BY <3>1 DEF Asking
      <3> QED  BY <3>2, <1>4
    <2> HIDE DEF UF, Content
    <2> QED  BY <2>3, <2>4, <2>5
  <1>14. ASSUME incremental  PROVE AssumptionsApart(f)
    <2> SUFFICES ASSUME NEW i \in 1 .. Len(f.list), f.list[i] \in Assumption
                 PROVE  /\ Len(f.userLevels) + 2 \in DOMAIN f.frames
                        /\ i > f.frames[Len(f.userLevels) + 2].size
      BY DEF AssumptionsApart
    <2>1. QueryAllowed  BY <1>14 DEF QueryAllowed
    <2>2. f.list[i] \notin Entries(b)  BY <2>1 DEF Ready, Entries
    <2>3. i \in 1 .. Len(s.list) /\ s.list[i] \in Assumption /\ s.list[i] \notin Entries(b)
      BY <1>5, <2>2
    <2>4. Len(s.frames) = N + 1 /\ i > s.frames[N + 1].size
      BY <2>3, <1>14 DEF Asking, N
    <2>5. Len(f.userLevels) + 2 = N + 1  BY <1>1, <1>5, <1>8
    <2>6. N + 1 \in DOMAIN f.frames
      <3>1. DOMAIN f.frames = 1 .. Len(f.frames)  BY <1>4, GoodFacts
      <3> QED  BY <3>1, <2>4, <1>1, <1>5
    <2> QED  BY <2>4, <2>5, <2>6, <1>5
  <1> QED  BY <1>5, <1>9, <1>12, <1>13, <1>14 DEF Asked, x

-----------------------------------------------------------------------------
(* The steps.                                                              *)

(* The user's view, before and after a step.                               *)
LEMMA ViewIsAbstract ==
    /\ Abstract!vars = <<UF(eng), Range(eng.globals), Range(eng.assumed), decided>>
    /\ Abstract!vars' = <<UF(eng'), Range(eng'.globals), Range(eng'.assumed), decided'>>
    /\ UserFrames = UF(eng) /\ UserFrames' = UF(eng')
  BY DEF Abstract!vars, UserFrames, UF, Content, Segment, EndOf

(* A step after which the user sees the same is none of the stack's.       *)
LEMMA SameUserStutters ==
    ASSUME SameUser(eng, eng'), UNCHANGED decided
    PROVE  UNCHANGED Abstract!vars
  BY ViewIsAbstract DEF SameUser

(* A call that leaves the engine with the levels of the user only.         *)
LEMMA ReadyInv ==
    ASSUME IInv, UNCHANGED <<incremental, d_queryMade>>, Ready(eng'),
           d_smtMode' \in Mode, d_expected' \in Result \cup {None},
           decided' \subseteq Entry, phase' \in {"run", "failed"}
    PROVE  IInv'
  <1> DEFINE f == eng'
  <1>1. Ready(f) /\ eng' = f  OBVIOUS
  <1> HIDE DEF f
  <1>2. /\ Kept(f) /\ Len(f.frames) = Len(f.userLevels) + 1 + f.pendingPops
        /\ QueryAllowed => AssumptionsApart(f)
    BY <1>1, ReadyKept
  <1>3. QueryAllowed' => QueryAllowed  BY DEF QueryAllowed
  <1>4. f \in Engine  BY <1>2 DEF Kept, Good
  <1>5. TypeOK'  BY <1>1, <1>4 DEF IInv, TypeOK
  <1> QED  BY <1>1, <1>2, <1>3, <1>5, KeptInv

(* What is to be shown of every step.                                      *)
GoodStep == IInv' /\ (Abstract!Next \/ UNCHANGED Abstract!vars)

(* The types of the variables beside the engine.                           *)
LEMMA OtherTypes ==
    ASSUME IInv
    PROVE  /\ incremental \in BOOLEAN /\ d_smtMode \in Mode /\ d_queryMade \in BOOLEAN
           /\ d_expected \in Result \cup {None} /\ decided \subseteq Entry
           /\ "assert" \in Mode
  BY DEF IInv, TypeOK, Mode

(* declareConst and setInfo do not touch the engine.                       *)
LEMMA NoEngineStep ==
    ASSUME IInv, UNCHANGED <<incremental, eng, d_queryMade, decided, phase>>,
           d_smtMode' \in Mode, d_expected' \in Result \cup {None}
    PROVE  GoodStep
  <1>1. TypeOK'  BY DEF IInv, TypeOK
  <1>2. Between(eng) => Between(eng)'
    <2>1. QueryAllowed' = QueryAllowed  BY DEF QueryAllowed
    <2>2. Good(eng)' = Good(eng)  BY Zenon
    <2>3. AssumptionsApart(eng)' = AssumptionsApart(eng)  BY Zenon
    <2> QED  BY <2>1, <2>2, <2>3 DEF Between
  <1>3. IInv'  BY <1>1, <1>2 DEF IInv
  <1>4. UNCHANGED Abstract!vars  BY ViewIsAbstract
  <1> QED  BY <1>3, <1>4 DEF GoodStep

LEMMA AssertFormulaStep ==
    ASSUME IInv, NEW x \in Formula, assertFormula(x)
    PROVE  GoodStep
  <1> DEFINE b == beginCall(eng)
             f == WithEntry(b, x)
  <1>1. eng' = f /\ phase = "run"
        /\ UNCHANGED <<incremental, d_smtMode, d_queryMade, d_expected, decided, phase>>
    BY DEF assertFormula, WithEntry
  <1>2. Ready(b) /\ SameUser(eng, b)  BY <1>1, BeginCall
  <1>3. f = WithEntry(b, x)  OBVIOUS
  <1> HIDE DEF b, f
  <1>4. /\ Ready(f) /\ f.globals = b.globals /\ f.assumed = b.assumed
        /\ UF(f) = [UF(b) EXCEPT ![Len(UF(b))] = @ \cup {x}]
    BY <1>2, <1>3, WithEntryReady
  <1>5. IInv'  BY <1>1, <1>4, OtherTypes, ReadyInv
  <1>6. Abstract!Assert(x)
    <2>1. UF(eng') = [UF(eng) EXCEPT ![Len(UF(eng))] = @ \cup {x}]
          /\ eng'.globals = eng.globals /\ eng'.assumed = eng.assumed
      BY <1>1, <1>2, <1>4 DEF SameUser
    <2> QED  BY <2>1, <1>1, ViewIsAbstract DEF Abstract!Assert
  <1> QED  BY <1>5, <1>6 DEF GoodStep, Abstract!Next

LEMMA DefineFunctionStep ==
    ASSUME IInv, NEW d \in Definition, defineFunction(d)
    PROVE  GoodStep
  <1> DEFINE b == beginCall(eng)
             f == WithDefinition(b, d)
  <1>1. eng' = f /\ phase = "run"
        /\ UNCHANGED <<incremental, d_smtMode, d_queryMade, d_expected, decided, phase>>
    BY DEF defineFunction, WithDefinition
  <1>2. Ready(b) /\ SameUser(eng, b)  BY <1>1, BeginCall
  <1>3. f = WithDefinition(b, d)  OBVIOUS
  <1> HIDE DEF b, f
  <1>4. /\ Ready(f) /\ f.globals = Append(b.globals, d) /\ f.assumed = b.assumed
        /\ UF(f) = UF(b)
    BY <1>2, <1>3, WithDefinitionReady
  <1>5. IInv'  BY <1>1, <1>4, OtherTypes, ReadyInv
  <1>6. Range(Append(eng.globals, d)) = Range(eng.globals) \cup {d}
    <2> DEFINE g == eng.globals
    <2>1. g \in Seq(Definition)  BY EngineType DEF IInv, TypeOK
    <2> HIDE DEF g
    <2>2. /\ Len(g) \in Nat /\ DOMAIN g = 1 .. Len(g)
          /\ DOMAIN Append(g, d) = 1 .. Len(g) + 1
          /\ \A i \in 1 .. Len(g) : Append(g, d)[i] = g[i]
          /\ Append(g, d)[Len(g) + 1] = d
      BY <2>1
    <2>3. \A i : i \in 1 .. Len(g) + 1 <=> i \in 1 .. Len(g) \/ i = Len(g) + 1  BY <2>2
    <2> QED  BY <2>2, <2>3 DEF Range, g
  <1>7. Abstract!Define(d)
    <2>1. UF(eng') = UF(eng) /\ eng'.globals = Append(eng.globals, d)
          /\ eng'.assumed = eng.assumed
      BY <1>1, <1>2, <1>4 DEF SameUser
    <2> QED  BY <2>1, <1>1, <1>6, ViewIsAbstract DEF Abstract!Define
  <1> QED  BY <1>5, <1>7 DEF GoodStep, Abstract!Next

LEMMA PushStep ==
    ASSUME IInv, push
    PROVE  GoodStep
  <1> DEFINE b == beginCall(eng)
             s == refreshAssertions(b)
  <1>1. /\ phase = "run" /\ UNCHANGED <<incremental, d_queryMade, d_expected, decided>>
        /\ \/ incremental /\ eng' = userPush(s) /\ d_smtMode' = "assert" /\ UNCHANGED phase
           \/ eng' = s /\ phase' = "failed" /\ UNCHANGED d_smtMode
    BY DEF push
  <1>2. Ready(b) /\ SameUser(eng, b)  BY <1>1, BeginCall
  <1>3. s = refreshAssertions(b)  OBVIOUS
  <1> HIDE DEF b, s
  <1>4. Ready(s) /\ SameUser(b, s)
    <2>1. Good(b)  BY <1>2 DEF Ready, Settled
    <2>2. Sent(b, s)  BY <2>1, <1>3, RefreshAssertionsSends
    <2> QED  BY <2>2, <1>2, SentReady
  <1>5. SameUser(eng, s)  BY <1>2, <1>4 DEF SameUser
  <1>6. CASE incremental /\ eng' = userPush(s) /\ d_smtMode' = "assert" /\ UNCHANGED phase
    <2>1. incremental = TRUE  BY <1>6, OtherTypes
    <2>2. /\ Ready(eng') /\ eng'.globals = s.globals /\ eng'.assumed = s.assumed
          /\ UF(eng') = Append(UF(s), {})
      BY <2>1, <1>4, <1>6, UserPushReady
    <2>3. IInv'  BY <2>2, <1>1, <1>6, OtherTypes, ReadyInv
    <2>4. Abstract!Push
      <3>1. UF(eng') = Append(UF(eng), {}) /\ eng'.globals = eng.globals
            /\ eng'.assumed = eng.assumed
        BY <2>2, <1>5 DEF SameUser
      <3> QED  BY <3>1, <1>1, ViewIsAbstract DEF Abstract!Push
    <2> QED  BY <2>3, <2>4 DEF GoodStep, Abstract!Next
  <1>7. CASE eng' = s /\ phase' = "failed" /\ UNCHANGED d_smtMode
    <2>1. IInv'  BY <1>1, <1>4, <1>7, OtherTypes, ReadyInv
    <2>2. UNCHANGED Abstract!vars  BY <1>1, <1>5, <1>7, SameUserStutters
    <2> QED  BY <2>1, <2>2 DEF GoodStep
  <1> QED  BY <1>1, <1>6, <1>7

LEMMA PopStep ==
    ASSUME IInv, pop
    PROVE  GoodStep
  <1> DEFINE b == beginCall(eng)
  <1>1. /\ phase = "run" /\ UNCHANGED <<incremental, d_queryMade, d_expected, decided>>
        /\ d_smtMode' \in {"assert", d_smtMode}
        /\ \/ incremental /\ eng.userLevels # <<>> /\ eng' = userPop(b) /\ UNCHANGED phase
           \/ eng' = b /\ phase' = "failed"
    BY DEF pop
  <1>2. Ready(b) /\ SameUser(eng, b)  BY <1>1, BeginCall
  <1> HIDE DEF b
  <1>3. CASE incremental /\ eng.userLevels # <<>> /\ eng' = userPop(b) /\ UNCHANGED phase
    <2>1. incremental = TRUE  BY <1>3, OtherTypes
    <2>2. b.userLevels # <<>>  BY <1>2, <1>3 DEF SameUser
    <2>3. /\ Ready(eng') /\ eng'.globals = b.globals /\ eng'.assumed = b.assumed
          /\ Len(UF(b)) > 1 /\ UF(eng') = SubSeq(UF(b), 1, Len(UF(b)) - 1)
      BY <2>1, <2>2, <1>2, <1>3, UserPopReady
    <2>4. IInv'  BY <2>3, <1>1, <1>3, OtherTypes, ReadyInv
    <2>5. Abstract!Pop
      <3>1. UF(eng') = SubSeq(UF(eng), 1, Len(UF(eng)) - 1) /\ Len(UF(eng)) > 1
            /\ eng'.globals = eng.globals /\ eng'.assumed = eng.assumed
        BY <2>3, <1>2 DEF SameUser
      <3> QED  BY <3>1, <1>1, ViewIsAbstract DEF Abstract!Pop
    <2> QED  BY <2>4, <2>5 DEF GoodStep, Abstract!Next
  <1>4. CASE eng' = b /\ phase' = "failed"
    <2>1. IInv'  BY <1>1, <1>2, <1>4, OtherTypes, ReadyInv
    <2>2. UNCHANGED Abstract!vars  BY <1>1, <1>2, <1>4, SameUserStutters
    <2> QED  BY <2>1, <2>2 DEF GoodStep
  <1> QED  BY <1>1, <1>3, <1>4

LEMMA ResetAssertionsStep ==
    ASSUME IInv, resetAssertions
    PROVE  GoodStep
  <1>1. phase = "run" /\ UNCHANGED <<incremental, d_queryMade, d_expected, decided, phase>>
    BY DEF resetAssertions
  <1>2. CASE eng.inited
    <2> DEFINE p == doPendingPops(eng)
    <2>1. /\ eng' = [notifyResetAssertions(eng) EXCEPT !.prop = <<{}>>]
          /\ d_smtMode' \in {d_smtMode, "assert"}
      BY <1>2 DEF resetAssertions
    <2>2. p = beginCall(eng)  BY <1>2 DEF beginCall, finishInit
    <2>3. p = doPendingPops(eng)  OBVIOUS
    <2> HIDE DEF p
    <2>4. Ready(p) /\ SameUser(eng, p)  BY <2>2, <1>1, BeginCall
    <2>5. /\ Ready(eng') /\ eng'.globals = p.globals /\ eng'.assumed = p.assumed
          /\ UF(eng') = <<{}>>
      BY <2>1, <2>3, <2>4, ResetReady, ZenonT(40)
    <2>6. IInv'  BY <2>1, <2>5, <1>1, OtherTypes, ReadyInv
    <2>7. Abstract!Reset
      <3>1. eng'.globals = eng.globals /\ eng'.assumed = eng.assumed
        BY <2>4, <2>5 DEF SameUser
      <3> QED  BY <3>1, <2>5, <1>1, ViewIsAbstract DEF Abstract!Reset
    <2> QED  BY <2>6, <2>7 DEF GoodStep, Abstract!Next
  <1>3. CASE ~eng.inited
    <2>1. UNCHANGED <<eng, d_smtMode>>  BY <1>3 DEF resetAssertions
    <2> QED  BY <2>1, <1>1, OtherTypes, NoEngineStep
  <1> QED  BY <1>2, <1>3

LEMMA CheckSatRefusedStep ==
    ASSUME IInv, checkSatRefused
    PROVE  GoodStep
  <1>1. /\ phase = "run" /\ eng' = beginCall(eng) /\ phase' = "failed"
        /\ UNCHANGED <<incremental, d_smtMode, d_queryMade, d_expected, decided>>
    BY DEF checkSatRefused
  <1>2. Ready(eng') /\ SameUser(eng, eng')  BY <1>1, BeginCall
  <1>3. IInv'  BY <1>1, <1>2, OtherTypes, ReadyInv
  <1> QED  BY <1>1, <1>2, <1>3, SameUserStutters DEF GoodStep

(* The engines of a check, before and after the assertions are sent.       *)
LEMMA CheckEngines ==
    ASSUME IInv, phase = "run", QueryAllowed, NEW A \in Assumptions,
           NEW b, b = beginCall(eng), NEW w, w = WithAssumptions(A),
           NEW s, s = refreshAssertions(w)
    PROVE  /\ A \in Seq(Assumption) /\ Ready(b) /\ SameUser(eng, b)
           /\ Asking(b, A, w) /\ Asking(b, A, s)
           /\ UNION Range(s.prop) = (UNION {UF(eng)[i] : i \in DOMAIN UF(eng)})
                                      \cup Range(eng.globals) \cup Range(A)
           /\ UNION Range(s.prop) \subseteq Entry
  <1>1. A \in Seq(Assumption)
    <2>1. CASE A = <<>>  BY <2>1
    <2>2. CASE A # <<>>
      <3>1. PICK a \in Assumption : A = <<a>>  BY <2>2 DEF Assumptions
      <3> QED  BY <3>1
    <2> QED  BY <2>1, <2>2
  <1>2. Ready(b) /\ SameUser(eng, b)  BY BeginCall
  <1>3. incremental \in BOOLEAN  BY OtherTypes
  <1>4. Asking(b, A, w)  BY <1>1, <1>2, <1>3, WithAssumptionsAsks
  <1>5. Good(w) /\ Good(b)  BY <1>2, <1>4 DEF Asking, Ready, Settled
  <1>6. Sent(w, s)  BY <1>5, RefreshAssertionsSends
  <1>7. Asking(b, A, s)  BY <1>4, <1>5, <1>6, SentAsks
  <1>8. s.index = Len(s.list) /\ s.global = Len(s.globals) /\ Good(s)  BY <1>6 DEF Sent
  <1>9. UNION Range(s.prop) =
           (UNION {UF(b)[i] : i \in DOMAIN UF(b)}) \cup Range(b.globals) \cup Range(A)
    BY <1>1, <1>2, <1>7, <1>8, CheckDecides, SMTT(30)
  <1>10. UF(b) = UF(eng) /\ b.globals = eng.globals  BY <1>2 DEF SameUser
  <1>11. Entries(s) \subseteq Entry
    <2>1. \A i \in 1 .. Len(s.list) : s.list[i] \in Entry  BY <1>8, GoodFacts
    <2> QED  BY <2>1 DEF Entries
  <1>12. UNION Range(s.prop) = Entries(s)  BY <1>8, SolverHoldsList
  <1>13. UNION Range(s.prop) = (UNION {UF(eng)[i] : i \in DOMAIN UF(eng)})
                                 \cup Range(eng.globals) \cup Range(A)
    BY <1>9, <1>10, Zenon
  <1>14. UNION Range(s.prop) \subseteq Entry  BY <1>11, <1>12, Zenon
  <1> QED  BY <1>1, <1>2, <1>4, <1>7, <1>13, <1>14, Zenon

(* A step that leaves the engine of a check behind.                        *)
LEMMA AskedStep ==
    ASSUME IInv, UNCHANGED incremental, NEW A \in Seq(Assumption),
           NEW b, SameUser(eng, b), Asked(b, A, eng'),
           d_smtMode' \in Mode, d_queryMade' \in BOOLEAN,
           d_expected' \in Result \cup {None}, phase' \in {"run", "failed"},
           phase' = "run" =>
              /\ d_queryMade' = TRUE
              /\ eng'.pendingPops = IF A # <<>> /\ incremental THEN 1 ELSE 0,
           decided' \subseteq Entry,
           \/ UNCHANGED decided
           \/ decided' = (UNION {UF(eng)[i] : i \in DOMAIN UF(eng)})
                            \cup Range(eng.globals) \cup Range(A)
    PROVE  GoodStep
  <1> DEFINE f == eng'
  <1>1. Asked(b, A, f) /\ eng' = f  OBVIOUS
  <1>2. phase' = "run" => f.pendingPops = IF A # <<>> /\ incremental THEN 1 ELSE 0
    OBVIOUS
  <1> HIDE DEF f
  <1>3. /\ Kept(f) /\ UF(f) = UF(b) /\ f.globals = b.globals /\ f.assumed = A
        /\ incremental => AssumptionsApart(f)
    BY <1>1 DEF Asked
  <1>4. phase' = "run" => Len(f.frames) = Len(f.userLevels) + 1 + f.pendingPops
    BY <1>1, <1>2 DEF Asked
  <1>5. phase' = "run" /\ QueryAllowed' => AssumptionsApart(f)
    BY <1>3 DEF QueryAllowed
  <1>6. TypeOK'
    <2>1. f \in Engine  BY <1>3 DEF Kept, Good
    <2> QED  BY <2>1, <1>1 DEF IInv, TypeOK
  <1>7. IInv'  BY <1>1, <1>3, <1>4, <1>5, <1>6, KeptInv
  <1>8. UF(eng') = UF(eng) /\ eng'.globals = eng.globals /\ eng'.assumed = A
    BY <1>1, <1>3 DEF SameUser
  <1>9. Range(A) \in SUBSET Assumption
    <2>1. DOMAIN A = 1 .. Len(A) /\ \A i \in 1 .. Len(A) : A[i] \in Assumption
      BY LenProperties, ElementOfSeq
    <2> QED  BY <2>1 DEF Range
  <1>10. Abstract!Check(Range(A)) \/ Abstract!GiveUp(Range(A))
    BY <1>8, ViewIsAbstract DEF Abstract!Check, Abstract!GiveUp
  <1> QED  BY <1>7, <1>9, <1>10 DEF GoodStep, Abstract!Next

(* SolverEngineState::notifyCheckSatResult.                                *)
LEMMA CheckSatResultTypes ==
    ASSUME IInv, phase = "run", NEW r \in Result, CheckSatResult(r)
    PROVE  /\ d_smtMode' \in Mode /\ d_queryMade' = TRUE
           /\ d_expected' \in Result \cup {None} /\ phase' \in {"run", "failed"}
  BY OtherTypes DEF CheckSatResult, Mode

LEMMA CheckSatStep ==
    ASSUME IInv, NEW A \in Assumptions, NEW r \in Result, checkSat(A, r)
    PROVE  GoodStep
  <1> DEFINE b == beginCall(eng)
             w == WithAssumptions(A)
             s == refreshAssertions(w)
             t == Running(s)
  <1>1. /\ phase = "run" /\ QueryAllowed /\ CheckSatResult(r) /\ UNCHANGED incremental
        /\ eng' = notifyCheckSatResult(t, A) /\ decided' = UNION Range(s.prop)
    BY DEF checkSat, Running
  <1>2. /\ b = beginCall(eng) /\ w = WithAssumptions(A) /\ s = refreshAssertions(w)
        /\ t = Running(s)
    OBVIOUS
  <1> HIDE DEF b, w, s, t
  <1>3. /\ A \in Seq(Assumption) /\ Ready(b) /\ SameUser(eng, b) /\ Asking(b, A, s)
        /\ UNION Range(s.prop) = (UNION {UF(eng)[i] : i \in DOMAIN UF(eng)})
                                   \cup Range(eng.globals) \cup Range(A)
        /\ UNION Range(s.prop) \subseteq Entry
    BY <1>1, <1>2, CheckEngines
  <1>4. s \in Engine /\ s.pendingPops = 0  BY <1>3 DEF Asking, Settled, Good
  <1>5. FlagsOnly(s, t) /\ t.pendingPops = s.pendingPops  BY <1>2, <1>4, RunningFields
  <1>6. t \in Engine /\ t.pendingPops = 0  BY <1>4, <1>5 DEF FlagsOnly, SameContent
  <1>7. incremental \in BOOLEAN  BY OtherTypes
  <1>8. /\ FlagsOnly(t, eng') /\ eng'.needPostsolve = TRUE
        /\ eng'.pendingPops = IF A # <<>> /\ incremental THEN 1 ELSE 0
    BY <1>1, <1>6, <1>7, ResultFields
  <1>9. FlagsOnly(s, eng')  BY <1>5, <1>8 DEF FlagsOnly, SameContent
  <1>10. Asked(b, A, eng')  BY <1>3, <1>7, <1>8, <1>9, AskingAsked
  <1>11. /\ d_smtMode' \in Mode /\ d_queryMade' = TRUE
         /\ d_expected' \in Result \cup {None} /\ phase' \in {"run", "failed"}
    BY <1>1, CheckSatResultTypes
  <1> QED  BY <1>1, <1>3, <1>8, <1>10, <1>11, AskedStep

LEMMA CheckSatOutStep ==
    ASSUME IInv, NEW A \in Assumptions, checkSatOut(A)
    PROVE  GoodStep
  <1> DEFINE b == beginCall(eng)
             w == WithAssumptions(A)
             s == refreshAssertions(w)
  <1>1. /\ phase = "run" /\ QueryAllowed /\ CheckSatResult("unknown")
        /\ UNCHANGED <<incremental, decided>> /\ eng' = notifyCheckSatResult(w, A)
    BY DEF checkSatOut
  <1>2. b = beginCall(eng) /\ w = WithAssumptions(A) /\ s = refreshAssertions(w)
    OBVIOUS
  <1> HIDE DEF b, w, s
  <1>3. /\ A \in Seq(Assumption) /\ Ready(b) /\ SameUser(eng, b) /\ Asking(b, A, w)
    BY <1>1, <1>2, CheckEngines
  <1>4. w \in Engine /\ w.pendingPops = 0  BY <1>3 DEF Asking, Settled, Good
  <1>5. incremental \in BOOLEAN /\ decided \subseteq Entry  BY OtherTypes
  <1>6. /\ FlagsOnly(w, eng') /\ eng'.needPostsolve = TRUE
        /\ eng'.pendingPops = IF A # <<>> /\ incremental THEN 1 ELSE 0
    BY <1>1, <1>4, <1>5, ResultFields
  <1>7. Asked(b, A, eng')  BY <1>3, <1>5, <1>6, AskingAsked
  <1>8. /\ d_smtMode' \in Mode /\ d_queryMade' = TRUE
        /\ d_expected' \in Result \cup {None} /\ phase' \in {"run", "failed"}
    BY <1>1, CheckSatResultTypes DEF Result
  <1> QED  BY <1>1, <1>3, <1>5, <1>6, <1>7, <1>8, AskedStep

LEMMA CheckSatThrowsStep ==
    ASSUME IInv, NEW A \in Assumptions, checkSatThrows(A)
    PROVE  GoodStep
  <1> DEFINE b == beginCall(eng)
             w == WithAssumptions(A)
             s == refreshAssertions(w)
             t == Running(s)
  <1>1. /\ phase = "run" /\ QueryAllowed /\ d_smtMode' = "assert" /\ phase' = "failed"
        /\ UNCHANGED <<incremental, d_queryMade, d_expected>>
        /\ \/ eng' = resetTrail(w) /\ UNCHANGED decided
           \/ eng' = resetTrail(t) /\ decided' = UNION Range(s.prop)
    BY DEF checkSatThrows, Running
  <1>2. /\ b = beginCall(eng) /\ w = WithAssumptions(A) /\ s = refreshAssertions(w)
        /\ t = Running(s)
    OBVIOUS
  <1> HIDE DEF b, w, s, t
  <1>3. /\ A \in Seq(Assumption) /\ Ready(b) /\ SameUser(eng, b)
        /\ Asking(b, A, w) /\ Asking(b, A, s)
        /\ UNION Range(s.prop) = (UNION {UF(eng)[i] : i \in DOMAIN UF(eng)})
                                   \cup Range(eng.globals) \cup Range(A)
        /\ UNION Range(s.prop) \subseteq Entry
    BY <1>1, <1>2, CheckEngines
  <1>4. /\ incremental \in BOOLEAN /\ d_queryMade' \in BOOLEAN /\ decided \subseteq Entry
        /\ d_smtMode' \in Mode /\ d_expected' \in Result \cup {None}
        /\ phase' \in {"run", "failed"} /\ phase' # "run"
    BY <1>1, OtherTypes
  <1>5. CASE eng' = resetTrail(w) /\ UNCHANGED decided
    <2>1. w \in Engine /\ w.pendingPops = 0  BY <1>3 DEF Asking, Settled, Good
    <2>2. FlagsOnly(w, eng') /\ eng'.trail = FALSE /\ eng'.pendingPops = 0
      BY <2>1, <1>5, ResetTrailFields
    <2>3. Asked(b, A, eng')  BY <2>2, <1>3, <1>4, AskingAsked
    <2> QED  BY <2>3, <1>1, <1>3, <1>4, <1>5, AskedStep
  <1>6. CASE eng' = resetTrail(t) /\ decided' = UNION Range(s.prop)
    <2>1. s \in Engine /\ s.pendingPops = 0  BY <1>3 DEF Asking, Settled, Good
    <2>2. FlagsOnly(s, t) /\ t.pendingPops = s.pendingPops  BY <2>1, <1>2, RunningFields
    <2>3. t \in Engine /\ t.pendingPops = 0  BY <2>1, <2>2 DEF FlagsOnly, SameContent
    <2>4. FlagsOnly(t, eng') /\ eng'.trail = FALSE /\ eng'.pendingPops = 0
      BY <2>3, <1>6, ResetTrailFields
    <2>5. FlagsOnly(s, eng')  BY <2>2, <2>4 DEF FlagsOnly, SameContent
    <2>6. Asked(b, A, eng')  BY <2>4, <2>5, <1>3, <1>4, AskingAsked
    <2> QED  BY <2>6, <1>1, <1>3, <1>4, <1>6, AskedStep
  <1> QED  BY <1>1, <1>5, <1>6

LEMMA DestroyStep ==
    ASSUME IInv, Destroy
    PROVE  GoodStep
  <1>1. /\ phase # "ended" /\ eng' = shutdown(eng) /\ phase' = "ended"
        /\ UNCHANGED <<incremental, d_smtMode, d_queryMade, d_expected, decided>>
    BY DEF Destroy
  <1>2. incremental \in BOOLEAN  BY OtherTypes
  <1>3. Gone(eng, eng')
    <2>1. CASE eng.inited
      <3>1. Between(eng)  BY <2>1, <1>1 DEF IInv
      <3>2. Len(eng.userLevels) \in Nat /\ eng.pendingPops \in Nat /\ Len(eng.frames) \in Nat
        BY <3>1, GoodFacts, EngineType, LenProperties DEF Between, Good
      <3>3. Len(eng.frames) >= Len(eng.userLevels) + 1 + eng.pendingPops  BY <3>1 DEF Between
      <3>4. eng.pendingPops < Len(eng.frames)  BY <3>2, <3>3
      <3>5. Pending(eng)  BY <3>1, <3>4 DEF Between, Pending
      <3> QED  BY <3>5, <1>1, <1>2, ShutdownEnds
    <2>2. CASE ~eng.inited
      <3>1. eng = NewEngine  BY <2>2, <1>1 DEF IInv
      <3>2. eng' = shutdown(NewEngine)  BY <3>1, <1>1
      <3>3. Gone(NewEngine, eng')  BY <3>2, <1>2, ShutdownNewEnds
      <3> QED  BY <3>1, <3>3
    <2> QED  BY <2>1, <2>2
  <1>4. IInv'
    <2>1. eng' \in Engine /\ eng'.asserts  BY <1>3 DEF Gone, IInv
    <2>2. TypeOK'  BY <2>1, <1>1 DEF IInv, TypeOK
    <2> QED  BY <2>1, <2>2, <1>1 DEF IInv
  <1>5. Abstract!Reset
    BY <1>1, <1>3, ViewIsAbstract DEF Gone, Abstract!Reset
  <1> QED  BY <1>4, <1>5 DEF GoodStep, Abstract!Next

LEMMA StutterStep ==
    ASSUME IInv, UNCHANGED vars
    PROVE  GoodStep
  <1>1. UNCHANGED <<incremental, eng, d_smtMode, d_queryMade, d_expected, decided, phase>>
    BY DEF vars
  <1> QED  BY <1>1, OtherTypes, NoEngineStep

(* Every step keeps the invariant, and is one of the assertion stack's, or *)
(* one the user does not see.                                              *)
LEMMA EveryStep ==
    ASSUME IInv, [Next]_vars
    PROVE  GoodStep
  <1>1. CASE declareConst
    BY <1>1, OtherTypes, NoEngineStep DEF declareConst
  <1>2. ASSUME NEW t \in Status, setStatus(t)  PROVE GoodStep
    <2>1. t \in Result  BY BoundsAssumption DEF Result
    <2> QED  BY <1>2, <2>1, OtherTypes, NoEngineStep DEF setStatus
  <1>3. CASE UNCHANGED vars  BY <1>3, StutterStep
  <1>4. CASE Ended  BY <1>4, StutterStep DEF Ended
  <1> QED
    BY <1>1, <1>2, <1>3, <1>4, AssertFormulaStep, DefineFunctionStep, PushStep, PopStep,
       ResetAssertionsStep, CheckSatStep, CheckSatOutStep, CheckSatThrowsStep,
       CheckSatRefusedStep, DestroyStep
    DEF Next

LEMMA InitGood == Init => IInv /\ Abstract!Init
  <1> SUFFICES ASSUME Init  PROVE IInv /\ Abstract!Init  OBVIOUS
  <1>1. eng = NewEngine  BY DEF Init, NewEngine
  <1>2. eng.asserts = TRUE /\ eng.inited = FALSE /\ eng.userLevels = <<>> /\ eng.frames = <<>>
        /\ eng.globals = <<>> /\ eng.assumed = <<>>
    BY <1>1 DEF NewEngine
  <1>3. TypeOK  BY <1>1, NewEngineType DEF Init, TypeOK, Mode
  <1>4. IInv  BY <1>1, <1>2, <1>3 DEF IInv
  <1>5. UF(eng) = <<{}>>  BY <1>2, OneEmptyFrame
  <1>6. Range(<<>>) = {}  BY DEF Range
  <1>7. Abstract!Init  BY <1>2, <1>5, <1>6, ViewIsAbstract DEF Init, Abstract!Init
  <1> QED  BY <1>4, <1>7

LEMMA InvariantHolds == Spec => []IInv
  <1>1. Init => IInv  BY InitGood
  <1>2. IInv /\ [Next]_vars => IInv'  BY EveryStep DEF GoodStep
  <1> QED  BY <1>1, <1>2, PTL DEF Spec

-----------------------------------------------------------------------------
(* The theorems.                                                           *)

(* No Assert of the code modelled here ever fails, however checks,         *)
(* exceptions, deferred pops and resets follow each other.                 *)
THEOREM EngineAssertsHold == Spec => []AssertsHold
  <1>1. IInv => AssertsHold  BY DEF IInv, AssertsHold
  <1> QED  BY <1>1, InvariantHolds, PTL

(* The user context, the SAT context and the assertion levels of the SAT   *)
(* solver stay paired, at any depth; the levels above those of the user    *)
(* are exactly the pops that ContextManager has deferred, or what a failed *)
(* check left behind.                                                      *)
THEOREM EngineLevelsAgree == Spec => []LevelsAgree
  <1>1. ASSUME IInv  PROVE LevelsAgree
    <2>1. TypeOK  BY <1>1 DEF IInv
    <2>2. ASSUME phase # "ended", eng.inited
          PROVE  /\ Len(eng.frames) = eng.satLevel
                 /\ Len(eng.frames) = Len(eng.prop)
                 /\ eng.userLevels = [i \in 1 .. Len(eng.userLevels) |-> i]
                 /\ LET extra == Len(eng.frames) - (Len(eng.userLevels) + 1)
                    IN  IF phase = "run" THEN extra = eng.pendingPops ELSE extra \in 0 .. 1
      <3>1. Between(eng)  BY <1>1, <2>2 DEF IInv
      <3>2. /\ Len(eng.frames) = eng.satLevel /\ Len(eng.frames) = Len(eng.prop)
            /\ eng.userLevels = [i \in 1 .. Len(eng.userLevels) |-> i]
        BY <3>1 DEF Between, Good
      <3> DEFINE n == Len(eng.frames)
                 u == Len(eng.userLevels)
                 p == eng.pendingPops
      <3>3. n \in Nat /\ u \in Nat /\ p \in Nat
        BY <3>1, GoodFacts, EngineType, LenProperties DEF Between, Good
      <3>4. n >= u + 1 + p /\ IF phase = "run" THEN n = u + 1 + p ELSE n <= u + 2
        BY <3>1 DEF Between
      <3> HIDE DEF n, u, p
      <3>5. IF phase = "run" THEN n - (u + 1) = p ELSE n - (u + 1) \in 0 .. 1
        BY <3>3, <3>4
      <3> QED  BY <3>2, <3>5 DEF n, u, p
    <2> QED  BY <2>1, <2>2 DEF LevelsAgree
  <1> QED  BY <1>1, InvariantHolds, PTL

(* Whatever the user does, each assertion level of the SAT solver holds    *)
(* the entries of that level of the assertion list that have been sent,    *)
(* and nothing else; below the top level all have been sent.               *)
THEOREM EnginePropMirrorsList == Spec => []PropMirrorsList
  <1>1. ASSUME IInv  PROVE PropMirrorsList
    <2> SUFFICES ASSUME phase # "ended", eng.inited, NEW k \in DOMAIN eng.prop
                 PROVE  /\ eng.prop[k] = {eng.list[i] : i \in {j \in Segment(k) : j <= eng.index}}
                        /\ k < Len(eng.frames) => eng.frames[k + 1].size <= eng.index
      BY DEF PropMirrorsList
    <2>1. Good(eng)  BY <1>1 DEF IInv, Between
    <2>2. /\ k \in 1 .. Len(eng.frames) /\ Len(eng.frames) \in Nat
          /\ DOMAIN eng.frames = 1 .. Len(eng.frames)
      BY <2>1, GoodFacts
    <2>3. Segment(k) = eng.frames[k].size + 1 .. EndOf(eng, k)  BY DEF Segment, EndOf
    <2>4. eng.prop[k] = {eng.list[i] : i \in {j \in Segment(k) : j <= eng.index}}
      BY <2>1, <2>2, <2>3 DEF Good, Mirror
    <2>5. ASSUME k < Len(eng.frames)  PROVE eng.frames[k + 1].size <= eng.index
      <3>1. k + 1 \in 1 .. Len(eng.frames)  BY <2>2, <2>5
      <3> QED  BY <3>1, <2>1, <2>2 DEF Good, FramesOK
    <2> QED  BY <2>4, <2>5
  <1> QED  BY <1>1, InvariantHolds, PTL

(* The incremental core implements the assertion stack of SMT-LIB: every   *)
(* check that runs the SAT solver decides exactly the assertions of the    *)
(* open user frames, the global definitions and its own assumptions, for   *)
(* any sets of them and any interleaving of pushes, pops, deferred pops,   *)
(* resets, failures and late sending.                                      *)
THEOREM EngineRefinesAssertionStack == Spec => BehavesAsAssertionStack
  <1>1. Init => Abstract!Init  BY InitGood
  <1>2. IInv /\ [Next]_vars => [Abstract!Next]_(Abstract!vars)  BY EveryStep DEF GoodStep
  <1> QED
    BY <1>1, <1>2, InvariantHolds, PTL DEF Spec, BehavesAsAssertionStack, Abstract!Spec

=============================================================================
