------------------------------ MODULE CDQueue ------------------------------
(***************************************************************************)
(* The context-dependent queue (src/cvc5/src/context/cdqueue.h) and the    *)
(* context-dependent list it derives from (cdlist.h).                      *)
(*                                                                         *)
(* All versions of the queue share ONE vector.  A saved copy holds only    *)
(* indices into it (its size, the position of the next element to dequeue  *)
(* and the size at the save before), and a pop truncates the vector.  That *)
(* is sound only if no element that a saved version needs is ever          *)
(* destroyed, and CDQueue::pop does destroy elements early: truncateList   *)
(* says "it is up to the user of the function to ensure that the saved     *)
(* d_size values at lower context levels are less than or equal to size".  *)
(*                                                                         *)
(* The Context is the one of module Context, for a single object: scope    *)
(* and restore are the levels of d_pScope and of the saved copy that       *)
(* d_pContextObjRestore points to.                                         *)
(***************************************************************************)
EXTENDS Integers, Sequences

CONSTANTS
    Elt,        (* the elements of the queue                               *)
    MaxLevel,   (* bound: the deepest scope                                *)
    MaxLen      (* bound: the longest vector                               *)

ASSUME BoundsAssumption == MaxLevel \in Nat /\ MaxLen \in Nat

VARIABLES
    level,      (* level of the top scope of the context                   *)
    scope,      (* level of the scope in which the queue was last saved    *)
    restore,    (* level of the newest saved copy, None if there is none   *)
    saved,      (* saved[k]: the copy left in the scope at level k         *)
    d_list,     (* the vector                                              *)
    d_size,     (* number of valid elements of d_list                      *)
    d_iter,     (* number of elements already dequeued                     *)
    d_lastsave  (* d_size at the last save                                 *)

vars == <<level, scope, restore, saved, d_list, d_size, d_iter, d_lastsave>>

None == -1
Level == 0 .. MaxLevel
Copy == [size : Nat, iter : Nat, lastsave : Nat, restore : Level \cup {None}]

Init ==
    /\ level = 0
    /\ scope = 0
    /\ restore = None
    /\ saved = [k \in {} |-> <<>>]
    /\ d_list = <<>>
    /\ d_size = 0
    /\ d_iter = 0
    /\ d_lastsave = 0

-----------------------------------------------------------------------------
(* CDQueue::save, called by makeCurrent on the first change in a scope: a  *)
(* copy of the indices stays behind, and d_lastsave becomes the size.      *)
save ==
    /\ saved' = [k \in DOMAIN saved \cup {scope} |->
                    IF k = scope
                    THEN [size |-> d_size, iter |-> d_iter,
                          lastsave |-> d_lastsave, restore |-> restore]
                    ELSE saved[k]]
    /\ restore' = scope
    /\ scope' = level

(* Faulty: no test whether the queue is current.                           *)
makeCurrentAlways == save

makeCurrent ==
    IF scope = level
    THEN UNCHANGED <<saved, restore, scope>>
    ELSE save

(* Faulty: save() leaves d_lastsave alone.                                 *)
LastSaveStale == d_lastsave

(* d_lastsave as makeCurrent leaves it.                                    *)
LastSave == IF scope = level THEN d_lastsave ELSE d_size

(* CDQueue::push, which is CDList::push_back.                              *)
push(e) ==
    /\ Len(d_list) < MaxLen
    /\ makeCurrent
    /\ d_list' = Append(d_list, e)
    /\ d_size' = d_size + 1
    /\ d_lastsave' = LastSave
    /\ UNCHANGED <<level, d_iter>>

(* CDList::truncateList(n).                                                *)
truncateList(n) ==
    /\ d_size' = n
    /\ d_list' = SubSeq(d_list, 1, n)

(* Faulty: dequeues without makeCurrent().                                 *)
popNotCurrent ==
    /\ d_iter < d_size
    /\ IF d_iter + 1 = d_size /\ d_lastsave # d_size
       THEN /\ truncateList(d_lastsave)
            /\ d_iter' = d_lastsave
       ELSE /\ d_iter' = d_iter + 1
            /\ UNCHANGED <<d_list, d_size>>
    /\ UNCHANGED <<level, scope, restore, saved, d_lastsave>>

(* CDQueue::pop of a queue that is not empty.  When the queue becomes      *)
(* empty, the elements enqueued and dequeued in this scope are destroyed.  *)
pop ==
    /\ d_iter < d_size
    /\ makeCurrent
    /\ d_lastsave' = LastSave
    /\ IF d_iter + 1 = d_size /\ LastSave # d_size
       THEN /\ truncateList(LastSave)
            /\ d_iter' = LastSave
       ELSE /\ d_iter' = d_iter + 1
            /\ UNCHANGED <<d_list, d_size>>
    /\ UNCHANGED level

(* Context::push. *)
ContextPush ==
    /\ level < MaxLevel
    /\ level' = level + 1
    /\ UNCHANGED <<scope, restore, saved, d_list, d_size, d_iter, d_lastsave>>

(* CDQueue::restore, called by Context::pop if the top scope changed the   *)
(* queue: the indices come back, then CDList::restore truncates.           *)
Restore(copy) ==
    /\ d_iter' = copy.iter
    /\ d_lastsave' = copy.lastsave
    /\ truncateList(copy.size)
    /\ scope' = restore
    /\ restore' = copy.restore
    /\ saved' = [k \in DOMAIN saved \ {restore} |-> saved[k]]

ContextPop ==
    /\ level > 0
    /\ level' = level - 1
    /\ IF scope = level
       THEN Restore(saved[restore])
       ELSE UNCHANGED <<scope, restore, saved, d_list, d_size, d_iter, d_lastsave>>

Next ==
    \/ \E e \in Elt : push(e)
    \/ pop
    \/ ContextPush
    \/ ContextPop

Spec == Init /\ [][Next]_vars

-----------------------------------------------------------------------------
(* Every variable has its type.                                            *)
TypeOK ==
    /\ level \in Level
    /\ scope \in Level
    /\ restore \in Level \cup {None}
    /\ DOMAIN saved \subseteq Level
    /\ saved \in [DOMAIN saved -> Copy]
    /\ d_list \in Seq(Elt)
    /\ d_size \in Nat /\ d_iter \in Nat /\ d_lastsave \in Nat

(* What the queue held in the scope at level l, front first: the elements  *)
(* between the two indices of its newest version not newer than l.         *)
Elements(iter, size) == [j \in 1 .. size - iter |-> d_list[iter + j]]

NewestAt(l) == CHOOSE k \in DOMAIN saved :
                  k <= l /\ \A j \in DOMAIN saved : j <= l => j <= k

PendingAt(l) ==
    IF scope <= l
    THEN Elements(d_iter, d_size)
    ELSE Elements(saved[NewestAt(l)].iter, saved[NewestAt(l)].size)

Snapshots == INSTANCE SnapshotStack WITH
    Part  <- {"queue"},
    Blank <- [p \in {"queue"} |-> <<>>],
    cur   <- [p \in {"queue"} |-> PendingAt(level)],
    stack <- [l \in 1 .. level |-> [p \in {"queue"} |-> PendingAt(l - 1)]]

(* The restore pointers run through all saved copies, newest first         *)
(* (ContextObj::update and restoreAndContinue).                            *)
CopiesChained ==
    /\ DOMAIN saved \subseteq 0 .. scope - 1
    /\ scope <= level
    /\ IF scope = 0 THEN restore = None ELSE restore \in DOMAIN saved
    /\ \A k \in DOMAIN saved : k <= restore
    /\ \A k \in DOMAIN saved :
          /\ IF k = 0 THEN saved[k].restore = None
                      ELSE saved[k].restore \in DOMAIN saved
          /\ saved[k].restore < k
          /\ \A j \in DOMAIN saved : j < k => j <= saved[k].restore

(* The queue has the right types, no index of type size_t is negative, and *)
(* ContextObj::update and restoreAndContinue keep the saved copies on one  *)
(* chain, newest first, so that successive pops restore all of them.       *)
SavedChain == TypeOK /\ CopiesChained

(* The assertions of CDQueue and the warning on truncateList: the indices  *)
(* of every version are in order, and no version begins below what the     *)
(* version before it still needs, so no saved size is ever above the       *)
(* length of the vector.                                                   *)
IndicesInOrder ==
    /\ d_size = Len(d_list)
    /\ d_iter <= d_size
    /\ d_lastsave = IF restore = None THEN 0 ELSE saved[restore].size
    /\ d_lastsave <= d_size
    /\ \A k \in DOMAIN saved :
          /\ saved[k].iter <= saved[k].size
          /\ saved[k].lastsave <= saved[k].size
          /\ saved[k].lastsave = IF saved[k].restore = None THEN 0
                                 ELSE saved[saved[k].restore].size
          /\ saved[k].size <= d_lastsave
          /\ \A j \in DOMAIN saved : j < k => saved[j].size <= saved[k].size

(* Every scope below the one the queue is in has a newest version, the one *)
(* a pop to that scope will find restored.                                 *)
HasNewest ==
    \A l \in 0 .. scope - 1 :
        \E k \in DOMAIN saved :
            k <= l /\ \A j \in DOMAIN saved : j <= l => j <= k

(* Sharing the vector is not visible: the queue of every enclosing scope   *)
(* is what it was when the scope was left, whatever was enqueued, dequeued *)
(* and destroyed since, and Context::pop brings it back.                   *)
BehavesAsSnapshots == Snapshots!Spec

=============================================================================
