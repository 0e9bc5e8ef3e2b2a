--------------------------- MODULE SnapshotStack ---------------------------
(***************************************************************************)
(* What every backtrackable data structure of cvc5 promises its client.    *)
(*                                                                         *)
(* There is a current value and a stack of snapshots, one for each         *)
(* enclosing scope of the Context.  Context::push takes a snapshot,        *)
(* Context::pop goes back to the last one, and whatever the client does in *)
(* between changes the current value and no snapshot.  The one exception   *)
(* is the part of a value that is not context dependent at all (an object  *)
(* that is destroyed, a table that is cleared): Forget changes it in the   *)
(* current value and in every snapshot at once.                            *)
(*                                                                         *)
(* A snapshot is a function, so that a structure of several objects        *)
(* (module Context) and one of a single object are both instances.         *)
(***************************************************************************)
EXTENDS Naturals, Sequences

CONSTANTS
    Part,       (* the independently written parts of the value            *)
    Blank       (* Blank[p] is what part p holds before it is first written *)

VARIABLES
    cur,        (* the value the client reads now                          *)
    stack       (* the snapshots, outermost scope first                    *)

vars == <<cur, stack>>

Init ==
    /\ cur = Blank
    /\ stack = <<>>

(* The client changes part p of the current value.                         *)
Write(p) ==
    /\ cur' = [cur EXCEPT ![p] = cur'[p]]
    /\ UNCHANGED stack

(* Context::push(). *)
Push ==
    /\ stack' = Append(stack, cur)
    /\ UNCHANGED cur

(* Context::pop(). *)
Pop ==
    /\ stack # <<>>
    /\ cur' = stack[Len(stack)]
    /\ stack' = SubSeq(stack, 1, Len(stack) - 1)

(* Part p ceases to exist, now and for every enclosing scope.               *)
Forget(p) ==
    /\ cur' = [cur EXCEPT ![p] = Blank[p]]
    /\ stack' = [i \in 1 .. Len(stack) |-> [stack[i] EXCEPT ![p] = Blank[p]]]

Next ==
    \/ Push
    \/ Pop
    \/ \E p \in Part : Write(p) \/ Forget(p)

Spec == Init /\ [][Next]_vars

=============================================================================
