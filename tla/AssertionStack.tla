--------------------------- MODULE AssertionStack ---------------------------
(***************************************************************************)
(* What an incremental solver promises its user: the assertion stack of    *)
(* SMT-LIB.                                                                *)
(*                                                                         *)
(* Assertions belong to the frame they were made in and disappear with it. *)
(* Global definitions belong to no frame and stay.  A check decides the    *)
(* assertions of all open frames, all global definitions, the assumptions  *)
(* of this check, and nothing else.                                        *)
(***************************************************************************)
EXTENDS Naturals, Sequences

CONSTANTS
    Formula,        (* what the user may assert                            *)
    Definition,     (* what the user may define globally                   *)
    Assumption      (* what the user may assume for one check              *)

VARIABLES
    stack,          (* the set of assertions of each open frame            *)
    definitions,    (* the global definitions                              *)
    assumed,        (* the assumptions of the last check                   *)
    decided         (* what the last check was about                       *)

vars == <<stack, definitions, assumed, decided>>

Init ==
    /\ stack = <<{}>>
    /\ definitions = {}
    /\ assumed = {}
    /\ decided = {}

(* (assert f)                                                              *)
Assert(f) ==
    /\ stack' = [stack EXCEPT ![Len(stack)] = @ \cup {f}]
    /\ UNCHANGED <<definitions, assumed, decided>>

(* (define-fun ...) with :global-declarations                              *)
Define(d) ==
    /\ definitions' = definitions \cup {d}
    /\ UNCHANGED <<stack, assumed, decided>>

(* (push 1)                                                                *)
Push ==
    /\ stack' = Append(stack, {})
    /\ UNCHANGED <<definitions, assumed, decided>>

(* (pop 1)                                                                 *)
Pop ==
    /\ Len(stack) > 1
    /\ stack' = SubSeq(stack, 1, Len(stack) - 1)
    /\ UNCHANGED <<definitions, assumed, decided>>

(* (reset-assertions)                                                      *)
Reset ==
    /\ stack' = <<{}>>
    /\ UNCHANGED <<definitions, assumed, decided>>

(* (check-sat-assuming A)                                                  *)
Check(A) ==
    /\ assumed' = A
    /\ decided' = (UNION {stack[i] : i \in DOMAIN stack}) \cup definitions \cup A
    /\ UNCHANGED <<stack, definitions>>

(* A check that ends, out of resources or with an error, before anything   *)
(* is decided.                                                             *)
GiveUp(A) ==
    /\ assumed' = A
    /\ UNCHANGED <<stack, definitions, decided>>

Next ==
    \/ \E f \in Formula : Assert(f)
    \/ \E d \in Definition : Define(d)
    \/ Push
    \/ Pop
    \/ Reset
    \/ \E A \in SUBSET Assumption : Check(A) \/ GiveUp(A)

Spec == Init /\ [][Next]_vars

=============================================================================
