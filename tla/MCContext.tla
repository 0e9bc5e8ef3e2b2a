----------------------------- MODULE MCContext -----------------------------
(* Model checking of module Context: a CDO, and two elements of hash maps, *)
(* which are interchangeable.                                              *)
EXTENDS Context, TLC

CONSTANTS o1, e1, e2

AllObjects == {o1, e1, e2}
ObjectsData == [o \in AllObjects |-> IF o = o1 THEN {1} ELSE {0}]

Symmetry == Permutations({e1, e2})

=============================================================================
