---------------------------- MODULE MCCDHashMap ----------------------------
(* Instances of CDHashMap for TLC.                                         *)
EXTENDS CDHashMap, TLC

CONSTANTS k1, k2, k3, v, w

ThreeKeys == {k1, k2, k3}

(* One element changes its data; of the others only order and presence     *)
(* matter.                                                                 *)
OneKeyChanges == [k \in ThreeKeys |-> IF k = k1 THEN {v, w} ELSE {v}]

Symmetry == Permutations({k2, k3})

=============================================================================
