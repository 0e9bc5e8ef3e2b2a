--------------------------- MODULE MCNodeManager ---------------------------
(* Instances of NodeManager for TLC.  The handles of the program are       *)
(* interchangeable.                                                        *)
EXTENDS NodeManager

HandleSymmetry == Permutations(Handle)

=============================================================================
