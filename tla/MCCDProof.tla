----------------------------- MODULE MCCDProof -----------------------------
(* An instance of CDProof for TLC: an equality xy with its symmetric form  *)
(* yx, a formula pred that is true when rewritten, and iff, which is xy    *)
(* when rewritten, as (= (= x y) true) is.                                 *)
EXTENDS CDProof

CONSTANTS pred, xy, yx, iff

Facts == {pred, xy, yx, iff}
SymmOfFacts == [f \in Facts |-> IF f = xy THEN yx ELSE IF f = yx THEN xy ELSE NoFact]
Rewritten == [f \in Facts |-> IF f = pred THEN NoFact ELSE xy]
ClientSteps == {<<xy, <<pred>>>>, <<iff, <<yx, xy>>>>}
AssertedLiterals == {pred, xy, iff}
AskedFacts == {xy, yx, iff}
ForcedFacts == {yx}
GeneratorPremises == [f \in {xy} |-> <<pred>>]

=============================================================================
