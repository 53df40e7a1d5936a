------------------------- MODULE MCAgreementProcess -------------------------
(* Two agreements of one consumer with an e-service of two descriptors:      *)
(* the first asks for a declared attribute and is approved by the producer,  *)
(* the second asks for a certified and a verified one and is                 *)
(* approved automatically.                                                   *)
EXTENDS AgreementProcess, TLC

CONSTANTS a1, a2

MCAgreements == {a1, a2}
MCRequires == [d \in {1, 2} |-> IF d = 1 THEN {"declared"}
                                ELSE {"certified", "verified"}]
Symmetry == Permutations(MCAgreements)
=============================================================================
