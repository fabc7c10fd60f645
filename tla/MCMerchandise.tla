--------------------------- MODULE MCMerchandise ----------------------------
(* Small instances of the supplies shop for TLC. *)
EXTENDS Merchandise

OneOfEach == [p \in Product |-> 1]
SingleBaskets == {OneOfEach}
=============================================================================
