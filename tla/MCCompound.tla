------------------------------ MODULE MCCompound ------------------------------
(* An instance of Compound for TLC.                                        *)
EXTENDS Compound

(* Two sessions, the first with two trees; two files can be created in the *)
(* first tree, one in the second, none in the other session.               *)
ThreeTrees == {<<1, 1>>, <<1, 2>>, <<2, 1>>}
MCMaxFid == [t \in Trees |-> CASE t = <<1, 1>> -> 2 [] t = <<1, 2>> -> 1 [] OTHER -> 0]
=============================================================================
