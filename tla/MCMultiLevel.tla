---------------------------- MODULE MCMultiLevel ----------------------------
(* MultiLevel with a file that reaches into the triple indirect block and  *)
(* one of a few blocks that takes blocks from between its blocks.          *)
EXTENDS MultiLevel

MCLayers  == <<1, 2, 1, 1>>
MCMaxSize == [f \in Files |-> IF f = 1 THEN 2 * 27 ELSE 3]

=============================================================================
