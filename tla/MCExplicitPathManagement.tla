----------------------- MODULE MCExplicitPathManagement -----------------------
(* The contact is node 4.  The nodes 1 and 2 record the path to it, node 3 *)
(* has precomputed the rest.  The links of node 1 and of node 3 may fail.  *)
EXTENDS ExplicitPathManagement

MCPaths == {<<1, 2, 3, 4>>}
MCUnreliable == {<<1, 2>>, <<3, 4>>}
MCLinksOf(h) == IF h = <<1, 2>> THEN Link ELSE {1}
===============================================================================
