--------------------------- MODULE MCPizzaMirrors ---------------------------
(* Model-checking module of PizzaMirrors: requests are alike, and so are   *)
(* sizes.                                                                  *)
EXTENDS PizzaMirrors, TLC

Symmetry == Permutations(Requests) \cup Permutations(Sizes)
=============================================================================
