--------------------------- MODULE MCBatchDriver ---------------------------
(***************************************************************************)
(* Instances of BatchDriver for TLC: four assets, on the edges of the      *)
(* size tiers, two of them with the same file name in two directories.     *)
(***************************************************************************)
EXTENDS BatchDriver

FourPaths == <<"a/hero", "a/map", "b/hero", "c/tree">>
Names == [p \in Sources |-> IF p = "a/map" THEN "map.json"
                            ELSE IF p = "c/tree" THEN "tree.json" ELSE "hero.json"]
Sizes == [p \in Sources |-> CASE p = "a/hero" -> 20 [] p = "a/map" -> 101
                              [] p = "b/hero" -> 50 [] OTHER -> 51]
AllModes == {"true", "false", "auto"}
AllFailing == {"parse", "mkstemp", "write", "replace", "worker", "interrupt"}
=============================================================================
