--------------------------- MODULE MCPropertyLoop ---------------------------
(***************************************************************************)
(* An instance of PropertyLoop for TLC: a file of eight units, an export   *)
(* that ends in the middle of it, with it, or (unchecked without a linker) *)
(* behind it; both tag layouts.                                            *)
(***************************************************************************)
EXTENDS PropertyLoop

SizeField == -1..6
InFile == {5, 8, 9}
LongTags == {2, 3}
Tails == {1, 2}
BothLayouts == {"legacy", "full"}
=============================================================================
