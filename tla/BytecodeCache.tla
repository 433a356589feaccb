----------------------------- MODULE BytecodeCache -----------------------------
(***************************************************************************)
(* The fallback table of bytecode_extractor.py: functions of a cooked      *)
(* blueprint have no bytecode of their own, so the buffers of its class    *)
(* are taken out once, kept in a module variable under the names of the    *)
(* functions, and looked up there for the functions that follow.  The      *)
(* variable outlives the asset: only the start of the next one resets it.  *)
(*                                                                         *)
(* Bytecode is <<asset, i>>, the i-th function's or buffer's of an asset.  *)
(***************************************************************************)
EXTENDS Integers

CONSTANTS Assets,
          Count,        \* functions of an asset
          Names, NameOf,   \* of its functions, by <<asset, i>>; two may share one
          MaxRetries,   \* _BPGC_MAX_RETRIES
          NoCode

ASSUME CacheAssumption ==
  /\ Count \in Nat /\ MaxRetries \in Nat \ {0}
  /\ NameOf \in [Assets \X (1..Count) -> Names]
  /\ NoCode \notin Assets \X (1..Count)

VARIABLES asset,      \* the asset whose functions are decompiled
          next,       \* the function of export_map that comes next
          answer,     \* what extract_bytecode_bytes gave for each
          cached,     \* whether _bpgc_bytecode_cache is a table
          table,      \* its entries, NoCode where it has none
          retries     \* _bpgc_cache_retries

cache == <<cached, table, retries>>
vars == <<asset, next, answer, cached, table, retries>>

Code == Assets \X (1..Count)
Answers == Code \cup {NoCode}
NoTable == [n \in Names |-> NoCode]

\* Variant: the next asset starts with the table of the one before.
BeginStale(a) ==
  /\ asset' = a
  /\ next' = 1
  /\ answer' = [i \in 1..Count |-> NoCode]
  /\ UNCHANGED <<cached, table, retries>>

\* decompile_uasset, or the post-processing of a parse: the table is dropped,
\* wherever the asset before has stopped.
Begin(a) ==
  /\ asset' = a
  /\ next' = 1
  /\ answer' = [i \in 1..Count |-> NoCode]
  /\ cached' = "no"
  /\ table' = NoTable
  /\ retries' = 0

Init == \E a \in Assets :
  /\ asset = a
  /\ next = 1
  /\ answer = [i \in 1..Count |-> NoCode]
  /\ cached = "no"
  /\ table = NoTable
  /\ retries = 0

\* extract_and_parse for the next function.
Answer(c) ==
  /\ next <= Count
  /\ answer' = [answer EXCEPT ![next] = c]
  /\ next' = next + 1
  /\ UNCHANGED asset

\* The function has a script, or the scan of its own region finds one.
Own == {<<asset, next>>, NoCode}
FunctionExport == Answer(<<asset, next>>) /\ UNCHANGED cache

\* The header of the function, or the class's, raises: nothing is counted.
Refused == Answer(NoCode) /\ UNCHANGED cache

\* A name that is not in the table leaves the scan.
LookUp(t) ==
  /\ next <= Count
  /\ LET found == t[NameOf[<<asset, next>>]]
     IN \E c \in IF found # NoCode THEN {found} ELSE Own : Answer(c)

CacheHit ==
  /\ cached = "yes"
  /\ LookUp(table)
  /\ UNCHANGED cache

\* map_bytecode_to_functions: buffer i under the name of function i, and the
\* later of two functions with one name keeps it.
TableOf(a, n) ==
  [name \in Names |->
     IF \E i \in 1..n : NameOf[<<a, i>>] = name
     THEN <<a, CHOOSE i \in 1..n : /\ NameOf[<<a, i>>] = name
                                   /\ \A j \in 1..n : NameOf[<<a, j>>] = name => j <= i>>
     ELSE NoCode]

Extract ==
  /\ cached = "no"
  /\ \E n \in 0..Count :
       /\ table' = TableOf(asset, n)
       /\ LookUp(TableOf(asset, n))
  /\ cached' = "yes"
  /\ retries' = 0

\* Variant: failures are counted and never end in an empty table.
FailAgain ==
  /\ cached = "no"
  /\ \E c \in Own : Answer(c)
  /\ retries' = retries + 1
  /\ UNCHANGED <<cached, table>>

\* No class, no buffers or an error of the file: another try for the next
\* function, up to the limit, then an empty table for all of them.
Fail ==
  /\ cached = "no"
  /\ \E c \in Own : Answer(c)
  /\ retries' = retries + 1
  /\ cached' = IF retries + 1 >= MaxRetries THEN "yes" ELSE "no"
  /\ UNCHANGED table

Next == \/ \E a \in Assets : Begin(a)
        \/ FunctionExport
        \/ Refused
        \/ CacheHit
        \/ Extract
        \/ Fail

Spec == Init /\ [][Next]_vars

-----------------------------------------------------------------------------
CacheTypeOK ==
  /\ asset \in Assets
  /\ next \in 1..Count + 1
  /\ answer \in [1..Count -> Answers]
  /\ cached \in {"yes", "no"}
  /\ table \in [Names -> Answers]
  /\ retries \in Nat

\* A function never gets the bytecode of another asset, nor of a function with
\* another name, however the functions of the assets before ended and whatever
\* they left in the table.
OwnBytecode ==
  \A i \in 1..Count : answer[i] # NoCode =>
    /\ answer[i][1] = asset
    /\ NameOf[answer[i]] = NameOf[<<asset, i>>]

\* The class of an asset is given up after MaxRetries counted failures: as long
\* as there is no table another try is left.
RetriesBounded == cached = "no" => retries < MaxRetries
=============================================================================
