------------------------------ MODULE MCSessions ------------------------------
(***************************************************************************)
(* An instance of Sessions for TLC.  As the parts share no state, what one *)
(* may do is seen while the others rest: a behaviour is of one, the part.  *)
(***************************************************************************)
EXTENDS Sessions

VARIABLE part

\* Three functions, of which the first and the last have one name in "a" and
\* different ones in "b".
MCNameOf == [x \in {"a", "b"} \X (1..3) |-> IF x[2] = 2 THEN "g" ELSE IF x[1] = "a" \/ x[2] = 1 THEN "f" ELSE "h"]
MCSizes == 1..3
MCCanHandle == [mesh |-> {"Mesh"}, any |-> {"Mesh", "Curve"}]

\* Three logs, the oldest with a rotation; the newest is not the one written.
MCLogs == 1..4
MCFamilyOf == <<"old", "old", "own", "new">>
MCMtime == <<1, 3, 2, 4>>
MCSize == <<1, 2, 2, 1>>
MCOff == -1
MCKeeps == {0, 2, MCOff}
MCCutoffs == {4, 5, MCOff}
MCTotals == {0, 2, 4, MCOff}

MCInit ==
  /\ part \in {"bytecode", "guards", "registry", "listing", "cleanup"}
  /\ SessionsInit
  /\ part # "bytecode" => asset = "a"
  /\ part # "cleanup" => dir = {} /\ keep = Off /\ cutoff = Off /\ limit = Off

MCNext ==
  /\ UNCHANGED part
  /\ \/ part = "bytecode" /\ BytecodeStep
     \/ part = "guards" /\ GuardsStep
     \/ part = "registry" /\ RegistryStep
     \/ part = "listing" /\ ListingStep
     \/ part = "cleanup" /\ CleanupStep
=============================================================================
