----------------------------- MODULE MCBlueprint -----------------------------
(***************************************************************************)
(* The pure algorithms of the Blueprint side on every small input: control *)
(* flow of scripts, reading of bytecode, graphs on disk, and the flow      *)
(* through them.                                                           *)
(***************************************************************************)
EXTENDS ReaderCases, SequencesExt, FiniteSets, TLC

Bytecode == INSTANCE KismetBytecode WITH MaxDepth <- 3, MaxUnknown <- 2, MaxAttempts <- 2, MaxCandidate <- 5
Nodes == INSTANCE GraphNodes WITH MaxLinks <- 2, MaxPins <- 2, MaxRecovered <- 2, Window <- 3, Scan <- 5, MaxOwner <- 4,
                                  MaxString <- 3, MaxText <- 20, GuidWords <- 1, MaxNodes <- 2, MaxSubgraphs <- 2
Graph == INSTANCE GraphFlow WITH MaxSteps <- 3, MaxKnots <- 3, MaxVisited <- 2

Words(A, n) == UNION {[1..k -> A] : k \in 1..n}

-----------------------------------------------------------------------------
(* Scripts of at most three statements, and those of four that do nothing   *)
(* but jump: <<ifnot 4, jump 3, jump 2, jump 3>> is the smallest whose       *)
(* dominators are not those that the first round finds.                     *)

Statements(n) ==
  [op : {"stmt", "let", "pop", "end", "popif", "switch"}, to : {0}] \cup [op : {"jump", "ifnot", "skip", "push"}, to : 0..n]
Jumps(n) == [op : {"jump", "ifnot"}, to : 1..n] \cup [op : {"end"}, to : {0}]
Script ==
  \/ \E n \in 1..3 : \E s \in [1..n -> Statements(n)] : c' = [p |-> "script", s |-> s]
  \/ \E s \in [1..4 -> Jumps(4)] : c' = [p |-> "script", s |-> s]

(* One expression of each kind of operands over a few cells, and code of    *)
(* five cells to search and to cut.                                         *)
Shapes == {"EX_JumpIfNot", "EX_Let", "EX_Cast", "EX_SetArray", "EX_Context", "EX_BindDelegate", "EX_FinalFunction",
           "EX_VirtualFunction", "EX_SwitchValue", "EX_TextConst", "EX_UnicodeStringConst", "EX_InstrumentationEvent",
           "EX_AutoRtfmTransact", "EX_AutoRtfmStopTransact", "EX_StructConst", "EX_Return"}
EndOf(op) ==
  LET kinds == Bytecode!Operands[op]
  IN IF kinds # <<>> /\ Last(kinds) \in DOMAIN Bytecode!Operands THEN Last(kinds) ELSE "EX_IntConst"
Stream ==
  \E op \in Shapes : \E w \in Words({op, "EX_Self", "junk", EndOf(op)}, 4) :
    c' = [p |-> "stream", s |-> <<op>> \o w]
Search == \E s \in [1..5 -> {"EX_Return", "EX_Self", "EX_EndOfScript", "EX_FinalFunction", "EX_EndFunctionParms"}] :
            c' = [p |-> "search", s |-> s]
Cooked == \E d \in Words(-1..3, 5) : c' = [p |-> "cooked", d |-> d]

-----------------------------------------------------------------------------
(* Pins: one of each kind, and an owner with one inside; words that stand   *)
(* where a count was expected.                                              *)

OnePin == [text : {"none", "culture", "base", "format"}, tip : {0, -2, 1}, map : BOOLEAN,
           links : SeqOf({2, Nodes!Null}, 2), subs : SeqOf({3, Nodes!Null}, 1), parent : {Nodes!Null, 1}]
PlainPin == [text |-> "none", tip |-> 0, map |-> FALSE, links |-> <<2>>, subs |-> <<>>, parent |-> Nodes!Null]
Pins ==
  \/ \E q \in OnePin : c' = [p |-> "pins", ps |-> <<q>>]
  \/ \E q \in OnePin : q.tip = 0 /\ q.text # "base" /\ c' = [p |-> "pins", ps |-> <<[q EXCEPT !.tip = 1], q>>]
Counts == \E n \in 2..5 : \E w \in [1..n -> {-1, 0, 1, 2, 9}] : c' = [p |-> "counts", w |-> w]

(* Packages of a graph, an export inside it and a third one; nodes with up  *)
(* to two tags.                                                             *)
GraphExport(ns, ss) == [outer : 0..1, class : {"Graph"}, fails : {FALSE}, nodes : {<<0>>} \cup SeqOf(ns, 2), subs : SeqOf(ss, 1), refs : {<<>>}]
NodeExport == [outer : 0..2, class : {"Node"}, fails : BOOLEAN, nodes : {<<>>}, subs : {<<>>}, refs : SeqOf(1..3, 1)]
Package ==
  \E root \in {g \in GraphExport(1..3, 1..3) : g.outer = 0} :
    \E inner \in NodeExport \cup GraphExport({3}, 1..3) : inner.outer = 1 /\
      \E other \in NodeExport \cup GraphExport({}, {1}) : c' = [p |-> "package", X |-> <<root, inner, other>>]
Tags == SeqOf([name : {"None", "bad", "EventReference", "bOverrideFunction", "NodeDetails"}, size : {0, 1, 99}], 2)
Classes == {"K2Node_CallFunction", "K2Node_Event", "K2Node_EnhancedInputAction", "K2Node_Message", "K2Node_Knot"}
GraphNode ==
  \E class \in Classes, control \in {0, 4}, tags \in Tags, n \in 0..2 :
    (control = 4 => Len(tags) < 2) /\ c' = [p |-> "node", w |-> Nodes!NodeWords([i \in 1..n |-> PlainPin]),
          node |-> [class |-> class, control |-> control, tags |-> tags]]

-----------------------------------------------------------------------------
(* Graphs of three nodes with one exec or one data link each, wires from a  *)
(* node to itself and to no pin too; macros that call each other; adjacency *)
(* for the searches.                                                        *)

Pin(id, name, out, exec, links) == [id |-> id, name |-> name, out |-> out, exec |-> exec, links |-> links]
ExecNode(i, class, guid, to) ==
  [class |-> class, guid |-> guid, pins |->
    <<Pin(10 * i + 1, IF class = "knot" THEN "InputPin" ELSE "execute", FALSE, TRUE, <<>>),
      Pin(10 * i + 2, IF class = "knot" THEN "OutputPin" ELSE "then", TRUE, TRUE,
          IF to = 0 THEN <<>> ELSE IF to = 4 THEN <<99, 11>> ELSE <<10 * to + 1>>)>>]
Exec ==
  \E k \in {<<"event", "call", "call">>, <<"event", "knot", "call">>, <<"event", "knot", "knot">>,
            <<"event", "branch", "call">>, <<"input", "call", "knot">>}, t \in [1..3 -> 0..4],
     guids \in {<<1, 2, 3>>, <<1, 2, 2>>, <<0, 0, 3>>} :
    (guids = <<1, 2, 3>> \/ k[3] # "knot") /\ (4 \in {t[2], t[3]} => t[1] = 2) /\ c' = [p |-> "exec", g |-> [i \in 1..3 |-> ExecNode(i, k[i], guids[i], t[i])]]
DataNode(i, class, from) ==
  [class |-> class, guid |-> i, pins |->
    <<Pin(10 * i + 1, IF class = "knot" THEN "InputPin" ELSE "A", FALSE, FALSE,
          IF from = 0 THEN <<>> ELSE IF from < 0 THEN <<from>> ELSE <<10 * from + 2>>),
      Pin(10 * i + 2, IF class = "knot" THEN "OutputPin" ELSE "A", TRUE, FALSE, <<>>)>>]
Data == \E k \in [1..3 -> {"call", "knot", "entry"}], t \in [1..3 -> -1..3] :
          c' = [p |-> "data", g |-> [i \in 1..3 |-> DataNode(i, k[i], t[i])]]
Calls(n) == SeqOf([guid : 0..2, name : {"a", "b", "ForLoop"}], n)
Macros == \E x \in Calls(2), y \in Calls(1) : c' = [p |-> "macros", g |-> <<[guid |-> 1, name |-> "a", calls |-> x],
                                                            [guid |-> 2, name |-> "b", calls |-> y]>>]
Walks == \E next \in [1..3 -> SeqOf(1..3, 2)] : c' = [p |-> "walks", next |-> next]

(* A macro of four inner nodes, of which two may be exits instead, with     *)
(* links as a caller of the builder may write them and as the reader does.  *)
Links(key, to) == [n \in DOMAIN to |-> [key |-> key, to |-> to[n]]]
Inner(keys) ==
  \E k \in keys, first \in SeqOf(2..4, 2), others \in [2..4 -> SeqOf(1..4, 1)], entry \in {<<1>>, <<9>>, <<3, 1>>} :
    c' = [p |-> "inner", entry |-> Links(k[1], entry),
          next |-> [i \in 1..4 |-> Links(k[2], IF i = 1 THEN first ELSE others[i])]]
ReaderLinks == {<<"pin_guid", "pin_guid">>}
WrittenLinks == {<<"string", "pin_id">>, <<"pin_id", "string">>}

BlueprintParts ==
  {"script", "stream", "search", "cooked", "pins", "counts", "package", "node", "exec", "data", "macros", "walks", "inner"}
PickBlueprint ==
  \/ Picking("script") /\ Script
  \/ Picking("stream") /\ Stream
  \/ Picking("search") /\ Search
  \/ Picking("cooked") /\ Cooked
  \/ Picking("pins") /\ Pins
  \/ Picking("counts") /\ Counts
  \/ Picking("package") /\ Package
  \/ Picking("node") /\ GraphNode
  \/ Picking("exec") /\ Exec
  \/ Picking("data") /\ Data
  \/ Picking("macros") /\ Macros
  \/ Picking("walks") /\ Walks
  \/ Picking("inner") /\ Inner(WrittenLinks)

-----------------------------------------------------------------------------
(* What holds of every case.                                                *)

\* The dominators, their frontiers and the loops of a script's flow graph are
\* what their definitions by paths say.
FlowGraph ==
  c.p = "script" =>
    \A G \in {Bodies!BuildCFG(c.s)} : Bodies!DominanceIsRight(G) /\ Bodies!FrontierIsRight(G) /\ Bodies!LoopsAreNatural(G)
\* Expressions nest, tolerance changes no stream that is whole, and what an
\* expression takes does not depend on what follows it; the limited search for
\* code keeps the best it has looked at; the buffers cut from a class lie one
\* behind the other in its data.
BytecodeIsRead ==
  /\ c.p = "stream" => /\ \A t \in BOOLEAN : Bytecode!WellNested(c.s, t)
                       /\ Bytecode!ToleranceAddsOnly(c.s)
                       /\ \A x \in {"junk", "EX_Self"} : Bytecode!Selfdelimiting(c.s, x)
  /\ c.p = "search" => \A t \in BOOLEAN : Bytecode!ScanKeepsBest(c.s, t)
  /\ c.p = "cooked" => Bytecode!BuffersAreInOrder(c.d)
\* Every pin comes back with its links, also where data follows the list; a
\* recovered count is the best candidate of its window; under a root each
\* graph is read once, and each node in it is there once.
GraphsComeBack ==
  /\ c.p = "pins" => \A tail \in {<<>>, <<5, 0>>} : Nodes!PinsAreWhole(c.ps, tail)
  /\ c.p = "counts" => \A at \in 2..Len(c.w) : Nodes!RecoveryIsBest(c.w, at, c.w[at - 1])
  /\ c.p = "node" => \A tail \in {<<>>, <<0, 1>>, <<0, 0, 0, 0, 0, 0>>} : Nodes!NodeKeepsItsPins(c.w, c.node, tail)
  /\ c.p = "package" => Nodes!GraphsReadOnce(c.X) /\ Nodes!EveryNodeOnce(c.X)
\* Edges are the links of pins, a traced flow is a path along them that the
\* chains keep, the sources of a data pin are found through knots; macros stop
\* expanding, and the searches find the cycles and the exits.
FlowFollowsLinks ==
  /\ c.p \in {"exec", "data"} => Graph!EdgesAreLinks(c.g) /\ Graph!LinksAreAccounted(c.g)
  /\ c.p = "exec" => Graph!StartsHaveFlows(c.g)
  /\ c.p = "exec" => \A i \in DOMAIN c.g : Graph!TraceIsAPath(c.g, i) /\ Graph!ChainsKeepTheFlow(c.g, i)
  /\ c.p = "data" => \A i \in DOMAIN c.g : Graph!SourcesAreTraced(c.g, i, 1)
  /\ c.p = "macros" => \A guid \in 0..2 : Graph!MacrosEnd(c.g, [guid |-> guid, name |-> "a"])
  /\ c.p = "walks" => Graph!DfsFindsCycles(c.next)
  /\ c.p = "inner" => \A S \in SUBSET {2, 3} : Graph!InternalFlowIsReach(c.next, S, c.entry)
\* "From the exec output pins of the entry tunnels, find by linked_to_raw the
\* inner node that is connected" (macro_expander.py:421), for the links that the
\* reader of pins writes.
TunnelsHaveFlows == c.p = "inner" => \A S \in SUBSET {2, 3} : Graph!TunnelHasItsFlow(c.next, S, c.entry)
=============================================================================
