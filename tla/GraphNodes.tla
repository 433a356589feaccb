------------------------------ MODULE GraphNodes ------------------------------
(***************************************************************************)
(* The graphs of a blueprint and their nodes, read from the export table:  *)
(* which exports become nodes of which graph, which graphs are read inside *)
(* others, and what a node's class reads behind its pins.                  *)
(*                                                                         *)
(* An export is [outer, class, fails, nodes, subs, refs]: "fails" for a    *)
(* node that cannot be read, "nodes" and "subs" for the graph's properties *)
(* of these names, "refs" for the graphs an animation node refers to.      *)
(***************************************************************************)
EXTENDS GraphPins

CONSTANTS MaxNodes,      \* MAX_NODES_PER_GRAPH
          MaxSubgraphs   \* MAX_SUBGRAPHS

Upto(s, n) == SubSeq(s, 1, Min({Len(s), n}))
\* _extract_graph_properties keeps the positive indexes.
GraphProperty(s) == SelectSeq(s, LAMBDA i : i > 0)
IsGraphClass(X, i) == X[i].class = "Graph"

\* The nodes of graph g: the listed ones that can be read, and the other
\* exports inside it whose class is a node's, read or as a placeholder.
Listed(X, g) ==
  LET some == SelectSeq(Upto(GraphProperty(X[g].nodes), MaxNodes), LAMBDA i : i \in DOMAIN X /\ ~X[i].fails)
  IN [k \in DOMAIN some |-> [export |-> some[k], placeholder |-> FALSE]]
InnerTwice(X, g) ==              \* without the look at what is collected
  SetToSortSeq({i \in DOMAIN X : X[i].outer = g /\ X[i].class = "Node"}, <)
Inner(X, g) ==
  SetToSortSeq({i \in DOMAIN X : /\ X[i].outer = g /\ X[i].class = "Node"
                                 /\ \A k \in DOMAIN Listed(X, g) : Listed(X, g)[k].export # i}, <)
GraphNodesOf(X, g) ==
  Listed(X, g) \o [k \in DOMAIN Inner(X, g) |-> [export |-> Inner(X, g)[k], placeholder |-> X[Inner(X, g)[k]].fails]]

\* read_ue_graph: the graphs of the property SubGraphs, cut to the limit before the
\* positive ones are kept, then those the nodes refer to, each unless it was read
\* under the same root.
RECURSIVE ReadGraph(_, _, _)
ReadGraph(X, g, parsed) ==
  LET nodes == GraphNodesOf(X, g)
      referred == FlattenSeq([k \in DOMAIN nodes |-> IF nodes[k].placeholder THEN <<>> ELSE X[nodes[k].export].refs])
      Follow(r, i) ==
        IF i \notin DOMAIN X \/ i \in r.parsed \/ ~IsGraphClass(X, i) THEN r
        ELSE LET sub == ReadGraph(X, i, r.parsed)
             IN [parsed |-> sub.parsed, trees |-> r.trees \o sub.trees]
  IN FoldLeft(Follow, [parsed |-> parsed \cup {g}, trees |-> <<[graph |-> g, nodes |-> nodes]>>],
              GraphProperty(Upto(X[g].subs, MaxSubgraphs)) \o referred)
ReadUeGraph(X, g) == ReadGraph(X, g, {}).trees

\* extract_blueprint_graphs reads every graph whose data lies in the file, and
\* nothing of a cooked package.
InFile(x, size) == x.size = 0 \/ (x.offset > 0 /\ x.size > 0 /\ x.offset + x.size <= size)
ExtractBlueprintGraphs(X, places, size, cooked) ==
  IF cooked THEN <<>>
  ELSE LET roots == SelectSeq([i \in DOMAIN X |-> i], LAMBDA i : IsGraphClass(X, i) /\ InFile(places[i], size))
       IN [k \in DOMAIN roots |-> ReadUeGraph(X, roots[k])]

\* Below a root, each graph that can be reached along SubGraphs and the nodes'
\* references is read once, though the references may form cycles.
RECURSIVE Reach(_, _)
Reach(X, S) ==
  LET Next(g) ==
        ToSet(GraphProperty(Upto(X[g].subs, MaxSubgraphs)))
          \cup UNION {ToSet(X[n.export].refs) : n \in {m \in ToSet(GraphNodesOf(X, g)) : ~m.placeholder}}
      more == S \cup {i \in UNION {Next(g) : g \in S} : i \in DOMAIN X /\ IsGraphClass(X, i)}
  IN IF more = S THEN S ELSE Reach(X, more)
GraphsReadOnce(X) ==
  \A last \in 1..2 :      \* the package is cut off in front of its last export, or is not
    LET places == [i \in DOMAIN X |-> [offset |-> i, size |-> 1]]
        roots == ExtractBlueprintGraphs(X, places, Len(X) + last - 1, FALSE)
        whole == {i \in DOMAIN X : IsGraphClass(X, i) /\ i < Len(X) + last - 1}
    IN /\ Len(roots) = Cardinality(whole) /\ {roots[k][1].graph : k \in DOMAIN roots} = whole
       /\ \A r \in DOMAIN roots :
            LET trees == roots[r]
            IN /\ {trees[k].graph : k \in DOMAIN trees} = Reach(X, {trees[1].graph})
               /\ Len(trees) = Cardinality(Reach(X, {trees[1].graph}))

\* Every node inside a graph is one of its nodes exactly once, a node that
\* cannot be read too, as long as the graph does not list one twice.
EveryNodeOnce(X) ==
  \A g \in {i \in DOMAIN X : IsGraphClass(X, i) /\ IsInjective(X[i].nodes)} :
    LET nodes == GraphNodesOf(X, g)
    IN /\ \A i \in {i \in DOMAIN X : X[i].outer = g /\ X[i].class = "Node"} :
            Cardinality({k \in DOMAIN nodes : nodes[k].export = i}) = 1
       /\ \A k \in DOMAIN nodes : nodes[k].placeholder => X[nodes[k].export].fails

-----------------------------------------------------------------------------
(* One node.  It is [class, control, tags, pins]: a tag is [name, size],    *)
(* and "bad" is a tag that cannot be read.                                  *)

NeedsSize == {"NodeGuid", "NodeComment", "InputAction", "FunctionReference", "EventReference", "NodeDetails", "FunctionFlags"}
\* A member reference whose inner tag overruns it, and a text of an unknown
\* history, refuse the node.
Overruns(tag) == tag.name \in {"FunctionReference", "EventReference", "NodeDetails"} /\ tag.size > MaxText

\* _read_node_script_serial: the tags up to the first that ends them.
ReadScript(node) ==
  LET ends == {k \in DOMAIN node.tags : node.tags[k].name \in {"None", "bad"}}
      read == IF node.control > 3 THEN <<>>
              ELSE SubSeq(node.tags, 1, IF ends = {} THEN Len(node.tags) ELSE Min(ends) - 1)
  IN [refused |-> \E k \in DOMAIN read : Overruns(read[k]),
      given |-> {read[k].name : k \in {j \in DOMAIN read : read[j].name \in NeedsSize => read[j].size > 0}}]

\* read_fmember_reference: the parent, a string, the name, a guid, two flags.
MemberReference(w, at) == Skip(w, FStringSafe(w, Skip(w, at, 1)), 1 + GuidWords + 2)

\* create_node_from_archive: what the handler of a class reads from where the
\* pins end, for what no tag gave.
Handled(w, at, class, given) ==
  CASE class = "K2Node_CallFunction" -> Skip(w, IF "FunctionReference" \in given THEN at ELSE MemberReference(w, at), 1)
    [] class = "K2Node_Event" ->
         LET here == IF "EventReference" \in given THEN at ELSE MemberReference(w, at)
         IN IF "bOverrideFunction" \in given THEN here ELSE Skip(w, here, 1)
    [] class = "K2Node_EnhancedInputAction" -> IF "InputAction" \in given THEN at ELSE FStringSafe(w, at)
    [] class \in {"K2Node_Message", "K2Node_CallDelegate"} -> Skip(w, at, 1)
    [] OTHER -> at

\* read_ue_graph_node, for a node whose pins start the words w.
BehindPins(w, node, script, pins) ==
  LET end == Handled(w, pins.at, node.class, script.given)
      lost == [at |-> Refused, pins |-> <<>>]
  IN IF script.refused \/ pins.at = Refused \/ end = Refused THEN lost ELSE [at |-> end, pins |-> pins.pins]
ReadNode(w, node) == BehindPins(w, node, ReadScript(node), ReadNodePins(w))

\* The pins of a node are those written, whatever its tags say and whatever
\* follows; a node whose tags give what its class needs ends with its pins.
NodeKeepsItsPins(w, node, tail) ==
  LET needs == IF node.class = "K2Node_Event" THEN {"EventReference", "bOverrideFunction"} ELSE {}
  IN \A r \in {ReadNode(w \o tail, node)} : r.at # Refused =>
       /\ r.pins = ReadNodePins(w).pins /\ r.at >= Len(w) + 1
       /\ node.class \in {"K2Node_Knot", "K2Node_Event"} /\ needs \subseteq ReadScript(node).given => r.at = Len(w) + 1
===============================================================================
