------------------------------ MODULE GraphFlow ------------------------------
(***************************************************************************)
(* What is read off a Blueprint graph: its edges, the execution flow from  *)
(* each start event and its chains, the sources of a pin's data, and the   *)
(* expansion of macros.                                                    *)
(*                                                                         *)
(* A graph is a sequence of nodes [class, guid, pins]; guid 0 is None, and *)
(* guids may be given twice.  A pin is [id, name, out, exec, links]: a     *)
(* link is the id of a pin, or -k for a reference that only names node k   *)
(* as the owner of a pin nobody knows.                                     *)
(***************************************************************************)
EXTENDS Integers, SequencesExt

CONSTANTS MaxSteps,   \* _MAX_EXEC_STEPS (500)
          MaxKnots,   \* depth of a chain of reroute nodes (20)
          MaxVisited  \* nodes of a macro's flow behind which no more are looked for (200)

Starts == {"event", "input", "set", "entry"}
Boundaries == {"entry", "set"}
Stops == {"branch"}     \* CONTROL_FLOW_NODES without macros

\* The indexes: where two entries have one key, the later one stays.
LastIn(S) == IF S = {} THEN 0 ELSE Max(S)
NodeOf(g, guid) == LastIn({i \in DOMAIN g : g[i].guid = guid})
Places(g) == UNION {{i} \X DOMAIN g[i].pins : i \in DOMAIN g}
PinOf(g, id) ==
  LET here == {q \in Places(g) : g[q[1]].pins[q[2]].id = id}
  IN IF here = {} THEN <<>> ELSE CHOOSE q \in here : \A r \in here : r[1] < q[1] \/ (r[1] = q[1] /\ r[2] <= q[2])

-----------------------------------------------------------------------------
(* _iter_normalized_edges: every link once, from the output to the input.   *)

\* The pin that a synthetic edge into an exec pin leaves by.
SyntheticName(source) ==
  CASE source.class = "event" -> "then" [] source.class = "input" -> "Triggered" [] OTHER -> "Output"

\* A pin id that is not one: node and name stand in for it.
Stand(g, i, name) == 100 * i + (CHOOSE n \in 1..9 : name = <<"then", "Triggered", "Output">>[n])

Wire(g, i, p, j, q) ==
  [from |-> g[i].guid, fromPin |-> p.name, fromId |-> p.id,
   to |-> g[j].guid, toPin |-> q.name, toId |-> q.id, exec |-> p.exec \/ q.exec]

\* The edge a link of pin k of node i stands for, as a sequence of none or one.
LinkEdge(g, i, k, ref) ==
  LET pin == g[i].pins[k]
      at == PinOf(g, ref)
      other == g[at[1]].pins[at[2]]
      j == NodeOf(g, g[at[1]].guid)
      name == IF pin.exec THEN SyntheticName(g[-ref]) ELSE "Output"
      given == SelectSeq(g[-ref].pins, LAMBDA p : p.name = name)
      source == IF given # <<>> THEN given[1] ELSE [id |-> Stand(g, -ref, name), name |-> name, exec |-> pin.exec]
  IN CASE at # <<>> /\ pin.out /\ ~other.out -> <<Wire(g, i, pin, j, other)>>
       [] at # <<>> /\ ~pin.out /\ other.out -> <<Wire(g, j, other, i, pin)>>
       [] at = <<>> /\ ~pin.out /\ ref < 0 /\ -ref \in DOMAIN g -> <<Wire(g, -ref, source, i, pin)>>
       [] OTHER -> <<>>

Key(e) == <<e.from, e.fromPin, e.to, e.toPin>>
Edges(g) ==
  LET OfPin(i, k) == FlattenSeq([m \in DOMAIN g[i].pins[k].links |-> LinkEdge(g, i, k, g[i].pins[k].links[m])])
      all == FlattenSeq([i \in DOMAIN g |-> FlattenSeq([k \in DOMAIN g[i].pins |-> OfPin(i, k)])])
  IN FoldLeft(LAMBDA seen, e : IF \E d \in ToSet(seen) : Key(d) = Key(e) THEN seen ELSE Append(seen, e), <<>>, all)

\* build_connections_map: the edges, and a warning entry for every link of an
\* output pin to a pin nobody knows.
Connections(g) ==
  LET Lost(i, k) == SelectSeq(g[i].pins[k].links, LAMBDA ref : ref > 0 /\ PinOf(g, ref) = <<>> /\ g[i].pins[k].out)
  IN [edges |-> Edges(g), lost |-> FoldSet(LAMBDA q, n : n + Len(Lost(q[1], q[2])), 0, Places(g))]

\* build_data_flows, with the pins of function calls that take their value
\* from a parameter of the same name.
DataFlows(g) ==
  LET entry == SelectSeq(g, LAMBDA n : n.class = "entry")
      given == IF entry = <<>> THEN {} ELSE {p.name : p \in {q \in ToSet(entry[1].pins) : q.out /\ ~q.exec}}
      Takes(q) == LET pin == g[q[1]].pins[q[2]]
                  IN g[q[1]].class = "call" /\ ~pin.out /\ ~pin.exec /\ pin.name \in given /\ pin.links = <<>>
  IN [wired |-> SelectSeq(Edges(g), LAMBDA e : ~e.exec), implied |-> {q \in Places(g) : Takes(q)}]

-----------------------------------------------------------------------------
(* The execution flow.                                                      *)

\* _find_next_exec_node: by the first output that leads anywhere.
NextExec(g, E, i) ==
  LET outs == SelectSeq(g[i].pins, LAMBDA p : p.out /\ p.exec)
      Wired(p) == SelectSeq(E, LAMBDA e : e.fromId = p.id)
      Linked(p) == SelectSeq(p.links, LAMBDA ref : PinOf(g, ref) # <<>>)
      live == SelectSeq(outs, LAMBDA p : Wired(p) # <<>> \/ Linked(p) # <<>>)
      \* edges in the order of their groups by pin id
      First(id) == Min({n \in DOMAIN E : E[n].fromId = id})
      own == {n \in DOMAIN E : E[n].from = g[i].guid /\ E[n].exec}
      other == CHOOSE n \in own : \A m \in own : <<First(E[n].fromId), n>> = <<First(E[m].fromId), m>>
                                                   \/ First(E[n].fromId) < First(E[m].fromId)
                                                   \/ (First(E[n].fromId) = First(E[m].fromId) /\ n <= m)
  IN CASE live # <<>> -> IF Wired(live[1]) # <<>> THEN NodeOf(g, Wired(live[1])[1].to)
                         ELSE NodeOf(g, g[PinOf(g, Linked(live[1])[1])[1]].guid)
       [] live = <<>> -> IF own = {} THEN 0 ELSE NodeOf(g, E[other].to)

\* Variant: a node seen before is not looked for.
RECURSIVE TraceOn(_, _, _, _)
TraceOn(g, E, i, w) ==
  IF i = 0 THEN w.flow
  ELSE IF Len(w.flow) = MaxSteps THEN Append(w.flow, [node |-> 0, mark |-> "max"])
  ELSE TraceOn(g, E, NextExec(g, E, i), [w EXCEPT !.flow = Append(@, [node |-> i, mark |-> "node"])])

\* _trace_execution_from_event.  Nodes are known by guid, or by identity where
\* there is none; an entry that closes a cycle, a branch, or the limit is last.
RECURSIVE Trace(_, _, _, _)
Trace(g, E, i, w) ==
  LET bare == g[i].guid = 0
      before == IF bare THEN i \in w.bare ELSE g[i].guid \in w.guids
      Mark(m) == Append(w.flow, [node |-> i, mark |-> m])
      on == [flow |-> Mark(IF bare THEN "bare" ELSE "node"), bare |-> w.bare \cup (IF bare THEN {i} ELSE {}),
             guids |-> w.guids \cup (IF bare THEN {} ELSE {g[i].guid})]
  IN IF i = 0 THEN w.flow
     ELSE IF Len(w.flow) = MaxSteps THEN Append(w.flow, [node |-> 0, mark |-> "max"])
     ELSE IF before THEN Mark("cycle")
     ELSE IF ~bare /\ g[i].class \in Stops THEN Mark("stop")
     ELSE Trace(g, E, NextExec(g, E, i), on)

Flow(g, i) == Trace(g, Edges(g), i, [flow |-> <<>>, bare |-> {}, guids |-> {}])

\* build_execution_flow_entries: an input action has a flow for every exec
\* output, also for one that only an edge names.
OfInput(g, E, i) ==
  LET outs == SelectSeq(g[i].pins, LAMBDA p : p.out /\ p.exec)
      named == {p.name : p \in ToSet(outs)}
      extra == {e.fromPin : e \in {x \in ToSet(E) : x.from = g[i].guid /\ x.exec}} \ named
      To(p) == LET wired == SelectSeq(E, LAMBDA e : e.fromId = p.id)
                   linked == SelectSeq(p.links, LAMBDA ref : PinOf(g, ref) # <<>>)
               IN CASE wired # <<>> -> NodeOf(g, wired[1].to)
                    [] wired = <<>> /\ linked # <<>> -> PinOf(g, linked[1])[1]
                    [] OTHER -> 0
      FromEdge(name) == NodeOf(g, SelectSeq(E, LAMBDA e : e.from = g[i].guid /\ e.exec /\ e.fromPin = name)[1].to)
  IN {[start |-> i, pin |-> k, first |-> To(outs[k])] : k \in DOMAIN outs}
       \cup {[start |-> i, pin |-> 0, first |-> FromEdge(name)] : name \in extra}
FlowEntries(g) ==
  LET E == Edges(g)
  IN UNION {IF g[i].class = "input" THEN OfInput(g, E, i) ELSE {[start |-> i, pin |-> 0, first |-> i]} :
              i \in {j \in DOMAIN g : g[j].class \in Starts}}

-----------------------------------------------------------------------------
(* Chains.                                                                  *)

\* _detect_cycle: depth first with three colours, over successor sequences.
RECURSIVE Dfs(_, _, _)
Dfs(next, n, st) ==
  LET Visit(w, m) ==
        IF w.found \/ m \in w.black THEN w
        ELSE IF m \in w.gray THEN [w EXCEPT !.found = TRUE] ELSE Dfs(next, m, w)
      below == FoldLeft(Visit, [st EXCEPT !.gray = @ \cup {n}], next[n])
  IN [below EXCEPT !.gray = @ \ {n}, !.black = @ \cup {n}]

DetectCycle(next) ==
  FoldLeft(LAMBDA w, n : IF w.found \/ n \in w.black THEN w ELSE Dfs(next, n, w),
           [found |-> FALSE, gray |-> {}, black |-> {}], SetToSeq(DOMAIN next)).found

\* Reroute nodes and entries without a guid are left out; a short id is the
\* place of the last node with the guid.
ValidEntries(g, flow) ==
  SelectSeq(flow, LAMBDA x : x.node # 0 /\ g[x.node].guid # 0 /\ g[x.node].class # "knot")

\* The valid entries cut behind each branch, and whether they return.
Chains(g, flow) ==
  LET valid == ValidEntries(g, flow)
      ids == [k \in DOMAIN valid |-> NodeOf(g, g[valid[k].node].guid)]
      next == [n \in ToSet(ids) |-> LET after == {k \in DOMAIN ids : ids[k] = n /\ k < Len(ids)}
                                    IN [m \in 1..Cardinality(after) |-> ids[SetToSortSeq(after, <)[m] + 1]]]
      Cut(st, k) == IF valid[k].mark # "stop" THEN st
                    ELSE [last |-> k, chains |-> Append(st.chains, SubSeq(ids, st.last + 1, k))]
      cut == FoldLeft(Cut, [last |-> 0, chains |-> <<>>], [k \in DOMAIN ids |-> k])
  IN [chains |-> IF cut.last = Len(ids) THEN cut.chains ELSE Append(cut.chains, SubSeq(ids, cut.last + 1, Len(ids))),
      hasCycle |-> DetectCycle(next)]

-----------------------------------------------------------------------------
(* Data sources.                                                            *)

\* _resolve_knot_chain: from pin to pin against the wires, for MaxKnots turns.
RECURSIVE Resolve(_, _, _, _, _)
Resolve(g, E, id, seen, turns) ==
  LET at == PinOf(g, id)
      node == NodeOf(g, g[at[1]].guid)
      ins == SelectSeq(g[node].pins, LAMBDA p : ~p.out /\ p.name = "InputPin")
      wired == SelectSeq(E, LAMBDA e : e.toId = ins[1].id)
      back == CASE ins = <<>> -> id
                [] ins # <<>> /\ wired # <<>> -> wired[1].fromId
                [] OTHER -> IF ins[1].links = <<>> THEN id ELSE ins[1].links[1]
  IN IF turns = MaxKnots \/ id \in seen \/ at = <<>> THEN [pin |-> id, ok |-> FALSE]
     ELSE IF g[node].class # "knot" THEN [pin |-> id, ok |-> TRUE]
     ELSE Resolve(g, E, back, seen \cup {id}, turns + 1)

SourceOf(g, E, ref) ==
  LET end == Resolve(g, E, ref, {}, 0)
      at == PinOf(g, end.pin)
      node == g[NodeOf(g, g[at[1]].guid)]
      name == g[at[1]].pins[at[2]].name
  IN CASE ~end.ok -> <<"knot_chain_broken">>
       [] end.ok /\ (node.class \in Boundaries \/ name \in {"self", "target"}) ->
            <<CASE node.class = "entry" -> "function_parameter"
                [] node.class # "entry" /\ name \in {"self", "target"} -> "self_reference"
                [] OTHER -> "boundary">>
       [] end.ok /\ node.class = "call" ->
            <<IF \E p \in ToSet(node.pins) : p.exec THEN "function_output" ELSE "pure_function">>
       [] OTHER -> <<>>

\* _trace_data_source: one answer for each wire into the pin.
SourcesByEdges(g, E, pin) ==
  LET wired == SelectSeq(E, LAMBDA e : e.toId = pin.id)
      refs == IF wired = <<>> THEN pin.links ELSE [n \in DOMAIN wired |-> wired[n].fromId]
  IN FlattenSeq([n \in DOMAIN refs |-> SourceOf(g, E, refs[n])])
DataSources(g, i, k) == SourcesByEdges(g, Edges(g), g[i].pins[k])

-----------------------------------------------------------------------------
(* Macros.  An asset is a sequence of graphs [guid, name, calls]: "calls"   *)
(* are the references its nodes make, [guid, name], with 0 for none.        *)

Standard == {"ForLoop"}

FindMacro(asset, ref) ==
  LET ByGuid == {m \in DOMAIN asset : ref.guid # 0 /\ asset[m].guid = ref.guid}
      ByName == {m \in DOMAIN asset : asset[m].name = ref.name}
  IN IF ByGuid # {} THEN Min(ByGuid) ELSE IF ByName # {} THEN Min(ByName) ELSE 0

\* expand_macro_instance: the guids on the stack are the ones not to be met
\* again.  "fuel" is the depth at which Python gives up.
RECURSIVE Expand(_, _, _, _)
Expand(asset, ref, open, fuel) ==
  LET m == FindMacro(asset, ref)
      inner == open \cup ({ref.guid} \ {0})
      Call(r, c) == IF r # "expanded" THEN r
                    ELSE LET below == Expand(asset, c, inner, fuel - 1)
                         IN IF below \in {"MacroCycleError", "RecursionError"} THEN below ELSE r
  IN IF m = 0 /\ ref.name \in Standard THEN "standard"
     ELSE IF ref.guid \in open THEN "MacroCycleError"
     ELSE IF m = 0 THEN "unresolved"
     ELSE IF fuel = 0 THEN "RecursionError"
     ELSE FoldLeft(Call, "expanded", asset[m].calls)

\* _try_expand_macro: of what an expansion raises it catches neither of the two,
\* which leave the flow, and the flows of the graph, to the caller; a macro with
\* the name of a standard one passes for standard, whatever was expanded.
TryExpandMacro(asset, ref, fuel) ==
  LET answer == Expand(asset, ref, {}, fuel)
  IN [raised |-> IF answer \in {"MacroCycleError", "RecursionError"} THEN answer ELSE "none",
      unresolved |-> answer = "unresolved", standard |-> ref.name \in Standard]

\* The inner nodes that links lead to: E gives the exec links of each.  A link
\* [key, to] names its pin as a string or under "pin_id"; one with the name
\* under "pin_guid", as the reader writes it, is found nowhere.
Targets(E, exits, links) ==
  SelectSeq([n \in DOMAIN links |-> IF links[n].key = "pin_guid" THEN 0 ELSE links[n].to],
            LAMBDA m : m \in DOMAIN E \ exits)

\* _build_internal_flows: breadth first, until a level has gone beyond the limit.
RECURSIVE Spread(_, _, _, _)
Spread(E, exits, seen, level) ==
  LET next == FlattenSeq([n \in DOMAIN level |-> Targets(E, exits, E[level[n]])])
      fresh == FoldLeft(LAMBDA got, m : IF m \in seen \/ Contains(got, m) THEN got ELSE Append(got, m), <<>>, next)
      all == seen \cup ToSet(fresh)
  IN CASE fresh = <<>> -> level
       [] fresh # <<>> /\ Cardinality(all) > MaxVisited -> level \o fresh
       [] OTHER -> level \o Spread(E, exits, all, fresh)

\* "entry" is the links of an exec output of an entry tunnel.
InternalFlow(E, exits, entry) ==
  LET inner == Targets(E, exits, entry)
  IN IF inner = <<>> THEN <<>> ELSE Spread(E, exits, {inner[1]}, <<inner[1]>>)

-----------------------------------------------------------------------------
(* What these must be.                                                      *)

Unambiguous(g) == \A q, r \in Places(g) : q # r =>
                    /\ g[q[1]].pins[q[2]].id # g[r[1]].pins[r[2]].id
                    /\ q[1] = r[1] => g[q[1]].pins[q[2]].name # g[r[1]].pins[r[2]].name

\* Where pins can be told apart, the edges are the pairs of an output and an
\* input of which either lists the other, each once; no link is dropped in
\* silence by the connections.
EdgesAreLinks(g) ==
  LET E == Edges(g)
      Lists(q, r) == Contains(g[q[1]].pins[q[2]].links, g[r[1]].pins[r[2]].id)
      Dir(q) == g[q[1]].pins[q[2]].out
      known == {<<q, r>> \in Places(g) \X Places(g) : Dir(q) /\ ~Dir(r) /\ (Lists(q, r) \/ Lists(r, q))}
      Id(q) == g[q[1]].pins[q[2]].id
  IN Unambiguous(g) /\ IsInjective([i \in DOMAIN g |-> g[i].guid]) =>
       /\ {<<Id(qr[1]), Id(qr[2])>> : qr \in known} \subseteq {<<e.fromId, e.toId>> : e \in ToSet(E)}
       /\ \A e \in ToSet(E) : PinOf(g, e.toId) # <<>> /\ ~Dir(PinOf(g, e.toId))
       /\ IsInjective([n \in DOMAIN E |-> <<E[n].fromId, E[n].toId>>])

\* Of the links of an output, each is an edge or counted as lost, and none is
\* both an exec and a data wire; a parameter that is implied has no wire.
LinksAreAccounted(g) ==
  LET conn == Connections(g)
      flows == DataFlows(g)
      outs == {q \in Places(g) : g[q[1]].pins[q[2]].out}
      Wires(q) == {e \in ToSet(conn.edges) : e.fromId = g[q[1]].pins[q[2]].id}
      made == FoldSet(LAMBDA q, n : n + Cardinality(Wires(q)), 0, outs)
      links == FoldSet(LAMBDA q, n : n + Len(g[q[1]].pins[q[2]].links), 0, outs)
  IN Unambiguous(g) /\ IsInjective([i \in DOMAIN g |-> g[i].guid]) =>
       /\ links <= made + conn.lost
       /\ \A e \in ToSet(conn.edges) : Contains(flows.wired, e) <=> ~e.exec
       /\ \A q \in flows.implied : \A e \in ToSet(flows.wired) : e.toId # g[q[1]].pins[q[2]].id

\* Every start has its flow; an input action's flow from a pin begins behind a
\* link of the pin, and is empty only where no link leads anywhere.
StartsHaveFlows(g) ==
  LET Outs(i) == SelectSeq(g[i].pins, LAMBDA p : p.out /\ p.exec)
      Behind(e) == {PinOf(g, ref)[1] : ref \in {r \in ToSet(Outs(e.start)[e.pin].links) : PinOf(g, r) # <<>>}}
  IN IsInjective([i \in DOMAIN g |-> g[i].guid]) => \A entries \in {FlowEntries(g)} :
       /\ \A i \in DOMAIN g : g[i].class \in Starts => \E e \in entries : e.start = i
       /\ \A e \in {x \in entries : x.pin > 0} : IF Behind(e) = {} THEN e.first = 0 ELSE e.first \in Behind(e)

\* A flow follows the exec successors without a gap; only its last entry may be
\* a cycle, a branch or the limit, a node before it is met once, and a flow
\* that is not cut short is one that has ended.
TraceIsAPath(g, i) ==
  LET Name(n) == <<g[n].guid, IF g[n].guid = 0 THEN n ELSE 0>>
  IN \A flow \in {Flow(g, i)}, E \in {Edges(g)} : LET last == flow[Len(flow)] IN
     /\ flow[1].node = i
     /\ \A k \in 1..(Len(flow) - 1) :
          /\ flow[k].mark \in {"node", "bare"}
          /\ flow[k + 1].mark # "max" => flow[k + 1].node = NextExec(g, E, flow[k].node)
     /\ \A j, k \in 1..(Len(flow) - 1) : j < k => Name(flow[j].node) # Name(flow[k].node)
     /\ last.mark = "cycle" <=> last.node # 0 /\ \E k \in 1..(Len(flow) - 1) : Name(flow[k].node) = Name(last.node)
     /\ last.mark = "max" => Len(flow) = MaxSteps + 1
     /\ last.mark \in {"node", "bare"} => NextExec(g, E, last.node) = 0

\* Cutting loses no entry and keeps the order.
ChainsKeepTheFlow(g, i) == \A flow \in {Flow(g, i)} :
  LET valid == ValidEntries(g, flow)
      cut == Chains(g, flow)
  IN /\ FlattenSeq(cut.chains) = [k \in DOMAIN valid |-> NodeOf(g, g[valid[k].node].guid)]
     /\ <<>> \notin ToSet(cut.chains) \/ valid = <<>>
     /\ cut.hasCycle => flow[Len(flow)].mark = "cycle"

\* The three colours find a cycle exactly when a node can reach itself.
RECURSIVE Closure(_, _)
Closure(next, S) ==
  LET more == S \cup UNION {ToSet(next[n]) : n \in S} IN IF more = S THEN S ELSE Closure(next, more)
DfsFindsCycles(next) == DetectCycle(next) <=> \E n \in DOMAIN next : n \in Closure(next, ToSet(next[n]))

\* Behind a link lies the pin that the links of reroute nodes lead to, however
\* the wires were made of the links; where they lead to none within the turns,
\* the chain is reported broken.
SourcesAreTraced(g, i, k) ==
  LET E == Edges(g)
      IsKnot(id) == PinOf(g, id) # <<>> /\ g[PinOf(g, id)[1]].class = "knot"
      Behind(id) == UNION {ToSet(p.links) : p \in {p \in ToSet(g[PinOf(g, id)[1]].pins) : p.name = "InputPin"}}
      \* the pins at the end of the chain, of which there is at most one
      Ends(ref) ==
       LET ids[n \in 0..(MaxKnots - 1)] == IF n = 0 THEN {ref} ELSE UNION {Behind(id) : id \in {id \in ids[n - 1] : IsKnot(id)}}
       IN {id \in UNION {ids[n] : n \in 0..(MaxKnots - 1)} : PinOf(g, id) # <<>> /\ ~IsKnot(id)}
      links == ToSet(g[i].pins[k].links)
      broken == {ref \in links : Ends(ref) = {}}
  IN /\ \A ref \in links :
          IF ref \in broken THEN SourceOf(g, E, ref) = <<"knot_chain_broken">>
          ELSE LET end == Resolve(g, E, ref, {}, 0) IN end.ok /\ Ends(ref) = {end.pin}
     /\ Contains(DataSources(g, i, k), "knot_chain_broken") <=> broken # {}

\* Every expansion ends where each graph is called by its guid, and raises
\* exactly when some call below it makes the same call again.
MacrosEnd(asset, ref) ==
  LET calls == UNION {ToSet(asset[m].calls) : m \in DOMAIN asset}
      next == [r \in calls \cup {ref} |-> IF FindMacro(asset, r) = 0 THEN <<>> ELSE asset[FindMacro(asset, r)].calls]
      Known(r) == FindMacro(asset, r) # 0 \/ r.name \notin Standard
      again == \E r \in Closure(next, {ref}) : \E q \in Closure(next, ToSet(next[r])) : q.guid = r.guid /\ Known(q)
  IN (\A r \in calls \cup {ref} : r.guid # 0) =>
        TryExpandMacro(asset, ref, 9).raised = IF again THEN "MacroCycleError" ELSE "none"

\* A macro's flow is what its entry reaches without passing an exit, each node
\* once and the nearer ones first; where it is cut it has passed the limit, with
\* the last of its levels, and that level is whole.
InternalFlowIsReach(E, exits, entry) ==
  LET inner == Targets(E, exits, entry)
      flow == InternalFlow(E, exits, entry)
      within[d \in 0..Len(E)] ==
        IF d = 0 THEN {inner[1]}
        ELSE LET near == within[d - 1] IN near \cup UNION {ToSet(Targets(E, exits, E[n])) : n \in near}
  IN IF inner = <<>> THEN flow = <<>>
     ELSE /\ IsInjective(flow)
          /\ \E d \in DOMAIN within :
               /\ ToSet(flow) = within[d] /\ (d > 0 => Cardinality(within[d - 1]) <= MaxVisited)
               /\ within[d] = within[Len(E)] \/ Len(flow) > MaxVisited
               /\ \A n \in 0..d : \E k \in DOMAIN flow : ToSet(SubSeq(flow, 1, k)) = within[n]

\* A tunnel that leads to an inner node has a flow.
TunnelHasItsFlow(E, exits, entry) ==
  (\E n \in DOMAIN entry : entry[n].to \in DOMAIN E \ exits) => InternalFlow(E, exits, entry) # <<>>
=============================================================================
