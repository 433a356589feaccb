------------------------------ MODULE KismetCFG ------------------------------
(***************************************************************************)
(* Control flow of a decoded Blueprint function (kismet/cfg): the graph of *)
(* basic blocks that build_cfg makes of a list of expressions, the         *)
(* dominator tree computed by iteration (Cooper, Harvey, Kennedy), and the *)
(* regions read off it.                                                    *)
(*                                                                         *)
(* A script is a sequence of [op, to].  "to" is the index of the statement *)
(* a CodeOffset or PushingAddress stands for, 0 when it stands for none.   *)
(* A block is named by its first statement, the synthetic sink is Len + 1. *)
(***************************************************************************)
EXTENDS Integers, Sequences, FiniteSetsExt

ToSet(seq) == {seq[i] : i \in DOMAIN seq}

\* EX_Skip has a target as the jumps have and ends no block.
HasOffset(x) == x.op \in {"jump", "ifnot", "skip"}
Resolved(x) == HasOffset(x) /\ x.to # 0
IsTerminator(x) == x.op \in {"jump", "ifnot", "end", "pop", "popif", "computed"}

Sink(s) == Len(s) + 1
Leaders(s) ==
  {1} \cup {s[i].to : i \in {j \in DOMAIN s : Resolved(s[j])}}
      \cup {i + 1 : i \in {j \in 1..(Len(s) - 1) : IsTerminator(s[j])}}
BlockEnd(s, b) == Min({l - 1 : l \in {m \in Leaders(s) : m > b}} \cup {Len(s)})

\* The successors of a block in the order the code appends them, with the
\* kind of each edge.  A conditional jump to the next statement is one edge.
EdgesOf(s, b) ==
  LET last == s[BlockEnd(s, b)]
      after == BlockEnd(s, b) + 1
      If(cond, dst, kind) == IF cond THEN <<<<dst, kind>>>> ELSE <<>>
  IN CASE last.op \in {"jump", "pop", "computed"} -> If(Resolved(last), last.to, "unconditional")
       [] last.op \in {"ifnot", "popif"} ->
            If(Resolved(last) /\ last.to # after, last.to, "conditional")
              \o If(after \in Leaders(s), after, "false_branch")
       [] last.op = "end" -> <<<<Sink(s), "unconditional">>>>
       [] OTHER -> <<<<after, "fallthrough">>>>

\* build_cfg: predecessors are appended in the order of the blocks.
Predecessors(succ, b) ==
  SelectSeq([p \in 1..Max(DOMAIN succ) |-> p], LAMBDA p : p \in DOMAIN succ /\ b \in ToSet(succ[p]))

BuildCFG(s) ==
  LET blocks == Leaders(s) \cup {Sink(s)}
      edges == [b \in blocks |-> IF b = Sink(s) THEN <<>> ELSE EdgesOf(s, b)]
      succ == [b \in blocks |-> [i \in DOMAIN edges[b] |-> edges[b][i][1]]]
  IN [blocks |-> blocks, entry |-> 1, exit |-> Sink(s), edges |-> edges, succ |-> succ,
      pred |-> [b \in blocks |-> Predecessors(succ, b)]]

-----------------------------------------------------------------------------
(* dom.py                                                                   *)

\* One recursive walk for dfs and for _visit: the blocks in the order they are
\* entered and left.  A call that goes on enters a block, so as many calls as
\* there are blocks are open at most.
DepthFirst(G) ==
  LET Walks == [pre : Seq(G.blocks), post : Seq(G.blocks)]
      dfs[depth \in 0..Cardinality(G.blocks)] ==
        [b \in G.blocks |-> [w \in Walks |->
           IF depth = 0 \/ b \in ToSet(w.pre) THEN w
           ELSE LET below[k \in 0..Len(G.succ[b])] ==
                      IF k = 0 THEN [w EXCEPT !.pre = Append(@, b)] ELSE dfs[depth - 1][G.succ[b][k]][below[k - 1]]
                IN [below[Len(G.succ[b])] EXCEPT !.post = Append(@, b)]]]
  IN dfs[Cardinality(G.blocks)][G.entry][[pre |-> <<>>, post |-> <<>>]]

ReversePostorder(G) ==
  LET post == DepthFirst(G).post IN [i \in DOMAIN post |-> post[Len(post) + 1 - i]]

\* Block 0 stands for None.  "at" is the place of a block in the order.
Intersect(at, idom, x, y) ==
  LET meet[a, b \in DOMAIN at \cup {0}] ==
        CASE a = b -> a
          [] a # b /\ 0 \in {a, b} -> 0
          [] a # b /\ 0 \notin {a, b} -> IF at[a] > at[b] THEN meet[idom[a], b] ELSE meet[a, idom[b]]
  IN meet[x, y]

\* One visit: the first predecessor that has an idom, then the others.
Improve(G, at, idom, b) ==
  LET known == SelectSeq(G.pred[b], LAMBDA p : p \in DOMAIN idom /\ idom[p] # 0)
      Meet(d, p) == LET m == Intersect(at, idom, d, p) IN IF p = b \/ m = 0 THEN d ELSE m
      met[k \in 0..Len(known)] == IF k = 0 THEN Head(known) ELSE Meet(met[k - 1], known[k])
  IN IF b = G.entry \/ known = <<>> THEN idom
     ELSE [idom EXCEPT ![b] = met[Len(known)]]

\* One round of the loop "while changed".
Round(G, order, idom) ==
  LET at == [b \in ToSet(order) |-> CHOOSE i \in DOMAIN order : order[i] = b]
      after[k \in 0..Len(order)] == IF k = 0 THEN idom ELSE Improve(G, at, after[k - 1], order[k])
  IN after[Len(order)]

Unsolved(G) == [b \in ToSet(ReversePostorder(G)) |-> IF b = G.entry THEN b ELSE 0]

\* Variant: what the first round finds stays.
SolveOnce(G) == [idom |-> Round(G, ReversePostorder(G), Unsolved(G)), settled |-> TRUE]

\* At most one round more than there are blocks, the last of which may change
\* nothing.
Solve(G) ==
  LET order == ReversePostorder(G)
      state[n \in Nat] ==
        IF n = 0 THEN [idom |-> Unsolved(G), settled |-> FALSE]
        ELSE LET last == state[n - 1]
                 next == Round(G, order, last.idom)
             IN IF last.settled THEN last ELSE [idom |-> next, settled |-> next = last.idom]
  IN state[Cardinality(G.blocks) + 1]

Chain(idom, b) ==
  LET up[x \in DOMAIN idom] == IF idom[x] \in {0, x} THEN {x} ELSE {x} \cup up[idom[x]] IN up[b]

Dominates(idom, d, b) == b \in DOMAIN idom /\ d \in Chain(idom, b)

\* The runner from a predecessor of a join up to the join's idom.
Runner(idom, from, stop) ==
  LET up[r \in DOMAIN idom \cup {0}] == IF r \in {0, stop} THEN {} ELSE {r} \cup (IF idom[r] = r THEN {} ELSE up[idom[r]])
  IN up[from]

Frontier(G, idom, r) ==
  {b \in DOMAIN idom : Len(G.pred[b]) >= 2 /\
     \E p \in ToSet(G.pred[b]) \cap DOMAIN idom : r \in Runner(idom, p, idom[b])}

-----------------------------------------------------------------------------
(* region.py                                                                *)

FindBackEdges(G, idom) == {e \in G.blocks \X G.blocks : e[2] \in ToSet(G.succ[e[1]]) /\ Dominates(idom, e[2], e[1])}

\* One turn of the worklist; every block is taken from it once.
Backwards(G, st) ==
  IF st.work = {} THEN st
  ELSE LET b == CHOOSE x \in st.work : TRUE
           loop == st.loop \cup {b}
       IN [loop |-> loop, work |-> (st.work \cup ToSet(G.pred[b])) \ loop]

ComputeLoopBlocks(G, src, head) ==
  LET state[n \in Nat] == IF n = 0 THEN [loop |-> {head}, work |-> {src} \ {head}] ELSE Backwards(G, state[n - 1])
  IN state[Cardinality(G.blocks)].loop

ClassifyLoop(G, loop, src, head) ==
  CASE loop = {head} /\ src = head -> "self_loop"
    [] loop # {head} /\ ToSet(G.pred[head]) \subseteq loop -> "do_while"
    [] OTHER -> "while_loop"

\* The region of a block with two successors: joined branches, or one.
BranchRegion(G, b) ==
  LET Kind(k) == SelectSeq(G.edges[b], LAMBDA e : e[2] = k)
      yes == Kind("conditional")[1][1]
      no == Kind("false_branch")[1][1]
      join == ToSet(G.succ[yes]) \cap ToSet(G.succ[no])
  IN IF join = {} THEN [kind |-> "if_then", head |-> b, body |-> {b, yes, no}]
     ELSE [kind |-> "if_then_else", head |-> b, body |-> {b, yes, no, CHOOSE j \in join : TRUE}]

DecomposeRegions(G, idom) ==
  LET loops == {LET body == ComputeLoopBlocks(G, e[1], e[2])
                IN [kind |-> ClassifyLoop(G, body, e[1], e[2]), head |-> e[2], body |-> body] :
                  e \in FindBackEdges(G, idom)}
      inLoop == UNION {r.body : r \in loops}
      branches == {BranchRegion(G, b) : b \in {c \in G.blocks \ (inLoop \cup {G.exit}) : Len(G.succ[c]) = 2}}
      covered == UNION {r.body : r \in loops \cup branches}
  IN loops \cup branches
       \cup {[kind |-> "block", head |-> b, body |-> {b}] : b \in G.blocks \ (covered \cup {G.exit})}

-----------------------------------------------------------------------------
(* What these must be.                                                      *)

Reach(G, from, avoid) ==
  LET within[n \in 0..Cardinality(G.blocks)] ==
        IF n = 0 THEN from
        ELSE LET seen == within[n - 1] IN seen \cup (UNION {ToSet(G.succ[b]) : b \in seen} \ avoid)
  IN within[Cardinality(G.blocks)]

Reachable(G) == Reach(G, {G.entry}, {})
MustPass(G, d, b) == b = d \/ d = G.entry \/ b \notin Reach(G, {G.entry}, {d})

\* The iteration settles within one round per block, and its result is
\* dominance: d is in the chain of b iff every path to b passes d.
DominanceIsRight(G) ==
  LET idom == Solve(G).idom
  IN /\ Solve(G).settled
     /\ DOMAIN idom = Reachable(G)
     /\ \A d, b \in Reachable(G) : Dominates(idom, d, b) <=> MustPass(G, d, b)

\* The frontier of r: where its dominance ends.
FrontierIsRight(G) ==
  LET idom == Solve(G).idom
  IN \A r \in Reachable(G), b \in Reachable(G) \ {G.entry} :
       b \in Frontier(G, idom, r) <=>
         /\ \E p \in ToSet(G.pred[b]) \cap Reachable(G) : MustPass(G, r, p)
         /\ r = b \/ ~MustPass(G, r, b)

\* A loop is entered at its head only, every block of it returns to the head
\* without leaving it, and regions leave no block out.
LoopsAreNatural(G) ==
  LET idom == Solve(G).idom
      Within(loop) == [G EXCEPT !.succ = [b \in G.blocks |-> SelectSeq(G.succ[b], LAMBDA c : c \in loop)]]
  IN /\ \A e \in FindBackEdges(G, idom) :
          LET loop == ComputeLoopBlocks(G, e[1], e[2])
          IN /\ \A b \in loop \cap Reachable(G) :
                  /\ MustPass(G, e[2], b)
                  /\ e[1] \in Reach(Within(loop), {b}, {})
             /\ \A b \in Reachable(G) \ loop, c \in loop : c \in ToSet(G.succ[b]) => c = e[2]
     /\ \A b \in G.blocks \ {G.exit} : \E r \in DecomposeRegions(G, idom) : b \in r.body
=============================================================================
