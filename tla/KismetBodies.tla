---------------------------- MODULE KismetBodies ----------------------------
(***************************************************************************)
(* From a script to the text of a function: the patterns JumpAnalyzer sees *)
(* in it, and what the three builders say (FunctionBodyBuilder with and    *)
(* without the graph, StructuredControlFlow).                              *)
(*                                                                         *)
(* A text is a sequence of items: <<"line", i>> (statement i, on a line or *)
(* in a for header), <<"open", i>>, <<"else", i>>, <<"close", i>>, and     *)
(* <<"label", t>> for the statement t that jumps name.                     *)
(***************************************************************************)
EXTENDS KismetCFG

None == [kind |-> "none"]
FirstIn(S) == IF S = {} THEN 0 ELSE Min(S)
\* Texts one behind the other.
Joined(texts) ==
  LET all[k \in 0..Len(texts)] == IF k = 0 THEN <<>> ELSE all[k - 1] \o texts[k]
  IN all[Len(texts)]

\* EX_JumpIfNot and EX_Skip are subclasses of EX_Jump: all count where a jump
\* is sought.
IsJump(x) == x.op \in {"jump", "ifnot", "skip"}

WhileEnd(s, i) ==
  IF s[i].op # "ifnot" THEN 0
  ELSE FirstIn({j \in (i + 1)..Len(s) : IsJump(s[j]) /\ s[j].to \in 1..i})

DetectWhile(s, i) ==
  IF WhileEnd(s, i) = 0 THEN None
  ELSE [kind |-> "while", start |-> i, from |-> i + 1, upto |-> WhileEnd(s, i) - 1, last |-> WhileEnd(s, i)]

\* The run of assignments in front of the jump back is the increment.
DetectFor(s, i) ==
  LET w == WhileEnd(s, i)
      inc == Min({k \in (i + 1)..(w - 1) : \A m \in k..(w - 2) : s[m].op = "let"})
  IN IF w <= i + 1 THEN None
     ELSE IF s[inc].op # "let" \/ inc = i + 1 THEN None
     ELSE [kind |-> "for", start |-> i, from |-> i + 1, upto |-> inc - 1, inc |-> inc, last |-> w]

DetectPushPop(s, i) ==
  LET near == (i + 1)..Min({i + 3, Len(s)})
      Stops(j) == s[j].op \in {"push", "end"}
      test == FirstIn({k \in near : s[k].op = "ifnot" \/ Stops(k)})
      pop == FirstIn({k \in (test + 1)..Len(s) : s[k].op = "pop" \/ Stops(k)})
  IN IF s[i].op # "push" \/ test = 0 THEN None
     ELSE IF s[test].op # "ifnot" \/ pop = 0 THEN None
     ELSE IF s[pop].op # "pop" THEN None
     ELSE [kind |-> "push_pop", start |-> i, from |-> test + 1, upto |-> pop - 1, other |-> pop + 1,
           last |-> IF s[i].to = 0 THEN pop ELSE s[i].to]

DetectIfElse(s, i) ==
  LET false == s[i].to
      leave == FirstIn({j \in (i + 1)..(false - 1) : IsJump(s[j]) /\ s[j].to >= false})
  IN IF s[i].op # "ifnot" \/ false = 0 THEN None
     ELSE IF leave = 0 THEN [kind |-> "if", start |-> i, from |-> i + 1, upto |-> false - 1, last |-> false - 1]
     ELSE [kind |-> "if_else", start |-> i, from |-> i + 1, upto |-> leave - 1, other |-> false,
           last |-> s[leave].to]

DetectSwitch(s, i) == IF s[i].op = "switch" THEN [kind |-> "switch", start |-> i, last |-> i] ELSE None

\* The first pattern in the order they are tried.
DetectPattern(s, i) ==
  LET FirstOf(tried) ==
        LET found == {k \in DOMAIN tried : tried[k] # None} IN IF found = {} THEN None ELSE tried[Min(found)]
  IN FirstOf(<<DetectFor(s, i), DetectWhile(s, i), DetectPushPop(s, i), DetectIfElse(s, i), DetectSwitch(s, i)>>)

\* Any jump to a conditional jump passes for the jump back of a loop, the
\* conditional ones among them.
IsWhileBackjump(s, i) == IsJump(s[i]) /\ s[i].to # 0 /\ s[s[i].to].op = "ifnot"

\* The statements inside some pattern, found by one pass that skips them.
InsidePatterns(s) ==
  LET Turn(st, i, p) ==
        IF i <= st.skip \/ p = None THEN st
        ELSE [skip |-> IF p.kind = "switch" THEN st.skip ELSE p.last, inside |-> st.inside \cup i..p.last]
      after[i \in 0..Len(s)] ==
        IF i = 0 THEN [skip |-> 0, inside |-> {}] ELSE Turn(after[i - 1], i, DetectPattern(s, i))
  IN after[Len(s)].inside

-----------------------------------------------------------------------------
\* KismetTranslator.line_cpp with the index: structure where a pattern is
\* seen, a goto elsewhere, nothing for what has no text of its own.
LineCpp(s, i) ==
  CASE s[i].op \in {"push", "end"} -> <<>>
    [] s[i].op \in {"jump", "skip"} /\ IsWhileBackjump(s, i) -> <<>>
    [] s[i].op = "ifnot" /\ DetectPattern(s, i) # None -> <<<<"open", i>>>>
    [] s[i].op = "pop" /\ i \in InsidePatterns(s) -> <<<<"close", i>>>>
    [] OTHER -> <<<<"line", i>>>>

\* The same without index and expressions.
PlainLine(s, i) == IF s[i].op \in {"push", "end"} THEN <<>> ELSE <<<<"line", i>>>>

\* The statements of a range, as "text" has each of them.
Lines(text, from, upto) == Joined(SubSeq(text, from, upto))

JumpTargets(s) == {s[i].to : i \in {j \in DOMAIN s : HasOffset(s[j])}}

\* offset_to_index: the statement's own offset, then the offset its jump
\* names, both written under the index of the pass; the last one stays.
LabelPlace(s, t) == Max({t} \cup {j \in DOMAIN s : HasOffset(s[j]) /\ s[j].to = t})

\* The labels in front of statement i, in the order of their offsets.
LabelsBefore(s, i) ==
  Joined([k \in 1..(Len(s) + 1) |->
    IF k - 1 \in JumpTargets(s) /\ LabelPlace(s, k - 1) = i THEN <<<<"label", k - 1>>>> ELSE <<>>])

\* In a loop the label stands at the statement itself.
LoopLine(s, i) == (IF i \in JumpTargets(s) THEN <<<<"label", i>>>> ELSE <<>>) \o LineCpp(s, i)

EmitStructuredBlock(s, p) ==
  LET i == p.start
      plain == [j \in DOMAIN s |-> LineCpp(s, j)]
      looped == [j \in DOMAIN s |-> LoopLine(s, j)]
      Block(head, body) == head \o <<<<"open", i>>>> \o body \o <<<<"close", i>>>>
      Else == <<<<"close", i>>, <<"else", i>>, <<"open", i>>>>
  IN CASE p.kind = "for" -> Block(Lines(plain, p.inc, p.last - 1), Lines(looped, p.from, p.upto))
       [] p.kind = "while" -> Block(<<>>, Lines(looped, p.from, p.upto))
       [] p.kind \in {"if_else", "push_pop"} ->
            Block(<<>>, Lines(plain, p.from, p.upto) \o Else \o Lines(plain, p.other, p.last))
       [] p.kind = "if" -> Block(<<>>, Lines(plain, p.from, p.upto))
       [] p.kind = "switch" -> <<<<"open", i>>, <<"line", i>>, <<"close", i>>>>

Labelled(s, i) == IF LineCpp(s, i) = <<>> THEN <<>> ELSE LabelsBefore(s, i) \o LineCpp(s, i)

\* Variant: statements of a block are not skipped behind it.
StatementAgain(s, st, i) ==
  LET p == DetectPattern(s, i)
  IN [st EXCEPT !.out = @ \o (IF p # None THEN EmitStructuredBlock(s, p) ELSE Labelled(s, i))]

\* One turn of the loop over the statements.
Statement(s, st, i) ==
  LET At(p) ==
        CASE i <= st.skip -> st
          [] i > st.skip /\ p # None -> [skip |-> p.last, out |-> st.out \o EmitStructuredBlock(s, p)]
          [] i > st.skip /\ p = None -> [st EXCEPT !.out = @ \o Labelled(s, i)]
  IN At(DetectPattern(s, i))

\* to_function_body and to_function_body_structured: without a pattern the
\* second calls the first, with one both run this loop.
FunctionBody(s) ==
  LET after[i \in 0..Len(s)] == IF i = 0 THEN [skip |-> 0, out |-> <<>>] ELSE Statement(s, after[i - 1], i)
  IN after[Len(s)].out

\* to_function_body_cfg: the blocks but the sink, as _visit enters them.
FunctionBodyCfg(s) ==
  LET order == DepthFirst(BuildCFG(s)).pre
      looped == [j \in DOMAIN s |-> LoopLine(s, j)]
  IN Joined([k \in DOMAIN order |-> IF order[k] = Sink(s) THEN <<>> ELSE Lines(looped, order[k], BlockEnd(s, order[k]))])

-----------------------------------------------------------------------------
(* StructuredControlFlow: regions first, then one pass over them.           *)

DetectRegions(s) ==
  LET Turn(st, i, p) ==
        IF i \in st.used \/ p.kind \notin {"push_pop", "if_else", "while", "for"} THEN st
        ELSE [used |-> st.used \cup i..p.last, regions |-> st.regions \cup {p}]
      after[i \in 0..Len(s)] ==
        IF i = 0 THEN [used |-> {}, regions |-> {}] ELSE Turn(after[i - 1], i, DetectPattern(s, i))
  IN after[Len(s)].regions

\* One turn of _emit_structured, at statement st.at.
Emit(s, regions, st) ==
  LET i == st.at
      plain == [j \in DOMAIN s |-> PlainLine(s, j)]
      here == {r \in regions : r.start = i}
      r == CHOOSE x \in here : TRUE
      Braced(from, upto) == <<<<"open", i>>>> \o Lines(plain, from, upto) \o <<<<"close", i>>>>
      text == CASE here = {} -> PlainLine(s, i)
                [] here # {} /\ r.kind \in {"while", "for"} -> Braced(r.from, r.last - 1)
                [] OTHER -> Braced(r.from, r.upto) \o <<<<"else", i>>>> \o Braced(r.other, r.last)
  IN IF i > Len(s) THEN st
     ELSE [at |-> IF here = {} THEN i + 1 ELSE r.last + 1, out |-> st.out \o text]

\* The loop, for at most as many turns as there are statements.
EmitStructured(s, regions) ==
  LET after[n \in 0..Len(s)] == IF n = 0 THEN [at |-> 1, out |-> <<>>] ELSE Emit(s, regions, after[n - 1])
  IN [out |-> after[Len(s)].out, done |-> after[Len(s)].at > Len(s)]

\* Without regions: every line, with the labels of the targets.
GotoFallback(s) == Lines([i \in DOMAIN s |-> LabelsBefore(s, i) \o PlainLine(s, i)], 1, Len(s))

Reconstruct(s) ==
  LET regions == DetectRegions(s)
  IN IF regions = {} THEN [out |-> GotoFallback(s), done |-> TRUE] ELSE EmitStructured(s, regions)

-----------------------------------------------------------------------------
\* analyze_structured_rate: which jumps a pattern covers, which have a
\* recorded reason for a goto.
StructuredRate(s) ==
  LET jumps == {i \in DOMAIN s : IsJump(s[i]) \/ s[i].op \in {"computed", "switch"}}
      taken == {i \in jumps : s[i].op # "switch" /\ ~IsWhileBackjump(s, i)}
      found == [i \in taken |-> DetectPattern(s, i)]
  IN [total |-> Cardinality(jumps),
      structured |-> (jumps \ taken) \cup (jumps \cap UNION {i..found[i].last : i \in {j \in taken : found[j] # None}}),
      reasons |-> {i \in taken : found[i] = None}]

-----------------------------------------------------------------------------
(* What the texts must be.                                                  *)

OnlyOnce(out) == \A j, k \in DOMAIN out : out[j] = out[k] /\ out[j][1] = "line" => j = k
PushesAhead(s) == \A i \in DOMAIN s : LET p == DetectPushPop(s, i) IN p = None \/ p.last >= p.other - 1

\* No statement appears twice in a body, provided the address that a matched
\* push saves lies behind the pop (skip_until, body_builder.py:364-380).
NothingTwice(s) == PushesAhead(s) => OnlyOnce(FunctionBody(s))

\* The body built along the graph holds the statements of the reachable
\* blocks, each once, a block's own in order, and nothing else.
CfgBodyIsReachable(s) ==
  \A out \in {FunctionBodyCfg(s)}, live \in {UNION {b..BlockEnd(s, b) : b \in Reachable(BuildCFG(s)) \ {Sink(s)}}} :
     /\ OnlyOnce(out)
     /\ \A i \in DOMAIN s : <<"line", i>> \in ToSet(out) => i \in live
     /\ \A i \in live : s[i].op \in {"stmt", "let"} => <<"line", i>> \in ToSet(out)
     /\ \A j, k \in DOMAIN out : \A i \in (DOMAIN s) \ Leaders(s) :
          out[j] = <<"line", i - 1>> /\ out[k] = <<"line", i>> => j < k

\* The pass over the regions ends, and says no more than it was given.
ReconstructEnds(s) == PushesAhead(s) => Reconstruct(s).done /\ OnlyOnce(Reconstruct(s).out)

\* A jump that reaches no pattern is reported with a reason, unless it is
\* inside one or taken for the jump back of a loop: the rate and the reasons
\* account for every jump, provided a conditional jump goes ahead or to a
\* conditional jump.
RateAccountsForAll(s) ==
  LET r == StructuredRate(s)
  IN (\A i \in DOMAIN s : s[i].op = "ifnot" => s[i].to = 0 \/ s[i].to > i \/ IsWhileBackjump(s, i)) =>
       Cardinality(r.structured \cup r.reasons) = r.total
=============================================================================
