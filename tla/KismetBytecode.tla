--------------------------- MODULE KismetBytecode ---------------------------
(***************************************************************************)
(* Reading Kismet bytecode: the operand table of the expression classes,   *)
(* FKismetArchive.read_expression with its limits, the search for code in  *)
(* an export that names none, and the cooked buffers of a class.           *)
(*                                                                         *)
(* A stream is a sequence of cells.  A cell is one byte or one field of    *)
(* fixed width, named after the token whose number it has; "junk" is 0x03, *)
(* which no token has.  Positions count cells from 0, as tell() does.      *)
(***************************************************************************)
EXTENDS Integers, SequencesExt

CONSTANTS MaxDepth,      \* MAX_EXPRESSION_RECURSION_DEPTH (256)
          MaxUnknown,    \* unknown tokens in a row (10)
          MaxAttempts,   \* _MAX_SCAN_ATTEMPTS (500)
          MaxCandidate   \* _MAX_CANDIDATE_SIZE (4096)

Huge == 1000             \* stands for every number above 20
Low == [EX_LocalVariable |-> 0, EX_InstanceVariable |-> 1, EX_DefaultVariable |-> 2, junk |-> 3, EX_Return |-> 4,
        EX_Jump |-> 6, EX_JumpIfNot |-> 7, EX_Assert |-> 9, EX_Nothing |-> 11, EX_NothingInt32 |-> 12,
        EX_Let |-> 15, EX_BitFieldConst |-> 17, EX_ClassContext |-> 18, EX_MetaCast |-> 19, EX_LetBool |-> 20]
NumberOf(c) == IF c \in DOMAIN Low THEN Low[c] ELSE Huge

-----------------------------------------------------------------------------
(* What each class reads behind its token.  "field" is a field, the name of *)
(* an end token an array of expressions closed by it; the rest see Operand. *)

Variables == [op \in {"EX_LocalVariable", "EX_InstanceVariable", "EX_DefaultVariable",
                      "EX_LocalOutVariable", "EX_ClassSparseDataVariable"} |-> <<"pointer">>]
Literals ==
  [op \in {"EX_IntConst", "EX_FloatConst", "EX_ByteConst", "EX_IntConstByte", "EX_Int64Const", "EX_UInt64Const",
           "EX_DoubleConst"} |-> <<"field">>]
    @@ [op \in {"EX_IntZero", "EX_IntOne", "EX_True", "EX_False", "EX_NoObject", "EX_NoInterface", "EX_Self",
                "EX_Nothing"} |-> <<>>]
ControlFlow ==
  [op \in {"EX_Jump", "EX_PushExecutionFlow", "EX_SkipOffsetConst"} |-> <<"field">>]
    @@ [op \in {"EX_JumpIfNot", "EX_Skip"} |-> <<"field", "expr">>]
    @@ [op \in {"EX_ComputedJump", "EX_PopExecutionFlowIfNot"} |-> <<"expr">>]
    @@ [op \in {"EX_PopExecutionFlow", "EX_EndOfScript"} |-> <<>>]
Assignments ==
  [op \in {"EX_LetBool", "EX_LetDelegate", "EX_LetMulticastDelegate", "EX_LetObj", "EX_LetWeakObjPtr"}
     |-> <<"expr", "expr">>]
    @@ [op \in {"EX_Let"} |-> <<"pointer", "expr", "expr">>]
    @@ [op \in {"EX_LetValueOnPersistentFrame"} |-> <<"pointer", "expr">>]
Casts ==
  [op \in {"EX_MetaCast", "EX_DynamicCast", "EX_ObjToInterfaceCast", "EX_CrossInterfaceCast",
           "EX_InterfaceToObjCast"} |-> <<"field", "expr">>]
    @@ [op \in {"EX_Cast"} |-> <<"cast", "expr">>]
Containers ==
  [op \in {"EX_SetArray"} |-> <<"pointer", "EX_EndArray">>]
    @@ [op \in {"EX_SetMap"} |-> <<"expr", "EX_EndMap">>] @@ [op \in {"EX_SetSet"} |-> <<"expr", "EX_EndSet">>]
    @@ [op \in {"EX_ArrayConst"} |-> <<"pointer", "EX_EndArrayConst">>]
    @@ [op \in {"EX_MapConst"} |-> <<"pointer", "pointer", "EX_EndMapConst">>]
    @@ [op \in {"EX_SetConst"} |-> <<"pointer", "EX_EndSetConst">>]
    @@ [op \in {"EX_ArrayGetByRef"} |-> <<"expr", "expr">>]
    @@ [op \in {"EX_EndArray", "EX_EndMap", "EX_EndSet", "EX_EndArrayConst", "EX_EndMapConst", "EX_EndSetConst"}
          |-> <<>>]
Contexts ==
  [op \in {"EX_Context", "EX_Context_FailSilent", "EX_ClassContext"} |-> <<"expr", "field", "pointer", "expr">>]
    @@ [op \in {"EX_InterfaceContext"} |-> <<"expr">>] @@ [op \in {"EX_StructMemberContext"} |-> <<"pointer", "expr">>]
Delegates ==
  [op \in {"EX_AddMulticastDelegate", "EX_RemoveMulticastDelegate"} |-> <<"expr", "expr">>]
    @@ [op \in {"EX_ClearMulticastDelegate"} |-> <<"expr">>] @@ [op \in {"EX_InstanceDelegate"} |-> <<"string">>]
    @@ [op \in {"EX_BindDelegate"} |-> <<"string", "expr", "expr">>]
Calls ==
  [op \in {"EX_FinalFunction", "EX_CallMath", "EX_LocalFinalFunction"} |-> <<"field", "EX_EndFunctionParms">>]
    @@ [op \in {"EX_VirtualFunction", "EX_LocalVirtualFunction"} |-> <<"string", "EX_EndFunctionParms">>]
    @@ [op \in {"EX_CallMulticastDelegate"} |-> <<"field", "expr", "EX_EndFunctionParms">>]
    @@ [op \in {"EX_EndParmValue", "EX_EndFunctionParms"} |-> <<>>]
Transactions ==
  [op \in {"EX_AutoRtfmTransact"} |-> <<"field", "field", "EX_EndOfScript">>]
    @@ [op \in {"EX_AutoRtfmStopTransact"} |-> <<"field", "mode">>] @@ [op \in {"EX_AutoRtfmAbortIfNot"} |-> <<"expr">>]
Specials ==
  [op \in {"EX_Return", "EX_FieldPathConst"} |-> <<"expr">>] @@ [op \in {"EX_Assert"} |-> <<"field", "field", "expr">>]
    @@ [op \in {"EX_NothingInt32", "EX_ObjectConst"} |-> <<"field">>] @@ [op \in {"EX_NameConst"} |-> <<"field", "field">>]
    @@ [op \in {"EX_SwitchValue"} |-> <<"switch">>] @@ [op \in {"EX_InstrumentationEvent"} |-> <<"event">>]
    @@ [op \in {"EX_DeprecatedOp4A", "EX_Breakpoint", "EX_Tracepoint", "EX_WireTracepoint"} |-> <<>>]
Placeholders == [op \in {"EX_6E", "EX_6F", "EX_F9", "EX_FD", "EX_FE", "EX_Max"} |-> <<>>]
Strings ==
  [op \in {"EX_StringConst"} |-> <<"string">>] @@ [op \in {"EX_UnicodeStringConst"} |-> <<"unicode">>]
    @@ [op \in {"EX_TextConst"} |-> <<"text">>] @@ [op \in {"EX_SoftObjectConst"} |-> <<"expr">>]
Structs ==
  [op \in {"EX_StructConst"} |-> <<"field", "field", "EX_EndStructConst">>] @@ [op \in {"EX_PropertyConst"} |-> <<"pointer">>]
    @@ [op \in {"EX_BitFieldConst"} |-> <<"pointer", "field">>] @@ [op \in {"EX_EndStructConst"} |-> <<>>]
Vectors ==
  [op \in {"EX_VectorConst", "EX_RotationConst", "EX_Vector3fConst"} |-> [k \in 1..3 |-> "field"]]
    @@ [op \in {"EX_TransformConst"} |-> [k \in 1..10 |-> "field"]]

\* EXPR_CLASS_MAP.
Operands == Variables @@ Literals @@ ControlFlow @@ Assignments @@ Casts @@ Containers @@ Contexts @@ Delegates
              @@ Calls @@ Transactions @@ Specials @@ Placeholders @@ Strings @@ Structs @@ Vectors

-----------------------------------------------------------------------------
(* A reader r is [at, err, exprs]: the position, the exception raised or "", *)
(* and the expressions read, each with its extent and nesting, outer first.  *)

Fail(r, e) == [r EXCEPT !.err = e]
Take(s, r, n) == IF r.at + n > Len(s) THEN Fail(r, "ParseError") ELSE [r EXCEPT !.at = @ + n]
Number(s, r) == IF r.at < Len(s) THEN NumberOf(s[r.at + 1]) ELSE 0

\* xfer_string and the skip of its null.
String(s, r) ==
  LET nulls == {k \in (r.at + 1)..Len(s) : NumberOf(s[k]) = 0}
  IN IF nulls = {} THEN Fail(r, "ParseError") ELSE [r EXCEPT !.at = Min(nulls)]

\* xfer_unicode_string: two zeros at an even distance.
Unicode(s, r) ==
  LET nulls == {k \in (r.at + 1)..(Len(s) - 1) :
                  (k - r.at) % 2 = 1 /\ NumberOf(s[k]) = 0 /\ NumberOf(s[k + 1]) = 0}
  IN IF nulls = {} THEN Fail(r, "ParseError") ELSE [r EXCEPT !.at = Min(nulls) + 1]

\* FKismetPropertyPointer: a path of names, or an index.
Pointer(s, r) ==
  LET flag == Take(s, r, 1)
      count == Take(s, flag, 1)
  IN CASE flag.err # "" -> flag
       [] flag.err = "" /\ Number(s, r) = 0 -> count
       [] flag.err = "" /\ Number(s, r) # 0 ->
            IF count.err # "" THEN count ELSE Take(s, count, Number(s, flag))

\* FScriptText: the class names two members the enumeration does not have, so
\* every kind but the empty and the localized one raises AttributeError.
Text(s, r) ==
  LET kind == Take(s, r, 1)
      Chain(q, k) == IF q.err = "" THEN String(s, q) ELSE q
  IN CASE kind.err # "" \/ Number(s, r) = 0 -> kind
       [] kind.err = "" /\ Number(s, r) = 1 -> FoldLeft(Chain, kind, <<1, 2, 3>>)
       [] kind.err = "" /\ Number(s, r) \in 2..4 -> Fail(kind, "AttributeError")
       [] OTHER -> Fail(kind, "ValueError")

\* An enumeration read from one cell: numbers up to the last, and others.
Enumerated(s, r, last, others) ==
  LET after == Take(s, r, 1)
      known == NumberOf(s[r.at + 1]) <= last \/ s[r.at + 1] \in others
  IN IF after.err = "" /\ ~known THEN Fail(after, "ValueError") ELSE after

Event(s, r) ==
  LET kind == Enumerated(s, r, 20, {})
  IN IF kind.err = "" /\ Number(s, r) = 4 THEN Take(s, kind, 3) ELSE kind

RECURSIVE ReadExpression(_, _, _, _), ReadOperands(_, _, _, _, _), ReadUntil(_, _, _, _, _, _)

\* One operand.  "tolerant" and the depth are those of the archive.
Operand(s, t, r, depth, kind) ==
  LET Sub(q) == ReadExpression(s, t, q, depth)
      Case(q, k) == IF q.err # "" THEN q
                    ELSE LET index == Sub(q) next == IF index.err = "" THEN Take(s, index, 1) ELSE index
                         IN IF next.err = "" THEN Sub(next) ELSE next
      Switch == LET head == Take(s, r, 2)
                    index == IF head.err = "" THEN Sub(head) ELSE head
                    cases == IF NumberOf(s[r.at + 1]) = Huge THEN Len(s) + 1 ELSE NumberOf(s[r.at + 1])
                    body == IF index.err = "" THEN FoldLeft(Case, index, [k \in 1..cases |-> k]) ELSE index
                IN IF body.err = "" THEN Sub(body) ELSE body
  IN CASE kind = "field" -> Take(s, r, 1)
       [] kind = "expr" -> Sub(r)
       [] kind = "pointer" -> Pointer(s, r)
       [] kind = "string" -> String(s, r)
       [] kind = "unicode" -> Unicode(s, r)
       [] kind = "text" -> Text(s, r)
       [] kind = "cast" -> Enumerated(s, r, 4, {"EX_Max"})
       [] kind = "mode" -> Enumerated(s, r, 2, {})
       [] kind = "event" -> Event(s, r)
       [] kind = "switch" -> Switch
       [] OTHER -> ReadUntil(s, t, r, depth, kind, Len(s) - r.at)

ReadOperands(s, t, r, depth, kinds) ==
  IF r.err # "" \/ kinds = <<>> THEN r
  ELSE ReadOperands(s, t, Operand(s, t, r, depth, Head(kinds)), depth, Tail(kinds))

\* read_expression_array: at most as many items as cells were left.
ReadUntil(s, t, r, depth, end, left) ==
  LET next == ReadExpression(s, t, r, depth)
  IN CASE left = 0 -> Fail(r, "ParseError")
       [] left # 0 /\ next.err # "" -> next
       [] left # 0 /\ next.err = "" ->
            IF next.exprs[Len(r.exprs) + 1].op = end THEN next ELSE ReadUntil(s, t, next, depth, end, left - 1)

Closed(r, n) == IF r.err # "" THEN r ELSE [r EXCEPT !.exprs[n].upto = r.at]

\* read_expression: the unknown cells a tolerant archive passes over, the
\* token, its operands one level deeper.
ReadExpression(s, t, r, depth) ==
  LET known == {k \in (r.at + 1)..Len(s) : s[k] \in DOMAIN Operands}
      start == IF known = {} THEN Len(s) ELSE Min(known) - 1
      token == s[start + 1]
      n == Len(r.exprs) + 1
      open == [r EXCEPT !.at = start + 1,
                        !.exprs = Append(@, [op |-> token, from |-> start, upto |-> 0, depth |-> depth])]
      skipped == start - r.at
  IN IF \/ depth >= MaxDepth \/ known = {} \/ (skipped > 0 /\ ~t) \/ skipped >= MaxUnknown
     THEN Fail(r, "ParseError")
     ELSE Closed(ReadOperands(s, t, open, depth + 1, Operands[token]), n)

\* parse_bytecode_stream: expressions to the end, or the first exception.
RECURSIVE ParseFrom(_, _, _)
ParseFrom(s, t, r) == IF r.err # "" \/ r.at >= Len(s) THEN r ELSE ParseFrom(s, t, ReadExpression(s, t, r, 0))

ParseStream(s, t) == ParseFrom(s, t, [at |-> 0, err |-> "", exprs |-> <<>>])
TopLevel(r) == SelectSeq(r.exprs, LAMBDA x : x.depth = 0)

-----------------------------------------------------------------------------
(* The search of an export's data for a script (serial_scan_recovery).      *)

Plausible == {"EX_Return", "EX_Context", "EX_VirtualFunction", "EX_FinalFunction", "EX_LocalFinalFunction"}

FalsePositive(s) ==
  LET Times(c) == Cardinality({k \in DOMAIN s : s[k] = c})
  IN Len(s) >= 4 /\ \/ Cardinality({k \in 1..(Len(s) - 5) : s[k] = "EX_IntConst"}) > 3
                    \/ \E c \in ToSet(s) : 2 * Times(c) > Len(s)

\* The pairs of a plausible start and an end of script behind it, in order.
Candidates(s) ==
  SetToSortSeq({<<a, b>> \in (DOMAIN s) \X (DOMAIN s) :
                  /\ s[a] \in Plausible /\ s[b] = "EX_EndOfScript" /\ a < b
                  /\ b - a < MaxCandidate /\ ~FalsePositive(SubSeq(s, a, b))},
               LAMBDA p, q : p[1] < q[1] \/ (p[1] = q[1] /\ p[2] < q[2]))

Worth(r) == IF r.err = "" /\ Last(TopLevel(r)).op = "EX_EndOfScript" THEN Len(TopLevel(r)) ELSE 0
Score(s, t, p) == Worth(ParseStream(SubSeq(s, p[1], p[2]), t))

\* Variant: the last candidate that parses stays.
ScanLast(s, t) ==
  LET Try(st, p) ==
        IF p[1] = st.done \/ st.tries >= MaxAttempts THEN st
        ELSE LET n == Score(s, t, p)
             IN [tries |-> st.tries + 1, done |-> IF n > 0 THEN p[1] ELSE st.done,
                 best |-> IF n > 0 THEN [score |-> n, span |-> p] ELSE st.best]
  IN FoldLeft(Try, [tries |-> 0, done |-> 0, best |-> [score |-> 0, span |-> <<>>]], Candidates(s))

\* One candidate: not tried again from a start that has succeeded; the best
\* score stays, the first of equals.  AttributeError is caught here.
Tried(st, p, n) ==
  [tries |-> st.tries + 1, done |-> IF n > 0 THEN p[1] ELSE st.done,
   best |-> IF n > st.best.score THEN [score |-> n, span |-> p] ELSE st.best]
Scan(s, t) ==
  LET Try(st, p) ==
        IF p[1] = st.done \/ st.tries > MaxAttempts THEN st
        ELSE IF st.tries = MaxAttempts THEN [st EXCEPT !.tries = @ + 1]
        ELSE Tried(st, p, Score(s, t, p))
  IN FoldLeft(Try, [tries |-> 0, done |-> 0, best |-> [score |-> 0, span |-> <<>>]], Candidates(s))

-----------------------------------------------------------------------------
(* The cooked script region of a class: sizes of the functions' buffers,    *)
(* then the buffers.  Here a cell is a number; EndMark ends a script.       *)

EndMark == 2

\* Header of two sizes, the class's own script, a count, the sizes.  0 where
\* the reader gives up before the buffers.
FirstSize(d) ==
  LET own == IF Len(d) >= 2 /\ d[2] > 0 THEN d[2] ELSE 0
      count == 3 + own
  IN IF Len(d) < 2 \/ count > Len(d) THEN 0 ELSE IF d[count] <= 0 \/ count + d[count] > Len(d) THEN 0 ELSE count + 1

\* One size: an empty buffer keeps its place, a buffer that runs over the end
\* is cut, and none at all ends the loop.
CookedBuffers(d) ==
  LET first == FirstSize(d)
      count == d[first - 1]
      Cut(st, k) ==
        LET size == d[first + k - 1]
            have == Min({size, Len(d) - st.at})
        IN CASE st.stop -> st
             [] ~st.stop /\ size <= 0 -> [st EXCEPT !.buffers = Append(@, <<0, 0>>), !.empty = @ + 1]
             [] ~st.stop /\ size > 0 /\ have = 0 -> [st EXCEPT !.truncated = @ + 1, !.stop = TRUE]
             [] ~st.stop /\ size > 0 /\ have > 0 ->
                  [st EXCEPT !.buffers = Append(@, <<st.at + 1, st.at + have>>), !.at = @ + have,
                             !.truncated = @ + (IF have < size THEN 1 ELSE 0),
                             !.mismatch = @ + (IF d[st.at + have] # EndMark THEN 1 ELSE 0)]
      none == [buffers |-> <<>>, at |-> 0, stop |-> FALSE, truncated |-> 0, empty |-> 0, mismatch |-> 0]
  IN IF first = 0 THEN none
     ELSE FoldLeft(Cut, [none EXCEPT !.at = first + count - 1], [k \in 1..count |-> k])

Confidence(m, mapped) ==
  CASE m.buffers = <<>> -> "unrecoverable"
    [] m.buffers # <<>> /\ (m.truncated > 0 \/ m.empty > Len(m.buffers) \div 2) -> "low"
    [] m.buffers # <<>> /\ m.truncated = 0 /\ m.empty <= Len(m.buffers) \div 2 ->
         IF m.mismatch > 0 \/ ~mapped THEN "medium" ELSE "high"

\* map_bytecode_to_functions: by position, a later function of the same name
\* over an earlier one.
MapToFunctions(buffers, functions) ==
  LET n == Min({Len(buffers), Len(functions)})
  IN [f \in {functions[k] : k \in 1..n} |-> buffers[Max({k \in 1..n : functions[k] = f})]]

\* validate_recovered_bytecode on a buffer's first and last cell.
Recovered(first, last, length, truncated, warned) ==
  CASE length < 2 -> "unrecoverable"
    [] length >= 2 /\ last # EndMark /\ truncated -> "low"
    [] length >= 2 /\ last # EndMark /\ ~truncated -> "medium"
    [] length >= 2 /\ last = EndMark -> IF truncated \/ warned \/ first = 0 THEN "medium" ELSE "high"

-----------------------------------------------------------------------------
(* What reading must be.                                                    *)

Inside(x, y) == y.from < x.from /\ x.upto <= y.upto
\* A finished stream is made of expressions that lie one inside the other or
\* one behind the other, nest no deeper than the limit, and leave no cell out
\* unless tolerance passed over it.
Nested(r, t) ==
  r.err = "" =>
    /\ \A j, k \in DOMAIN r.exprs : j < k =>
         LET x == r.exprs[k] y == r.exprs[j]
         IN IF x.depth > y.depth THEN Inside(x, y) \/ x.from >= y.upto ELSE x.from >= y.upto
    /\ \A k \in DOMAIN r.exprs : r.exprs[k].depth < MaxDepth /\ r.exprs[k].from < r.exprs[k].upto
    /\ ~t => \A k \in 1..(Len(TopLevel(r)) - 1) : TopLevel(r)[k].upto = TopLevel(r)[k + 1].from
WellNested(s, t) == Nested(ParseStream(s, t), t)

\* Tolerance changes nothing of a stream a strict archive can read.
ToleranceAddsOnly(s) == ParseStream(s, FALSE).err = "" => ParseStream(s, TRUE) = ParseStream(s, FALSE)

\* What has been read does not depend on what follows.
Selfdelimiting(s, c) ==
  LET r == ParseStream(s, FALSE) IN r.err = "" => TopLevel(ParseStream(Append(s, c), FALSE))[1] = TopLevel(r)[1]

\* The script found is the best of the candidates looked at, where the search went
\* to its end and where its attempts ran out: the first so many in order, without
\* those of a start that an earlier end has made parse.
KeepsBest(s, t, st) ==
  \A all \in {Candidates(s)} :
  \A score \in {[k \in DOMAIN all |-> Score(s, t, all[k])]} :
  LET news == SetToSortSeq({k \in DOMAIN all : \A j \in 1..(k - 1) : all[j][1] = all[k][1] => score[j] = 0}, <)
      looked == ToSet(SubSeq(news, 1, Min({MaxAttempts, Len(news)})))
  IN /\ \A k \in looked : score[k] <= st.best.score
     /\ st.best.score > 0 => \E k \in looked : all[k] = st.best.span /\ score[k] = st.best.score
ScanKeepsBest(s, t) == KeepsBest(s, t, Scan(s, t))

\* Buffers follow each other inside the region, the one at place k has the
\* k-th size, and only the last may be short; high confidence means whole.
BuffersAreInOrder(d) ==
  \A m \in {CookedBuffers(d)} :
  LET Size(k) == d[FirstSize(d) + k - 1]
      Trust(k) == Recovered(d[m.buffers[k][1]], d[m.buffers[k][2]], m.buffers[k][2] - m.buffers[k][1] + 1,
                            m.truncated > 0, m.mismatch > 0)
      whole == {k \in DOMAIN m.buffers : Size(k) > 0 /\ m.buffers[k][2] - m.buffers[k][1] + 1 = Size(k)}
  IN /\ \A k \in DOMAIN m.buffers : Size(k) > 0 => (k \in whole \/ \A j \in DOMAIN m.buffers : j > k => Size(j) <= 0)
     /\ \A j, k \in DOMAIN m.buffers : j < k /\ Size(j) > 0 /\ Size(k) > 0 => m.buffers[j][2] + 1 <= m.buffers[k][1]
     /\ \A k \in DOMAIN m.buffers : m.buffers[k][2] <= Len(d)
     /\ Confidence(m, TRUE) = "high" =>
          /\ Len(m.buffers) = d[FirstSize(d) - 1]
          /\ \A k \in DOMAIN m.buffers : Size(k) <= 0 \/ (k \in whole /\ d[m.buffers[k][2]] = EndMark)
     /\ \A k \in DOMAIN m.buffers : Size(k) > 0 /\ Trust(k) = "high" => k \in whole /\ d[m.buffers[k][2]] = EndMark
     /\ \A f \in {<<"a", "b">>, <<"a", "b", "c">>} :
          LET got == MapToFunctions(m.buffers, f)
          IN \A k \in DOMAIN f : f[k] \in DOMAIN got => got[f[k]] = m.buffers[k]
=============================================================================
