------------------------------- MODULE GraphPins -------------------------------
(***************************************************************************)
(* How the pins of a graph node are read, and what is recovered when the   *)
(* count of a pin's links is not believed.                                 *)
(*                                                                         *)
(* A file is a sequence of 32-bit words; a name, a byte and a string's     *)
(* character are a word each and a guid is GuidWords of them.  A reader    *)
(* maps a position to the position behind what it read, and Refused stands *)
(* for its ParseError.                                                     *)
(***************************************************************************)
EXTENDS Integers, SequencesExt, FiniteSetsExt

CONSTANTS MaxLinks,      \* MAX_LINKEDTO_PER_PIN
          MaxPins,       \* MAX_PINS_PER_NODE
          MaxRecovered,  \* the largest count that is believed in a recovery (20)
          Window,        \* words searched on each side of the count (16 bytes)
          Scan,          \* words searched for the SubPins (256 bytes)
          MaxOwner,      \* exports + imports + 50
          MaxString,     \* the limit of a pin's string
          MaxText,       \* MAX_FTEXT_CONSUMPTION
          GuidWords

Refused == 0
Abs(n) == IF n < 0 THEN -n ELSE n
Skip(w, at, n) == IF at # Refused /\ at + n - 1 <= Len(w) THEN at + n ELSE Refused
Ends(w, at) == at = Refused \/ at > Len(w)

\* The characters behind a length: UTF-16 below zero, and -1 has none.
Characters(w, at) == IF w[at] \in {0, -1} THEN at + 1 ELSE Skip(w, at + 1, Abs(w[at]))
FStringSafe(w, at) == IF Ends(w, at) THEN Refused ELSE IF Abs(w[at]) > MaxString THEN at ELSE Characters(w, at)
FTextFString(w, at) == IF Ends(w, at) \/ Abs(w[at]) > MaxString THEN Refused ELSE Characters(w, at)

\* read_ftext_with_history, behind a word for the flags and the type.
RECURSIVE FText(_, _)
FText(w, at) ==
  LET Argument(here, i) ==
        LET name == FTextFString(w, here)
        IN IF Ends(w, name) \/ w[name] \notin 0..5 THEN Refused
           ELSE IF w[name] = 4 THEN FText(w, name + 1) ELSE Skip(w, name + 1, 1)
      format == FText(w, at + 1)
      arguments == IF w[format] < 0 \/ w[format] > MaxString THEN 0 ELSE w[format]
  IN IF Ends(w, at) \/ w[at] \notin -1..1 \/ (w[at] = -1 /\ Ends(w, at + 1)) \/ (w[at] = 1 /\ Ends(w, format)) THEN Refused
     ELSE CASE w[at] = -1 -> IF w[at + 1] # 0 THEN FTextFString(w, at + 2) ELSE at + 2
            [] w[at] = 0 -> FTextFString(w, FTextFString(w, FTextFString(w, at + 1)))
            [] w[at] = 1 -> FoldLeft(Argument, format + 1, [i \in 1..arguments |-> i])

\* A text that took too much is not consumed at all.
UnlessTooLong(at, end) == IF end # Refused /\ end - at > MaxText THEN at ELSE end
FTextField(w, at) == UnlessTooLong(at, FText(w, at))

-----------------------------------------------------------------------------
(* References to pins: a null marker alone, or 0, an owner and a guid.      *)

Whole == 2 + GuidWords
ValidReference(w, at) ==
  /\ at <= Len(w)
  /\ w[at] = 0 => at + Whole - 1 <= Len(w) /\ (w[at + 1] = 0 \/ Abs(w[at + 1]) < MaxOwner)
ReferenceEnd(w, at) ==
  IF Ends(w, at) THEN Refused ELSE IF w[at] # 0 THEN at + 1 ELSE Skip(w, at, Whole)

\* _recover_pin_array_count: how well a word passes for the lost count.
Width(bad) == IF bad > 100 THEN 4 * Window ELSE IF bad > 20 THEN 2 * Window ELSE Window
SearchFrom(at, bad) == Max({1, at - Width(bad)})
SearchEnd(w, at, bad) == Min({Len(w), at + Width(bad) - 1})
Grade(w, p, hi) ==
  LET first == p + Whole <= hi /\ ValidReference(w, p + 1)
      second == w[p] = 1 \/ p + 2 * Whole > hi \/ ValidReference(w, p + 1 + Whole)
  IN IF w[p] \notin 0..MaxRecovered \/ (w[p] > 0 /\ ~first) THEN "none"
     ELSE IF w[p] > 0 THEN (IF second THEN "high" ELSE "medium")
     ELSE IF w[p + 1] \in 0..MaxRecovered THEN "medium" ELSE "low"
RecoverPinArrayCount(w, at, bad) ==
  LET hi == SearchEnd(w, at, bad)
      Try(best, p) ==
        LET g == Grade(w, p, hi)
        IN IF best.grade = "high" \/ g = "none" \/ (g = "low" /\ best.grade # "none") THEN best ELSE [at |-> p, grade |-> g]
  IN FoldLeft(Try, [at |-> Refused, grade |-> "none"], [k \in 1..(hi - SearchFrom(at, bad)) |-> SearchFrom(at, bad) + k - 1])

\* read_pin_array: the owners of the pins that are not null.
References(w, at, count) ==
  LET One(r, i) ==
        IF r.at = Refused \/ ~ValidReference(w, r.at) THEN [r EXCEPT !.at = Refused]
        ELSE [at |-> ReferenceEnd(w, r.at), pins |-> IF w[r.at] # 0 THEN r.pins ELSE Append(r.pins, w[r.at + 1])]
  IN FoldLeft(One, [at |-> at, pins |-> <<>>], [i \in 1..count |-> i])
Recovered(w, found, context) ==
  IF found.grade = "none" THEN [at |-> Refused, pins |-> <<>>]
  ELSE IF found.grade = "low" /\ context = "linkedto" THEN [at |-> found.at + 1, pins |-> <<>>]
  ELSE References(w, found.at + 1, w[found.at])
PinArray(w, at, context) ==
  IF Ends(w, at) THEN [at |-> Refused, pins |-> <<>>]
  ELSE IF w[at] \in 0..MaxLinks THEN References(w, at + 1, w[at])
  ELSE Recovered(w, RecoverPinArrayCount(w, at + 1, w[at]), context)

\* _try_recover_to_subpins: the first count before a reference it can believe.
RecoverToSubpins(w, at) ==
  LET hi == Min({Len(w), at + Scan - 1})
      Good(p) == /\ w[p] \in 0..MaxRecovered
                 /\ \/ w[p] > 0 /\ p + Whole <= hi /\ ValidReference(w, p + 1)
                    \/ w[p + 1] # 0
  IN IF \E p \in at..(hi - 1) : Good(p) THEN CHOOSE p \in at..(hi - 1) : Good(p) /\ \A q \in at..(p - 1) : ~Good(q) ELSE at

\* What a field's except clauses name: a ParseError is none of them.
Caught == {"struct.error", "OSError", "ValueError"}
Linked(w, at, array) ==
  IF array.at = Refused /\ "ParseError" \in Caught THEN [at |-> RecoverToSubpins(w, at), pins |-> <<>>] ELSE array
ReadLinkedTo(w, at) == Linked(w, at, PinArray(w, at, "linkedto"))

-----------------------------------------------------------------------------
(* A pin.                                                                   *)

\* read_ed_graph_pin_type: a map (3) names the type of its keys as well.
PinType(w, at) ==
  LET behind == Skip(w, at, 4)
  IN IF behind = Refused THEN Refused
     ELSE Skip(w, behind, (IF w[behind - 1] = 3 THEN 3 ELSE 0) + 2 + (2 + GuidWords) + 3)
Lost == [at |-> Refused, links |-> <<>>, subs |-> <<>>]
BitsEnd(w, at) == LET guid == Skip(w, at, GuidWords) IN Skip(w, IF guid = Refused THEN at ELSE guid, 1)
ReadPin(w, at) ==
  LET tip == FStringSafe(w, Skip(w, FTextField(w, Skip(w, at, 1 + GuidWords + 1)), 1))
      default == FStringSafe(w, FStringSafe(w, PinType(w, Skip(w, tip, 1))))
      text == FTextField(w, Skip(w, default, 1))
      links == ReadLinkedTo(w, text)
      subs == PinArray(w, links.at, "linkedto")
      through == ReferenceEnd(w, ReferenceEnd(w, subs.at))
      bits == BitsEnd(w, through)
  IN IF text = Refused \/ links.at = Refused \/ subs.at = Refused \/ bits = Refused THEN Lost
     ELSE [at |-> bits, links |-> links.pins, subs |-> subs.pins]

\* _read_node_pins: the header names the owner and the guid once more, and a
\* null one has them too.  One refused pin is the end of the node.
With(r, pin) == [at |-> pin.at, pins |-> Append(r.pins, [links |-> pin.links, subs |-> pin.subs])]
ReadNodePin(w, r) ==
  LET header == IF r.at = Refused THEN Refused ELSE Skip(w, r.at, Whole)
  IN IF header = Refused THEN [r EXCEPT !.at = Refused]
     ELSE IF w[r.at] # 0 THEN [r EXCEPT !.at = header]
     ELSE With(r, ReadPin(w, header))
ReadNodePins(w) ==
  IF w = <<>> \/ w[1] < 0 \/ w[1] > MaxPins THEN [at |-> Refused, pins |-> <<>>]
  ELSE FoldLeft(LAMBDA r, i : ReadNodePin(w, r), [at |-> 2, pins |-> <<>>], [i \in 1..w[1] |-> i])

-----------------------------------------------------------------------------
(* What an editor writes.  A pin is [text, tip, map, links, subs, parent]:  *)
(* a text of some history, the length of a string, and pins' owners, where  *)
(* Null is a null reference.                                                *)

Null == -99
Guid == [i \in 1..GuidWords |-> 7]
Zeros(n) == [i \in 1..n |-> 0]
StringWords(n) == <<n>> \o (IF n \in {0, -1} THEN <<>> ELSE Zeros(Abs(n)))
TextWords(t) ==
  CASE t = "none" -> <<-1, 0>>
    [] t = "culture" -> <<-1, 1>> \o StringWords(1)
    [] t = "base" -> <<0>> \o StringWords(0) \o StringWords(-2) \o StringWords(1)
    [] t = "format" -> <<1, -1, 0, 2>> \o StringWords(1) \o <<0, 5>> \o StringWords(0) \o <<4, -1, 0>>
ReferenceWords(r) == IF r = Null THEN <<1>> ELSE <<0, r>> \o Guid
ArrayWords(rs) == <<Len(rs)>> \o FlattenSeq([i \in DOMAIN rs |-> ReferenceWords(rs[i])])
PinWords(p) ==
  <<1>> \o Guid \o <<1>> \o TextWords(p.text) \o <<0>> \o StringWords(p.tip) \o <<1>>
    \o <<1, 1, 0, IF p.map THEN 3 ELSE 0>> \o Zeros(IF p.map THEN 3 ELSE 0) \o Zeros(4) \o Guid \o Zeros(3)
    \o StringWords(1) \o StringWords(p.tip) \o <<0>> \o TextWords(p.text)
    \o ArrayWords(p.links) \o ArrayWords(p.subs) \o ReferenceWords(p.parent) \o ReferenceWords(Null) \o Guid \o <<16>>
NodeWords(ps) == <<Len(ps)>> \o FlattenSeq([i \in DOMAIN ps |-> <<0, 1>> \o Guid \o PinWords(ps[i])])

\* The pins an editor writes are read to their last word with their links:
\* one misread field would shift every field and pin behind it.
PinsAreWhole(ps, tail) ==
  LET Told(rs) == SelectSeq(rs, LAMBDA r : r # Null)
  IN ReadNodePins(NodeWords(ps) \o tail) =
       [at |-> Len(NodeWords(ps)) + 1, pins |-> [i \in DOMAIN ps |-> [links |-> Told(ps[i].links), subs |-> Told(ps[i].subs)]]]

\* A recovered count is one of the searched words, nothing around the place
\* passes better for a count than it does, and the links read behind it stay
\* in the file.
Rank(g) == CASE g = "none" -> 0 [] g = "low" -> 1 [] g = "medium" -> 2 [] g = "high" -> 3
RecoveryIsBest(w, at, bad) ==
  LET r == RecoverPinArrayCount(w, at, bad)
      searched == SearchFrom(at, bad)..(SearchEnd(w, at, bad) - 1)
  IN /\ \A p \in searched : Rank(Grade(w, p, SearchEnd(w, at, bad))) <= Rank(r.grade)
     /\ r.grade # "none" => r.at \in searched /\ w[r.at] \in 0..MaxRecovered
     /\ r.grade = "high" => ~\E p \in searched : p < r.at /\ Grade(w, p, SearchEnd(w, at, bad)) = "high"
===============================================================================
