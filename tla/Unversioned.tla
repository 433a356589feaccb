----------------------------- MODULE Unversioned -----------------------------
(***************************************************************************)
(* Exports without tags (property_parser.py): the control byte, the header *)
(* that says which properties follow, and the values, read by the types of *)
(* a mapping.                                                              *)
(*                                                                         *)
(* The words are those of PropertyValues; a fragment of the header, a mask *)
(* and the control byte are a word each.  Types and structs are those of   *)
(* Mappings: a type is [type, name, inner, value].                         *)
(***************************************************************************)
EXTENDS PropertyValues

CONSTANTS MaskBits,              \* bits of a mask, 32 in the code
          GetStruct(_, _),       \* the lookup of the mapping
          OverridableBit(_)      \* whether the control byte has a second one

\* _handle_serialization_control: a second byte when a bit says so.  Of unknown
\* bits only a note is made: the reader goes on behind what it has read.
SerializationControl(w, at) ==
  LET first == Read(w, at, 1)
  IN IF first.err \/ ~OverridableBit(w[at + 1]) THEN first ELSE Read(w, first.at, 1)

-----------------------------------------------------------------------------
(* The header: fragments [first, zeros, num] up to one without values, then *)
(* a mask for each fragment that has zeros.                                 *)

Fragment(word, cursor) ==
  [first |-> cursor + (word % 128), zeros |-> (word \div 128) % 2 = 1, num |-> (word \div 256) % 256]
Refused == [ok |-> FALSE, at |-> 0, list |-> <<>>]
RECURSIVE Fragments(_, _, _, _, _, _)
Fragments(w, at, end, cursor, count, list) ==
  LET f == Fragment(w[at + 1], cursor)
  IN IF at + 1 > end \/ at >= Len(w) THEN Refused
     ELSE IF f.num = 0 THEN [ok |-> list # <<>>, at |-> at + 1, list |-> list]
     ELSE IF f.first + f.num > count \/ Len(list) = count THEN Refused
     ELSE Fragments(w, at + 1, end, f.first + f.num, count, Append(list, f))

Masks(f) == IF f.zeros THEN (f.num + MaskBits - 1) \div MaskBits ELSE 0
BitOf(w, at, i) == (w[at + 1 + i \div MaskBits] \div 2 ^ (i % MaskBits)) % 2 = 1
Slot(index, zero) == [index |-> index, zero |-> zero]
\* The slots of the fragments, in order; the masks are behind each other.
Selected(w, at, list) ==
  LET MaskAt(k) == at + FoldLeft(LAMBDA n, f : n + Masks(f), 0, SubSeq(list, 1, k - 1))
  IN FlattenSeq([k \in DOMAIN list |->
       [i \in 1..list[k].num |-> Slot(list[k].first + i - 1, list[k].zeros /\ BitOf(w, MaskAt(k), i - 1))]])

\* _try_read_unversioned_header: the slots, or none and the place unchanged.
Header(w, at, end, count) ==
  LET fragments == Fragments(w, at, end, 0, count, <<>>)
      behind == fragments.at + FoldLeft(LAMBDA n, f : n + Masks(f), 0, fragments.list)
      slots == Selected(w, fragments.at, fragments.list)
      gone == [ok |-> FALSE, at |-> at, slots |-> <<>>]
  IN IF ~fragments.ok \/ behind > Len(w) THEN gone
     ELSE IF behind >= end /\ \E k \in DOMAIN slots : ~slots[k].zero THEN gone
     ELSE [ok |-> TRUE, at |-> behind, slots |-> slots]

-----------------------------------------------------------------------------
(* The properties of a struct, those it inherits first, by their index.     *)

RECURSIVE Lineage(_, _, _)
Lineage(types, struct, seen) ==
  IF struct = <<>> \/ struct[1].name \in seen THEN <<>>
  ELSE Append(Lineage(types, GetStruct(types, struct[1].super), seen \cup {struct[1].name}), struct[1])
ByIndex(slots) == SortSeq(slots, LAMBDA a, b : a.index < b.index)
OrderedProperties(types, struct) ==
  LET line == Lineage(types, struct, {}) IN FlattenSeq([k \in DOMAIN line |-> ByIndex(line[k].slots)])

\* FIXED_UNVERSIONED_SIZES, in words; an enumeration has the size of its type.
\* A bool has a size here although its reader takes nothing.
Sized == Whole \cup {"FloatProperty", "DoubleProperty", "Int64Property", "UInt64Property", "ObjectProperty", "ClassProperty",
                     "NameProperty", "GuidProperty"}
RECURSIVE FixedSize(_)
FixedSize(t) ==
  CASE t.type = "EnumProperty" -> IF t.inner = <<>> THEN 1 ELSE FixedSize(t.inner[1])
    [] t.type = "BoolProperty" -> 1
    [] t.type \in Sized -> FixedWidth(t.type)
    [] OTHER -> 0
SizeOfAll(types) == FoldLeft(LAMBDA n, t : n + FixedSize(t), 0, types)

\* _estimate_unversioned_variable_size: a count is looked at and not consumed;
\* it may be behind the end of the file, and that is not caught.
Counted == {"ArrayProperty", "SetProperty", "MapProperty"}
Estimate(w, at, t, remaining) ==
  LET width == SizeOfAll(t.inner \o t.value)
  IN IF remaining < 1 \/ width = 0 THEN 0
     ELSE CASE t.type = "OptionalProperty" -> Min({remaining, 1 + width})
            [] t.type \in Counted -> IF w[at + 1] \in 0..MaxCount THEN Min({remaining, 1 + w[at + 1] * width}) ELSE 0
            [] OTHER -> 0
CountIsMissing(w, at, t, remaining) ==
  /\ FixedSize(t) = 0 /\ remaining >= 1 /\ SizeOfAll(t.inner \o t.value) > 0
  /\ t.type \in Counted /\ at >= Len(w)
Size(w, at, t, remaining, last) ==
  IF FixedSize(t) > 0 THEN FixedSize(t)
  ELSE IF Estimate(w, at, t, remaining) > 0 THEN Estimate(w, at, t, remaining)
  ELSE IF last THEN remaining ELSE 0

TypeOrNone(types) == IF types = <<>> THEN "Unknown" ELSE types[1].type
StructOrNone(types) ==
  IF types # <<>> /\ types[1].type = "StructProperty" /\ types[1].name # <<>> THEN types[1].name ELSE "UnknownStruct"
\* _apply_mapping_type_to_tag
TagOf(t, size) ==
  [Bare(t.type) EXCEPT !.size = size, !.struct = StructOrNone(<<t>>), !.inner = TypeOrNone(t.inner),
                       !.innerStruct = StructOrNone(t.inner), !.key = TypeOrNone(t.inner), !.value = TypeOrNone(t.value)]

-----------------------------------------------------------------------------
(* The values.                                                              *)

\* parse_property_value at the top: in strict mode what its reader raises is
\* raised; the values within it are read by the default, tolerant.
LeftBy(r, tolerant) == IF tolerant THEN Fallback(r) ELSE r
Value(w, tag, at, tolerant) ==
  IF tag.type \notin Known THEN Raw(w, tag, at)
  ELSE LeftBy(Reader(w, tag, at, 0, tolerant), tolerant)

\* One property after the other up to the end of the data.  A zero takes no
\* data; in tolerant mode the reader goes on behind the size of what it could
\* not read.
Went(w, end, r, slot, tag, value, tolerant) ==
  LET to == IF value.err /\ tag.size > 0 THEN Min({r.at + tag.size, end, Len(w)}) ELSE value.at
  IN IF value.err /\ ~tolerant THEN [r EXCEPT !.err = TRUE]
     ELSE [r EXCEPT !.at = to, !.values = Append(@, [slot |-> slot, from |-> r.at, to |-> to])]
RECURSIVE ReadValues(_, _, _, _, _, _)
ReadValues(w, end, slots, properties, r, tolerant) ==
  LET slot == Head(slots)
      t == properties[slot.index + 1].type
      tag == TagOf(t, Size(w, r.at, t, end - r.at, Len(slots) = 1))
  IN IF r.err \/ slots = <<>> \/ (r.at >= end /\ ~slot.zero) THEN r
     ELSE IF CountIsMissing(w, r.at, t, end - r.at) THEN [r EXCEPT !.err = TRUE]
     ELSE ReadValues(w, end, Tail(slots), properties,
                     Went(w, end, r, slot, tag, IF slot.zero THEN At(r.at, 0) ELSE Value(w, tag, r.at, tolerant), tolerant),
                     tolerant)

\* What is left of the data is kept as it is; "offset" is where the result says
\* that it lies.
Rest(w, end, r) ==
  LET n == Max({0, Min({end, Len(w)}) - r.at})
  IN IF r.err THEN r ELSE [r EXCEPT !.at = @ + n, !.tail = n, !.offset = end - n]

\* Without a header every property of the struct is there.
ReadSlots(w, end, properties, header, tolerant) ==
  LET slots == IF header.ok THEN header.slots ELSE [k \in DOMAIN properties |-> Slot(k - 1, FALSE)]
      start == [at |-> header.at, err |-> FALSE, values |-> <<>>, tail |-> 0, offset |-> 0]
  IN ReadValues(w, end, slots, properties, start, tolerant)

\* _handle_unversioned_properties: without the mapping of the class the data is
\* one opaque block, as long as the export says.
ReadProperties(w, at, end, types, name, tolerant) ==
  LET struct == GetStruct(types, name)
      properties == OrderedProperties(types, struct)
      opaque == IF end > at THEN Read(w, at, end - at) ELSE At(at, 1)
  IN IF struct # <<>>
     THEN Rest(w, end, ReadSlots(w, end, properties, Header(w, at, end, Len(properties)), tolerant))
     ELSE [at |-> opaque.at, err |-> opaque.err, values |-> <<>>, tail |-> opaque.at - at, offset |-> at]

\* parse_properties_from_export of a package without tags.
ReadExport(w, at, end, extended, types, name, tolerant) ==
  LET control == IF extended THEN SerializationControl(w, at) ELSE At(at, 1)
  IN IF control.err THEN [at |-> at, err |-> TRUE, values |-> <<>>, tail |-> 0, offset |-> 0]
     ELSE ReadProperties(w, control.at, end, types, name, tolerant)

-----------------------------------------------------------------------------
(* Properties.                                                              *)

\* Whatever the words are, a header names properties of the struct, each at
\* most once and in order, and leaves room for a value that is not zero; or
\* there is none and nothing has been consumed.
HeaderIsSound(w, at, end, count) ==
  \A h \in {Header(w, at, end, count)} :
     IF ~h.ok THEN h.at = at
     ELSE /\ h.at > at /\ h.at <= Len(w) /\ h.slots # <<>>
          /\ \A k \in DOMAIN h.slots : h.slots[k].index \in 0..count - 1
          /\ \A k \in 2..Len(h.slots) : h.slots[k - 1].index < h.slots[k].index
          /\ h.at >= end => \A k \in DOMAIN h.slots : h.slots[k].zero

\* The header an engine writes: a fragment for each run of properties that are
\* there, a mask bit for each that is zero.  chosen[i] is "no", "value", "zero".
Runs(chosen) ==
  LET there(i) == i \in DOMAIN chosen /\ chosen[i] # "no"
      firsts == SetToSortSeq({i \in DOMAIN chosen : there(i) /\ ~there(i - 1)}, <)
  IN [k \in DOMAIN firsts |-> <<firsts[k], Min({j \in firsts[k]..Max(DOMAIN chosen) : ~there(j + 1)})>>]
WrittenHeader(chosen) ==
  LET runs == Runs(chosen)
      zero(i) == i \in DOMAIN chosen /\ chosen[i] = "zero"
      zeros(k) == \E i \in runs[k][1]..runs[k][2] : zero(i)
      before(k) == IF k = 1 THEN 0 ELSE runs[k - 1][2] + 1
      word(k) == (runs[k][1] - before(k)) + (IF zeros(k) THEN 128 ELSE 0) + 256 * (runs[k][2] - runs[k][1] + 1)
      mask(k, m) == FoldLeft(LAMBDA n, b : n + (IF runs[k][1] + m * MaskBits + b <= runs[k][2]
                                                   /\ zero(runs[k][1] + m * MaskBits + b) THEN 2 ^ b ELSE 0),
                             0, [b \in 1..MaskBits |-> b - 1])
      masks(k) == [m \in 1..(runs[k][2] - runs[k][1]) \div MaskBits + 1 |-> mask(k, m - 1)]
  IN [k \in DOMAIN runs |-> word(k)] \o <<0>>
       \o FlattenSeq([k \in DOMAIN runs |-> IF zeros(k) THEN masks(k) ELSE <<>>])
Present(chosen) ==
  LET there == SetToSortSeq({i \in DOMAIN chosen : chosen[i] # "no"}, <)
  IN [k \in DOMAIN there |-> Slot(there[k], chosen[there[k]] = "zero")]

\* The types whose value is read as it is written: not a bool, which is read
\* as nothing, nor an enumeration, which is read as a name whatever its type.
ReadAsWritten(t) ==
  \/ t.type \in (Sized \cup StringTypes)
  \/ t.type = "ArrayProperty" /\ t.inner[1].type \in Sized
Content(t, x) ==
  IF t.type = "ArrayProperty" THEN <<x>> \o Elements(<<t.inner[1].type>>, x, x) ELSE Written(t.type, x)

\* What is written of an export under a mapping is read back in both modes:
\* the properties that are there, each value from its first word to its last,
\* and behind them what the mapping does not know.  "control" is what stands
\* before the header in a version that has it.
ExportReadsBack(types, name, chosen, x, control, rest) ==
  LET properties == OrderedProperties(types, GetStruct(types, name))
      slots == Present(chosen)
      content(s) == IF s.zero THEN <<>> ELSE Content(properties[s.index + 1].type, x)
      before == control \o WrittenHeader(chosen)
      w == before \o FlattenSeq([k \in DOMAIN slots |-> content(slots[k])]) \o rest
      from(k) == Len(before) + Len(FlattenSeq([j \in 1..k - 1 |-> content(slots[j])]))
  IN (\A s \in ToSet(slots) : s.zero \/ ReadAsWritten(properties[s.index + 1].type)) /\ slots # <<>> =>
     \A r \in {ReadExport(w, 0, Len(w), control # <<>>, types, name, tolerant) : tolerant \in BOOLEAN} :
       /\ ~r.err /\ r.at = Len(w) /\ r.tail = Len(rest) /\ r.offset = Len(w) - Len(rest)
       /\ r.values = [k \in DOMAIN slots |-> [slot |-> slots[k], from |-> from(k), to |-> from(k) + Len(content(slots[k]))]]

\* Whatever the words are: no byte of the export is left unread, no property is
\* read twice, each begins where the one before it ended, and tolerant mode
\* differs only where strict mode raises.
ExportIsRead(w, at, end, extended, types, name) ==
  \A strict \in {ReadExport(w, at, end, extended, types, name, FALSE)},
     kind \in {ReadExport(w, at, end, extended, types, name, TRUE)} :
     /\ \A r \in {strict, kind} : ~r.err =>
          /\ r.at >= Min({end, Len(w)})
          /\ end <= Len(w) /\ r.tail > 0 => r.offset + r.tail = r.at /\ r.at = end
          /\ \A k \in 2..Len(r.values) : /\ r.values[k - 1].slot.index < r.values[k].slot.index
                                         /\ r.values[k - 1].to = r.values[k].from
     /\ ~strict.err => kind = strict

\* The properties of a struct are those of each struct it extends, the furthest
\* first and those of a struct by their index, every struct once though they
\* extend one another.
ParentsComeFirst(types, name) ==
  LET struct == GetStruct(types, name)
      Up[d \in 0..Cardinality(DOMAIN types)] ==
        IF d = 0 THEN struct ELSE IF Up[d - 1] = <<>> THEN <<>> ELSE GetStruct(types, Up[d - 1][1].super)
      structs == {Up[d] : d \in DOMAIN Up} \ {<<>>}
      order == OrderedProperties(types, struct)
      Distance(s) == Min({d \in DOMAIN Up : Up[d] = s})
      Before(p, q) == \A i, j \in DOMAIN order : order[i] = p /\ order[j] = q => i < j
  IN /\ Len(order) = FoldLeft(LAMBDA n, s : n + Len(s[1].slots), 0, SetToSeq(structs))
     /\ \A s \in structs : ToSet(s[1].slots) \subseteq ToSet(order)
     /\ \A s, t \in structs : \A p \in ToSet(s[1].slots), q \in ToSet(t[1].slots) :
          Distance(s) > Distance(t) \/ (s = t /\ p.index < q.index) => Before(p, q)
=============================================================================
