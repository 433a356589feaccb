------------------------------ MODULE Mappings ------------------------------
(***************************************************************************)
(* The mappings that name the properties of packages without tags: the     *)
(* .usmap format, the JSON form (.jmap), and the lookup of a property.     *)
(* Two readers exist, UsmapParser with TypeMappings (mappings.py) and      *)
(* UsmapData (parsers/usmap.py).                                           *)
(*                                                                         *)
(* A file is a sequence of bytes, and so is a name.  A type is             *)
(* [type, name, inner, value] with no or one inner and value type; a       *)
(* property is [index, name, type, dim], a struct [name, super, slots].    *)
(***************************************************************************)
EXTENDS Integers, SequencesExt, FiniteSetsExt

CONSTANTS MaxDepth,     \* MAX_RECURSION_DEPTH
          Unpack(_)     \* what the decompression libraries make of a payload

None == <<>>            \* no name; the empty name is taken for it

\* A reader answers [at, err, v]; an exception ends the ones behind it.
Got(at, v) == [at |-> at, err |-> FALSE, v |-> v]
Raised(at, v) == [at |-> at, err |-> TRUE, v |-> v]
Then(r, F(_, _)) == IF r.err THEN r ELSE F(r.at, r.v)
Take(b, at, k) == IF at + k <= Len(b) THEN Got(at + k, SubSeq(b, at + 1, at + k)) ELSE Raised(at, None)

Number(bytes) == FoldRight(LAMBDA x, n : 256 * n + x, bytes, 0)
Signed(bytes) ==
  LET k == Len(bytes) IN Number([bytes EXCEPT ![k] = IF bytes[k] > 127 THEN bytes[k] - 256 ELSE bytes[k]])
Unsigned(b, at, k) == Then(Take(b, at, k), LAMBDA p, x : Got(p, Number(x)))
Name(b, at, lut) ==
  Then(Take(b, at, 4),
       LAMBDA p, x : IF Signed(x) = -1 THEN Got(p, None)
                     ELSE IF Signed(x) + 1 \in DOMAIN lut THEN Got(p, lut[Signed(x) + 1]) ELSE Raised(p, None))

\* k things one behind the other.
RECURSIVE Many(_, _, _)
Many(Item(_), at, k) ==
  IF k = 0 THEN Got(at, <<>>)
  ELSE LET x == Item(at)
           rest == Many(Item, x.at, k - 1)
       IN IF x.err THEN x ELSE IF rest.err THEN rest ELSE Got(rest.at, <<x.v>> \o rest.v)

-----------------------------------------------------------------------------
(* Types.                                                                   *)

TypeNames ==
  <<"ByteProperty", "BoolProperty", "IntProperty", "FloatProperty", "ObjectProperty", "NameProperty", "DelegateProperty",
    "DoubleProperty", "ArrayProperty", "StructProperty", "StrProperty", "TextProperty", "InterfaceProperty",
    "MulticastDelegateProperty", "WeakObjectProperty", "LazyObjectProperty", "AssetObjectProperty", "SoftObjectProperty",
    "UInt64Property", "UInt32Property", "UInt16Property", "Int64Property", "Int16Property", "Int8Property", "MapProperty",
    "SetProperty", "EnumProperty", "FieldPathProperty", "OptionalProperty", "Utf8StrProperty", "AnsiStrProperty",
    "ClassProperty", "MulticastInlineDelegateProperty", "SoftClassProperty", "VerseStringProperty",
    "VerseDynamicProperty", "VerseFunctionProperty">>
TypeName(id) ==
  IF id < Len(TypeNames) THEN TypeNames[id + 1]
  ELSE CASE id = 253 -> "CustomProperty_FD" [] id = 254 -> "CustomProperty_FE" [] OTHER -> "Unknown"
OfOneType == {"ArrayProperty", "SetProperty", "OptionalProperty"}

Plain(type) == [type |-> type, name |-> None, inner |-> <<>>, value |-> <<>>]

RECURSIVE PropertyType(_, _, _, _)
PropertyType(b, at, lut, depth) ==
  LET id == Unsigned(b, at, 1)
      type == TypeName(id.v)
      Inner(p) == PropertyType(b, p, lut, depth + 1)
  IN IF depth > MaxDepth \/ id.err THEN Raised(at, None)
     ELSE CASE type = "EnumProperty" ->
                 Then(Inner(id.at), LAMBDA p, t :
                   Then(Name(b, p, lut), LAMBDA q, n : Got(q, [Plain(type) EXCEPT !.name = n, !.inner = <<t>>])))
            [] type = "StructProperty" -> Then(Name(b, id.at, lut), LAMBDA p, n : Got(p, [Plain(type) EXCEPT !.name = n]))
            [] type \in OfOneType -> Then(Inner(id.at), LAMBDA p, t : Got(p, [Plain(type) EXCEPT !.inner = <<t>>]))
            [] type = "MapProperty" ->
                 Then(Inner(id.at), LAMBDA p, t :
                   Then(Inner(p), LAMBDA q, u : Got(q, [Plain(type) EXCEPT !.inner = <<t>>, !.value = <<u>>])))
            [] OTHER -> Got(id.at, Plain(type))

-----------------------------------------------------------------------------
(* Structs: a property of n dimensions takes n slots from its index on.  A  *)
(* slot that is taken twice keeps its place in the dict and its last entry. *)

Put(slots, e) ==
  IF \E k \in DOMAIN slots : slots[k].index = e.index
  THEN [k \in DOMAIN slots |-> IF slots[k].index = e.index THEN e ELSE slots[k]] ELSE Append(slots, e)
Expand(p) == [k \in 1..p.dim |-> [p EXCEPT !.index = p.index + k - 1]]
Slots(props) == FoldLeft(Put, <<>>, FlattenSeq([i \in DOMAIN props |-> Expand(props[i])]))

Property(b, at, lut) ==
  Then(Unsigned(b, at, 2), LAMBDA p1, index :
    Then(Unsigned(b, p1, 1), LAMBDA p2, dim :
      Then(Name(b, p2, lut), LAMBDA p3, name :
        Then(PropertyType(b, p3, lut, 0), LAMBDA p4, type :
          Got(p4, [index |-> index, name |-> name, type |-> type, dim |-> dim])))))
StructOf(b, at, lut) ==
  Then(Name(b, at, lut), LAMBDA p1, name :
    Then(Name(b, p1, lut), LAMBDA p2, super :
      Then(Unsigned(b, p2 + 2, 2), LAMBDA p3, count :          \* behind property_count
        Then(Many(LAMBDA p : Property(b, p, lut), p3, count), LAMBDA p4, props :
          Got(p4, [name |-> name, super |-> super, slots |-> Slots(props)])))))

\* An enumeration has its values from version 4 on; before they are counted.
\* Values that occur twice keep their last name.
Values(list) ==
  [v \in {list[k].value : k \in DOMAIN list} |-> list[Max({k \in DOMAIN list : list[k].value = v})].name]
EnumValue(b, at, lut, version) ==
  Then(IF version >= 4 THEN Unsigned(b, at, 8) ELSE Got(at, 0), LAMBDA p, value :
    Then(Name(b, p, lut), LAMBDA q, name : Got(q, [value |-> value, name |-> name])))
EnumOf(b, at, lut, version) ==
  Then(Name(b, at, lut), LAMBDA p1, name :
    Then(Unsigned(b, p1, IF version >= 3 THEN 2 ELSE 1), LAMBDA p2, count :
      Then(Many(LAMBDA p : EnumValue(b, p, lut, version), p2, count), LAMBDA p3, values :
        Got(p3, [name |-> name,
                 values |-> Values(IF version >= 4 THEN values
                                   ELSE [i \in DOMAIN values |-> [values[i] EXCEPT !.value = i - 1]])]))))

-----------------------------------------------------------------------------
(* The file: a header, and a payload of names, enumerations and structs.    *)

Counted(b, at, Item(_)) == Then(Unsigned(b, at, 4), LAMBDA p, count : Many(Item, p, count))
NameEntry(b, at, version) ==
  Then(Unsigned(b, at, IF version >= 2 THEN 2 ELSE 1), LAMBDA p, length : Take(b, p, length))

\* Of several things of a name a dict keeps one: the last, or the first where
\* the code says setdefault.
LastNamed(list, name) == list[Max({k \in DOMAIN list : list[k].name = name})]
FirstNamed(list, name) == list[Min({k \in DOMAIN list : list[k].name = name})]
Table(list, Kept(_, _)) == [n \in {list[k].name : k \in DOMAIN list} |-> Kept(list, n)]

Tables(b, version) ==
  Then(Counted(b, 0, LAMBDA p : NameEntry(b, p, version)), LAMBDA p1, lut :
    Then(Counted(b, p1, LAMBDA p : EnumOf(b, p, lut, version)), LAMBDA p2, enums :
      Then(Counted(b, p2, LAMBDA p : StructOf(b, p, lut)), LAMBDA p3, structs :
        Got(p3, [enums |-> enums, structs |-> structs]))))

Decompress(payload, method, size) ==
  CASE method = 0 -> IF Len(payload) = size THEN Got(0, payload) ELSE Raised(0, None)
    [] method \in {2, 3} -> IF Len(Unpack(payload)) <= size THEN Got(0, Unpack(payload)) ELSE Raised(0, None)
    [] OTHER -> Raised(0, None)

\* Engine versions, custom versions and the changelist, when a flag says so.
Versioning(b, at) ==
  Then(Unsigned(b, at, 1), LAMBDA p, has :
    IF has = 0 THEN Got(p, 0)
    ELSE Then(Take(b, p, 8), LAMBDA p1, versions :
           Then(Take(b, p1, 4), LAMBDA p2, count :
             IF Signed(count) < 0 THEN Raised(p2, None) ELSE Take(b, p2, 20 * Signed(count) + 4))))
Payload(b, at) ==
  Then(Unsigned(b, at, 1), LAMBDA p1, method :
    Then(Unsigned(b, p1, 4), LAMBDA p2, packed :
      Then(Unsigned(b, p2, 4), LAMBDA p3, size :
        Then(Take(b, p3, packed), LAMBDA p4, payload : Decompress(payload, method, size)))))
Read(b) ==
  Then(Unsigned(b, 0, 2), LAMBDA p1, magic :
    Then(Unsigned(b, p1, 1), LAMBDA p2, version :
      IF magic # 12484 \/ version > 4 THEN Raised(p2, None)          \* 0x30C4
      ELSE Then(IF version >= 1 THEN Versioning(b, p2) ELSE Got(p2, 0), LAMBDA p3, x :
             Then(Payload(b, p3), LAMBDA p4, payload : Tables(payload, version)))))

\* UsmapParser and UsmapData.
TypeMappings(b) ==
  Then(Read(b), LAMBDA p, t : Got(p, [enums |-> Table(t.enums, FirstNamed), types |-> Table(t.structs, LastNamed)]))
UsmapData(b) ==
  Then(Read(b), LAMBDA p, t : Got(p, [enums |-> Table(t.enums, LastNamed), types |-> Table(t.structs, LastNamed)]))

-----------------------------------------------------------------------------
(* The JSON form.  A property is [name, type, of, dim, inner, value]: "of"  *)
(* is the full name of its struct or enumeration, dim 0 where it is absent. *)

Dot == 46
Short(name) == SubSeq(name, 1 + Max({0} \cup {i \in DOMAIN name : name[i] = Dot}), Len(name))
WhenAbsent(types, type) == IF types = <<>> THEN <<Plain(type)>> ELSE types

\* JmapParser: what is missing of a type is Unknown, or a byte; an exception is
\* the type "too deep".
RECURSIVE JmapType(_, _)
JmapType(p, depth) ==
  LET Of(list) == [j \in DOMAIN list |-> JmapType(list[j], depth + 1)]
      inner == Of(p.inner)
      value == Of(p.value)
  IN IF depth > MaxDepth THEN Plain("too deep")
     ELSE [type |-> p.type, name |-> Short(p.of),
           inner |-> CASE p.type = "EnumProperty" -> WhenAbsent(inner, "ByteProperty")
                       [] p.type \in OfOneType \cup {"MapProperty"} -> WhenAbsent(inner, "Unknown")
                       [] OTHER -> inner,
           value |-> IF p.type = "MapProperty" THEN WhenAbsent(value, "Unknown") ELSE value]
RECURSIVE TooDeep(_)
TooDeep(t) == t.type = "too deep" \/ \E u \in ToSet(t.inner \o t.value) : TooDeep(u)

Dimension(p) == IF p.dim = 0 THEN 1 ELSE p.dim
JmapSlots(props) ==
  LET Slot(p, i) == [index |-> i, name |-> p.name, type |-> JmapType(p, 0), dim |-> Dimension(p)]
      Add(slots, p) == slots \o [k \in 1..Dimension(p) |-> Slot(p, Len(slots) + k - 1)]
  IN FoldLeft(Add, <<>>, props)

\* UsmapData._load_jmap: what is missing stays so, and the slots of an array
\* are one.
RECURSIVE JmapDataType(_, _)
JmapDataType(p, depth) ==
  LET Of(list) == [j \in DOMAIN list |-> JmapDataType(list[j], depth + 1)]
  IN IF depth > MaxDepth + 1 THEN Plain("too deep")
     ELSE [type |-> p.type, name |-> Short(p.of), inner |-> Of(p.inner), value |-> Of(p.value)]
JmapDataSlots(props) ==
  [i \in DOMAIN props |-> [index |-> i - 1, name |-> props[i].name, type |-> JmapDataType(props[i], 0), dim |-> Dimension(props[i])]]

-----------------------------------------------------------------------------
(* Lookup, on a struct and on those it extends.                             *)

GetStruct(types, name) ==
  IF name = None THEN <<>>
  ELSE IF Short(name) \in DOMAIN types THEN <<types[Short(name)]>>
  ELSE IF name \in DOMAIN types THEN <<types[name]>> ELSE <<>>

Lower(name) == [i \in DOMAIN name |-> IF name[i] \in 65..90 THEN name[i] + 32 ELSE name[i]]
InStruct(struct, name) == SelectSeq(struct.slots, LAMBDA p : Lower(p.name) = Lower(name))

RECURSIVE Along(_, _, _, _)
Along(types, struct, name, seen) ==
  IF struct = <<>> \/ struct[1].name \in seen THEN <<>>
  ELSE LET found == InStruct(struct[1], name)
       IN IF found # <<>> THEN <<found[1]>>
          ELSE Along(types, GetStruct(types, struct[1].super), name, seen \cup {struct[1].name})
PropertyByName(types, name, property) == Along(types, GetStruct(types, name), property, {})

-----------------------------------------------------------------------------
(* Properties.                                                              *)

\* What a writer of the format makes of names, enumerations and structs with
\* their properties.
RECURSIVE Little(_, _)
Little(n, k) == IF k = 0 THEN <<>> ELSE <<n % 256>> \o Little(n \div 256, k - 1)
All(list, Written(_)) == FlattenSeq([i \in DOMAIN list |-> Written(list[i])])
Index(names, n) ==
  IF n = None THEN <<255, 255, 255, 255>> ELSE Little((CHOOSE i \in DOMAIN names : names[i] = n) - 1, 4)
RECURSIVE WrittenType(_, _)
WrittenType(names, t) ==
  <<(CHOOSE i \in DOMAIN TypeNames : TypeNames[i] = t.type) - 1>>
    \o All(t.inner \o t.value, LAMBDA u : WrittenType(names, u))
    \o (IF t.type \in {"EnumProperty", "StructProperty"} THEN Index(names, t.name) ELSE <<>>)
WrittenProperty(names, p) == Little(p.index, 2) \o <<p.dim>> \o Index(names, p.name) \o WrittenType(names, p.type)
WrittenStruct(names, s) ==
  Index(names, s.name) \o Index(names, s.super) \o Little(Len(s.props), 2) \o Little(Len(s.props), 2)
    \o All(s.props, LAMBDA p : WrittenProperty(names, p))
WrittenEnum(names, e, version) ==
  Index(names, e.name) \o Little(Len(e.values), IF version >= 3 THEN 2 ELSE 1)
    \o All(e.values, LAMBDA x : (IF version >= 4 THEN Little(x.value, 8) ELSE <<>>) \o Index(names, x.name))
WrittenTables(m, version) ==
  Little(Len(m.names), 4) \o All(m.names, LAMBDA n : Little(Len(n), IF version >= 2 THEN 2 ELSE 1) \o n)
    \o Little(Len(m.enums), 4) \o All(m.enums, LAMBDA e : WrittenEnum(m.names, e, version))
    \o Little(Len(m.structs), 4) \o All(m.structs, LAMBDA s : WrittenStruct(m.names, s))
\* Unpacking is its own inverse where this is used.
WrittenFile(m, version, method, customs) ==
  LET tables == WrittenTables(m, version)
      payload == IF method = 0 THEN tables ELSE Unpack(tables)
      versions == IF customs < 0 THEN <<0>> ELSE <<1>> \o [i \in 1..8 |-> 7] \o Little(customs, 4) \o [i \in 1..20 * customs + 4 |-> 7]
  IN <<196, 48, version>> \o (IF version >= 1 THEN versions ELSE <<>>)
       \o <<method>> \o Little(Len(payload), 4) \o Little(Len(tables), 4) \o payload

\* The slots of a struct: each is the last property that covers it.
SlotsCover(props, slots) ==
  LET Covers(p, i) == i >= p.index /\ i < p.index + p.dim
  IN /\ {slots[k].index : k \in DOMAIN slots} = UNION {p.index..p.index + p.dim - 1 : p \in ToSet(props)}
     /\ Cardinality({slots[k].index : k \in DOMAIN slots}) = Len(slots)
     /\ \A k \in DOMAIN slots :
          LET by == Max({j \in DOMAIN props : Covers(props[j], slots[k].index)})
          IN slots[k] = [props[by] EXCEPT !.index = slots[k].index]

\* A mapping reads back in every version and compression; both readers give
\* the same structs, and of two enumerations of a name the first and the last;
\* no shorter file or payload is a mapping, and what follows changes nothing.
MappingsReadBack(m, version, method, customs) ==
  LET tables == WrittenTables(m, version)
      Expected(e) == Values(IF version >= 4 THEN e.values ELSE [i \in DOMAIN e.values |-> [value |-> i - 1, name |-> e.values[i].name]])
  IN \A b \in {WrittenFile(m, version, method, customs)} : \A r \in {TypeMappings(b)}, data \in {UsmapData(b)} :
     /\ ~r.err /\ ~data.err /\ r.v.types = data.v.types /\ TypeMappings(b \o <<7>>).v = r.v
     /\ DOMAIN r.v.types = {s.name : s \in ToSet(m.structs)}
     /\ \A n \in DOMAIN r.v.types : LET s == LastNamed(m.structs, n)
                                    IN r.v.types[n].super = s.super /\ SlotsCover(s.props, r.v.types[n].slots)
     /\ \A n \in DOMAIN r.v.enums : /\ r.v.enums[n].values = Expected(FirstNamed(m.enums, n))
                                    /\ data.v.enums[n].values = Expected(LastNamed(m.enums, n))
     /\ \A k \in 0..Len(b) - 1 : TypeMappings(SubSeq(b, 1, k)).err
     /\ \A k \in 0..Len(tables) - 1 : Tables(SubSeq(tables, 1, k), version).err

\* The JSON form of a struct gives the slots of its usmap form, in TypeMappings
\* always and in UsmapData where no property is an array; it is refused when
\* its types nest too deep, as the usmap form is.
RECURSIVE AsMapped(_), Nesting(_)
AsMapped(p) ==
  [type |-> p.type, name |-> Short(p.of), inner |-> [j \in DOMAIN p.inner |-> AsMapped(p.inner[j])],
   value |-> [j \in DOMAIN p.value |-> AsMapped(p.value[j])]]
Nesting(p) == IF p.inner \o p.value = <<>> THEN 0 ELSE 1 + Max({Nesting(q) : q \in ToSet(p.inner \o p.value)})
JmapIsUsmap(props, lut) ==
  LET First(i) == FoldLeft(LAMBDA n, p : n + Dimension(p), 0, SubSeq(props, 1, i - 1))
      usmap == Slots([i \in DOMAIN props |->
                       [index |-> First(i), name |-> props[i].name, type |-> AsMapped(props[i]), dim |-> Dimension(props[i])]])
      deep == \E p \in ToSet(props) : Nesting(p) > MaxDepth
  IN /\ (\E p \in ToSet(props) : TooDeep(JmapType(p, 0))) <=> deep
     /\ \A p \in ToSet(props) : PropertyType(WrittenType(lut, AsMapped(p)), 0, lut, 0).err <=> Nesting(p) > MaxDepth
     /\ ~deep => JmapSlots(props) = usmap
     /\ ~deep /\ (\A p \in ToSet(props) : Dimension(p) = 1) => JmapDataSlots(props) = usmap

\* A property is looked for on the struct and on each that it extends, the
\* nearest first, and the search ends where they extend one another.
LookupIsNearest(types, name, property) ==
  LET Up[d \in 0..Cardinality(DOMAIN types)] ==
        IF d = 0 THEN GetStruct(types, name)
        ELSE IF Up[d - 1] = <<>> THEN <<>> ELSE GetStruct(types, Up[d - 1][1].super)
      found == {d \in DOMAIN Up : Up[d] # <<>> /\ InStruct(Up[d][1], property) # <<>>}
  IN PropertyByName(types, name, property) =
       IF found = {} THEN <<>> ELSE <<InStruct(Up[Min(found)][1], property)[1]>>
=============================================================================
