---------------------------- MODULE PropertyValues ----------------------------
(***************************************************************************)
(* parse_property_value: how the value of a tag is read, by its type.      *)
(*                                                                         *)
(* A file is a sequence of words: a number of up to 32 bits, a name and a  *)
(* character are a word each, 64 bits are two and a guid is four.  A tag   *)
(* is [type, size, struct, inner, innerStruct, key, value, serialize].  A  *)
(* reader answers [at, err, n]: the position it leaves, whether it raised, *)
(* and the number of elements it made.                                     *)
(***************************************************************************)
EXTENDS Integers, SequencesExt, FiniteSetsExt

CONSTANTS MaxCount,     \* MAX_ARRAY_COUNT, MAX_PROPERTY_COUNT, MAX_SAFE_COUNT
          MaxString,    \* MAX_FSTRING_LENGTH
          ArrayDepth, StructDepth,    \* MAX_DEPTH of arrays (10) and structs (5)
          FallbackWords,              \* _MAX_TAGGED_FALLBACK_BYTES
          Tags,         \* the tags a tagged struct can hold, by the word that names one
          TagLen,       \* the words of a tag
          Doubles       \* whether the version of the file has large world coordinates

At(at, n) == [at |-> at, err |-> FALSE, n |-> n]
Raised(at) == [at |-> at, err |-> TRUE, n |-> 0]

Read(w, at, k) == IF at + k <= Len(w) THEN At(at + k, 1) ELSE Raised(at)
SeekTo(w, at, to, n) == IF to \in 0..Len(w) THEN At(to, n) ELSE Raised(at)

\* Readers one behind the other; an exception ends them.
RECURSIVE Times(_, _, _)
Times(Reader(_), r, k) ==
  IF k = 0 \/ r.err THEN r ELSE LET next == Reader(r.at) IN Times(Reader, [next EXCEPT !.n = r.n + 1], k - 1)
Then(r, Reader(_)) == IF r.err THEN r ELSE Reader(r.at)

\* Of archive.py: a refused string raises, or is "" and consumes nothing.
Str(w, at, tolerant) ==
  IF at >= Len(w) THEN Raised(at)
  ELSE LET n == w[at + 1] IN
       IF n = 0 THEN At(at + 1, 1)
       ELSE IF n \in 1..MaxString /\ at + 1 + n <= Len(w) THEN At(at + 1 + n, 1)
       ELSE IF tolerant THEN At(at, 1) ELSE Raised(at)
RECURSIVE Strings(_, _, _, _)
Strings(w, at, k, tolerant) ==
  LET r == Str(w, at, tolerant) IN IF k = 0 THEN At(at, 1) ELSE IF r.err THEN r ELSE Strings(w, r.at, k - 1, tolerant)

\* read_validated_count_tolerant: a count out of range is none at all.
Count(w, at) ==
  IF at >= Len(w) THEN [at |-> at, err |-> TRUE, n |-> 0]
  ELSE [at |-> at + 1, err |-> FALSE, n |-> IF w[at + 1] \in 0..MaxCount THEN w[at + 1] ELSE 0]
\* A count and as many of what a reader reads.
Several(Reader(_), c) == IF c.err THEN c ELSE Times(Reader, At(c.at, 0), c.n)

-----------------------------------------------------------------------------
(* Types of a fixed width; a bool is in its tag and reads nothing.          *)

Whole == {"IntProperty", "Int8Property", "Int16Property", "ByteProperty", "UInt16Property", "UInt32Property"}
Indexes == {"NameProperty", "EnumProperty", "ObjectProperty", "ClassProperty", "InterfaceProperty", "WeakObjectProperty",
            "VerseClassProperty", "VerseFunctionProperty", "VerseDynamicProperty"}
OneWord == Whole \cup Indexes \cup {"FloatProperty"}
TwoWords == {"Int64Property", "UInt64Property", "DoubleProperty", "DelegateProperty"}
FixedWidth(type) ==
  CASE type = "BoolProperty" -> 0 [] type \in OneWord -> 1 [] type \in TwoWords -> 2 [] type = "GuidProperty" -> 4
Fixed == OneWord \cup TwoWords \cup {"BoolProperty", "GuidProperty"}
StringTypes == {"StrProperty", "Utf8StrProperty", "AnsiStrProperty", "VerseStringProperty", "AssetObjectProperty",
                "AssetClassProperty"}
DelegateLists == {"MulticastDelegateProperty", "MulticastInlineDelegateProperty", "MulticastSparseDelegateProperty"}

\* Texts: flags and a history type, then the strings of its kind.  Kinds with
\* arguments count them; another kind takes what is left of the tag.
TextStrings == [h \in 0..10 |-> CASE h = 0 -> 3 [] h = 1 -> 2 [] h \in 2..3 -> 3 [] h = 6 -> 5 [] OTHER -> 4]
TextWithArguments == 1..3
Text(w, tag, at, tolerant) ==
  LET h == w[at + 2]
      strings == Strings(w, at + 2, TextStrings[h], tolerant)
      count == Count(w, strings.at)
  IN IF at + 2 > Len(w) THEN Raised(at)
     ELSE IF h \notin 0..10 THEN (IF tag.size > 2 THEN Read(w, at + 2, tag.size - 2) ELSE At(at + 2, 1))
     ELSE IF strings.err \/ h \notin TextWithArguments THEN strings
     ELSE IF count.err THEN count ELSE Strings(w, count.at, 2 * count.n, tolerant)

\* Soft references: an index into the package's list, or two strings.
SoftObject(w, at, listed, tolerant) == IF listed THEN Read(w, at, 1) ELSE Strings(w, at, 2, tolerant)
\* A guid as long as its tag says; what is left of a Verse value is kept raw.
LazyObject(w, tag, at) == Read(w, at, IF tag.size > 0 THEN tag.size ELSE 4)
VerseCell(w, tag, at) ==
  LET k == IF tag.size >= 2 THEN 2 ELSE IF tag.size >= 1 THEN 1 ELSE 0 IN Read(w, at, Max({k, tag.size}))
VerseValue(w, tag, at, tolerant) ==
  LET type == IF tag.size >= 1 THEN Read(w, at, 1) ELSE At(at, 1)
      string == IF tag.size > 1 THEN Then(type, LAMBDA p : Str(w, p, tolerant)) ELSE type
  IN IF string.err THEN string
     ELSE IF tag.size > string.at - at THEN Read(w, string.at, tag.size - (string.at - at)) ELSE string
DelegateList(w, at) ==
  LET c == Count(w, at) IN IF c.err THEN c ELSE Read(w, c.at, 2 * c.n)
FieldPath(w, at) ==
  LET c == Count(w, at) IN IF c.err THEN c ELSE Read(w, c.at, c.n)

-----------------------------------------------------------------------------
(* Structs with a layout of their own.  Floats are a word, doubles two.     *)

Vectors == [Vector |-> 3, Rotator |-> 3, Vector2D |-> 2, Vector4 |-> 4, Quat |-> 4, Plane |-> 4, Sphere |-> 4,
            Transform |-> 10]
Flat == [LinearColor |-> 4, Color |-> 1, Guid |-> 4, IntPoint |-> 2, IntVector |-> 3, Box2D |-> 5, OrientedBox |-> 15]
\* What has a double form by its size, although only floats are read.
FloatsOnly == [Box |-> 7, Matrix |-> 16, TwoVectors |-> 6]
FallbackStructs == {"MemberReference", "BoxSphereBounds", "FrameRate"}

\* get_struct_size: the single size of a flat struct, both of the others.
Wide(struct) == struct \in DOMAIN Vectors \cup DOMAIN FloatsOnly \cup {"BoxSphereBounds"}
FloatSize(struct) ==
  CASE struct \in DOMAIN Vectors -> Vectors[struct] [] struct \in DOMAIN Flat -> Flat[struct]
    [] struct \in DOMAIN FloatsOnly -> FloatsOnly[struct] [] struct = "BoxSphereBounds" -> 7
    [] struct = "FrameRate" -> 2 [] OTHER -> -1
StructSize(struct) == IF Wide(struct) /\ Doubles THEN 2 * FloatSize(struct) ELSE FloatSize(struct)

\* The type that chooses the reader: none when the size of the tag is not one
\* of the struct's, and a struct with named fields gives way to its fields.
Layout(tag) ==
  LET s == tag.struct
      expected == StructSize(s)
  IN IF expected = -1 \/ tag.size = expected THEN s
     ELSE IF s \notin FallbackStructs /\ Wide(s) /\ tag.size \in {FloatSize(s), 2 * FloatSize(s)} THEN s ELSE "none"

\* _try_fast_path_struct: the words it reads, -1 when it has no reader.
FastWords(s, size) ==
  CASE s \in DOMAIN Vectors -> IF size = 2 * Vectors[s] THEN 2 * Vectors[s] ELSE Vectors[s]
    [] s \in DOMAIN Flat -> Flat[s]
    [] s \in DOMAIN FloatsOnly -> FloatsOnly[s]
    [] s = "TopLevelAssetPath" -> 2 [] s = "PointerToUberGraphFrame" -> 2
    [] s = "BoxSphereBounds" -> IF size \in {10, 13, 14} THEN size ELSE Max({7, size})
    [] OTHER -> -1

-----------------------------------------------------------------------------
(* Values within values.                                                    *)

Bare(type) == [type |-> type, size |-> 0, struct |-> "UnknownStruct", inner |-> "Unknown", innerStruct |-> "UnknownStruct",
               key |-> "IntProperty", value |-> "IntProperty", serialize |-> "Property"]
\* Bytes of a type nobody reads; they are not read in the try of a value.  The
\* readers a game registers for binary and custom types are left out.
Raw(w, tag, at) == IF tag.size > 0 THEN Read(w, at, tag.size) ELSE At(at, 1)
\* What a map takes for a key: other types read nothing.
KeyTypes == {"IntProperty", "Int64Property", "FloatProperty", "DoubleProperty", "StrProperty", "NameProperty",
             "BoolProperty", "ByteProperty", "UInt16Property", "UInt32Property", "UInt64Property", "ObjectProperty", "EnumProperty"}

RECURSIVE Parse(_, _, _, _, _), Reader(_, _, _, _, _), Fields(_, _, _, _, _, _), Struct(_, _, _, _, _)

Array(w, tag, at, depth, tolerant) ==
  LET element == [Bare(tag.inner) EXCEPT !.struct = tag.innerStruct]
  IN IF depth > ArrayDepth THEN Raised(at)
     ELSE IF tag.size < 1 THEN At(at, 0)
     ELSE Several(LAMBDA p : Parse(w, element, p, depth + 1, tolerant), Count(w, at))

Key(w, type, at, tolerant) ==
  IF type = "StructProperty" THEN Struct(w, Bare(type), at, 0, tolerant)
  ELSE IF type \in KeyTypes THEN Parse(w, Bare(type), at, 0, tolerant) ELSE At(at, 1)
Map(w, tag, at, tolerant) ==
  LET KeyAt(p) == Key(w, tag.key, p, tolerant)
      Entry(p) == Then(KeyAt(p), LAMBDA q : Parse(w, Bare(tag.value), q, 0, tolerant))
  IN Then(Several(KeyAt, Count(w, at)), LAMBDA p : Several(Entry, Count(w, p)))

\* Variant: the removed elements of a set are counted and not read.
SetKeepsRemoved(w, tag, at, tolerant) ==
  LET c == Count(w, Count(w, at).at)
  IN IF c.err THEN c ELSE Times(LAMBDA p : Parse(w, Bare(tag.inner), p, 0, tolerant), At(c.at, 0), c.n)

Set(w, tag, at, tolerant) ==
  LET Element(p) == Parse(w, Bare(tag.inner), p, 0, tolerant)
  IN Then(Several(Element, Count(w, at)), LAMBDA p : Several(Element, Count(w, p)))

\* The value of an optional starts again at depth 0.
Optional(w, tag, at, tolerant) ==
  IF at >= Len(w) THEN Raised(at)
  ELSE IF w[at + 1] = 0 THEN At(at + 1, 1)
  ELSE Parse(w, [Bare(tag.inner) EXCEPT !.size = Max({0, tag.size - 1})], at + 1, 0, tolerant)

\* read_tag_value_bounded: to the end of the value, whether it was read or not.
SeekBehind(w, read, stop) == LET back == SeekTo(w, read.at, stop, 1) IN [back EXCEPT !.err = @ \/ read.err]

\* The fields of a tagged struct: tags up to the one that is None (0), each
\* value within its tag, each tag within the struct.
Fields(w, at, end, limit, depth, tolerant) ==
  LET tag == Tags[w[at + 1]]
      value == at + TagLen
      stop == value + Max({0, tag.size})
      back == SeekBehind(w, Parse(w, tag, value, depth + 1, tolerant), stop)
  IN IF limit # -1 /\ at >= limit THEN At(at, 1)
     ELSE IF at >= Len(w) THEN Raised(at)
     ELSE IF w[at + 1] \notin DOMAIN Tags THEN At(at + 1, 1)
     ELSE IF value > Len(w) \/ (end # -1 /\ stop > end) THEN Raised(value)
     ELSE IF back.err THEN Raised(back.at)
     ELSE Fields(w, stop, end, limit, depth, tolerant)

\* What a struct without named fields makes of an exception in its fields.
EndOfStruct(w, tag, end, fields) ==
  IF (fields.err /\ tag.struct \in FallbackStructs) \/ end = -1 THEN fields ELSE SeekTo(w, fields.at, end, 1)
Struct(w, tag, at, depth, tolerant) ==
  LET layout == Layout(tag)
      fast == FastWords(layout, tag.size)
      end == IF tag.size > 0 THEN at + tag.size ELSE -1
  IN IF depth > StructDepth THEN Raised(at)
     ELSE IF tag.size < 0 THEN At(Len(w), 1)       \* taken for a size of at least 2^31
     ELSE IF fast # -1 THEN Read(w, at, fast)
     ELSE IF tag.struct \notin FallbackStructs /\ tag.size <= 0 THEN At(at, 1)
     ELSE EndOfStruct(w, tag, end, Fields(w, at, end, IF end = -1 THEN at + FallbackWords ELSE -1, depth, tolerant))

\* parse_property_value: the reader of the type; with a tolerant archive and
\* by the default of "tolerant", what it raises makes a fallback, and the
\* place stays where the exception left it.
Reader(w, tag, at, depth, tolerant) ==
  CASE tag.type \in Fixed -> Read(w, at, FixedWidth(tag.type))
    [] tag.type \in StringTypes -> Str(w, at, tolerant)
    [] tag.type = "TextProperty" -> Text(w, tag, at, tolerant)
    [] tag.type \in {"SoftObjectProperty", "SoftClassProperty"} -> SoftObject(w, at, FALSE, tolerant)
    [] tag.type = "LazyObjectProperty" -> LazyObject(w, tag, at)
    [] tag.type = "VerseCellProperty" -> VerseCell(w, tag, at)
    [] tag.type = "VerseValueProperty" -> VerseValue(w, tag, at, tolerant)
    [] tag.type \in DelegateLists -> DelegateList(w, at)
    [] tag.type = "FieldPathProperty" -> FieldPath(w, at)
    [] tag.type = "ArrayProperty" -> Array(w, tag, at, depth, tolerant)
    [] tag.type = "MapProperty" -> Map(w, tag, at, tolerant)
    [] tag.type = "SetProperty" -> Set(w, tag, at, tolerant)
    [] tag.type = "OptionalProperty" -> Optional(w, tag, at, tolerant)
    [] tag.type = "StructProperty" -> Struct(w, tag, at, depth, tolerant)

Known == Fixed \cup StringTypes \cup DelegateLists \cup
  {"TextProperty", "SoftObjectProperty", "SoftClassProperty", "LazyObjectProperty", "VerseCellProperty", "VerseValueProperty",
   "FieldPathProperty", "ArrayProperty", "MapProperty", "SetProperty", "OptionalProperty", "StructProperty"}
Fallback(r) == IF r.err THEN At(r.at, 1) ELSE r
Parse(w, tag, at, depth, tolerant) ==
  IF tag.serialize # "Property" \/ tag.type \notin Known THEN Raw(w, tag, at)
  ELSE Fallback(Reader(w, tag, at, depth, tolerant))

-----------------------------------------------------------------------------
(* Properties.                                                              *)

\* What an engine writes for a value of a type, with x for each of its words.
Written(type, x) ==
  CASE type \in Fixed \ {"BoolProperty"} -> [i \in 1..FixedWidth(type) |-> x]
    [] type \in StringTypes -> <<1, x>>
    [] type = "SoftObjectProperty" -> <<1, x, 0>>
    [] type = "TextProperty" -> <<x, 1, 1, x, 0, 0>>
    [] type \in DelegateLists -> <<1, x, x>>
    [] type = "FieldPathProperty" -> <<2, x, x>>
    [] type = "LazyObjectProperty" -> <<x, x, x, x>>
Elements(types, n, x) == FlattenSeq([i \in 1..n |-> FlattenSeq([j \in DOMAIN types |-> Written(types[j], x)])])

\* A container as it is written, removed keys before the others, is read to its
\* last word whatever follows, with all of its elements: what one element
\* leaves unread would be the next one's value.
ContainersAreReadWhole(inner, n, gone, x, rest) ==
  LET tag == [Bare("ArrayProperty") EXCEPT !.size = 1, !.inner = inner, !.key = "NameProperty", !.value = inner]
      words(type) ==
        CASE type = "ArrayProperty" -> <<n>> \o Elements(<<inner>>, n, x)
          [] type = "SetProperty" -> <<gone>> \o Elements(<<inner>>, gone, x) \o <<n>> \o Elements(<<inner>>, n, x)
          [] type = "MapProperty" ->
               <<gone>> \o Elements(<<"NameProperty">>, gone, x) \o <<n>> \o Elements(<<"NameProperty", inner>>, n, x)
  IN \A type \in {"ArrayProperty", "SetProperty", "MapProperty"} :
       Parse(words(type) \o rest, [tag EXCEPT !.type = type], 0, 0, FALSE) = At(Len(words(type)), n)

\* A struct with a size that does not raise leaves the reader at its end,
\* whatever its fields hold: by its fields or its layout.  Not the layouts
\* that read floats under a size of doubles, and not the two without a size.
EndsAt(r, struct, size) ==
  ~r.err /\ struct \notin {"TopLevelAssetPath", "PointerToUberGraphFrame"}
    /\ (struct \in DOMAIN FloatsOnly => size # 2 * FloatSize(struct))
  => r.at = size
StructEndsAtItsSize(w, struct, size, depth, tolerant) ==
  LET tag == [Bare("StructProperty") EXCEPT !.struct = struct, !.size = size]
  IN EndsAt(Struct(w, tag, 0, depth, tolerant), struct, size)
=============================================================================
