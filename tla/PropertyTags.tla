----------------------------- MODULE PropertyTags -----------------------------
(***************************************************************************)
(* read_property_tag: the header of a property, in the form with a whole   *)
(* type, a tree of names, and in the older form with one type name and     *)
(* the fields that belong to it.                                           *)
(*                                                                         *)
(* A file is a sequence of words: a name, a number of any width and a guid *)
(* are a word each.  Names are their own words; 0 is the name None.        *)
(***************************************************************************)
EXTENDS Integers, SequencesExt

CONSTANTS MaxNodes,      \* MAX_PROPERTY_TYPE_NODES
          StructProperty, ArrayProperty, SetProperty, OptionalProperty, MapProperty,   \* names of types
          ByteProperty, EnumProperty, BoolProperty, IntProperty

None == 0
\* Flags of a tag and of its extensions, by their bits.
HasArrayIndex == 0
HasGuid == 1
HasExtensions == 2
IsBinary == 3
IsTrue == 4
IsSkipped == 5
SerializeControl == 1
Bit(word, bit) == (word \div 2^bit) % 2 = 1

NoTag == [type |-> None, size |-> 0, struct |-> None, inner |-> None, innerStruct |-> None, key |-> None, value |-> None,
          enum |-> None, serialize |-> "Property", exceeded |-> FALSE, bool |-> FALSE]
\* A reading: the place behind it, the tag so far, and whether it raised.
Word(w, at) == IF at \in 0..Len(w) - 1 THEN w[at + 1] ELSE None
Past(w, at) == at > Len(w)

-----------------------------------------------------------------------------
(* The tree of a type.                                                      *)

\* Nodes until the tree is whole, or until there are too many.
RECURSIVE Nodes(_, _, _, _)
Nodes(w, at, parts, pending) ==
  IF pending <= 0 \/ Len(parts) >= MaxNodes \/ Past(w, at + 2) THEN [at |-> at, parts |-> parts]
  ELSE LET node == [name |-> Word(w, at), count |-> Word(w, at + 1)]
       IN Nodes(w, at + 2, Append(parts, node), pending - 1 + Max({node.count, 0}))

\* build: the tree at a node, and the node behind it; children that are missing
\* are left out.
RECURSIVE Build(_, _), Children(_, _, _)
Build(parts, i) ==
  LET below == Children(parts, i + 1, parts[i].count)
  IN [tree |-> [name |-> parts[i].name, children |-> below.trees], next |-> below.next]
Children(parts, i, k) ==
  IF k <= 0 \/ i > Len(parts) THEN [trees |-> <<>>, next |-> i]
  ELSE LET first == Build(parts, i)
           others == Children(parts, first.next, k - 1)
       IN [trees |-> <<first.tree>> \o others.trees, next |-> others.next]

TypeName(w, at) ==
  LET read == Nodes(w, at, <<>>, 1)
  IN [at |-> read.at, tree |-> IF read.parts = <<>> THEN [name |-> None, children |-> <<>>] ELSE Build(read.parts, 1).tree]

\* The name of child i of a tree; None when there is none.
ChildName(tree, i) == IF i \in DOMAIN tree.children THEN tree.children[i].name ELSE None

\* What the tree says of a tag.
ApplyType(tag, tree) ==
  LET first == ChildName(tree, 1)
      typed == [tag EXCEPT !.type = tree.name]
  IN IF tree.name = StructProperty THEN [typed EXCEPT !.struct = first]
     ELSE IF tree.name \in {ArrayProperty, SetProperty, OptionalProperty}
          THEN [typed EXCEPT !.inner = first,
                             !.innerStruct = IF first = StructProperty THEN ChildName(tree.children[1], 1) ELSE None]
     ELSE IF tree.name = MapProperty THEN [typed EXCEPT !.key = first, !.value = ChildName(tree, 2)]
     ELSE IF tree.name \in {ByteProperty, EnumProperty} THEN [typed EXCEPT !.enum = first]
     ELSE typed

-----------------------------------------------------------------------------
(* Tags.                                                                    *)

\* validate_size: within what is left behind the field of the size; its caps
\* for large files are in PropertyLoop.
SizeFits(w, size, at) == size >= 0 /\ size <= Len(w) - at
Answer(w, at, tag) == [at |-> at, tag |-> tag, end |-> at + Max({0, tag.size}), err |-> Past(w, at)]
\* A size that does not fit raises, or ends the tag before its flags are read:
\* it then has no end of its own.
Exceeded(w, at, tag, tolerant) ==
  [at |-> at, tag |-> [tag EXCEPT !.exceeded = TRUE], end |-> -1, err |-> ~tolerant]

\* The place behind the flags' fields; a field that is not there takes no word.
AfterFlags(w, at, flags) ==
  LET index == at + (IF Bit(flags, HasArrayIndex) THEN 1 ELSE 0)
      guid == index + (IF Bit(flags, HasGuid) THEN 1 ELSE 0)
      control == IF Bit(Word(w, guid), SerializeControl) THEN 3 ELSE 1
  IN guid + (IF Bit(flags, HasExtensions) THEN control ELSE 0)

Serialize(flags) == IF Bit(flags, IsSkipped) THEN "Skipped" ELSE IF Bit(flags, IsBinary) THEN "BinaryOrNative" ELSE "Property"

\* The type of a schema, where one is known, takes the place of the file's.
WholeTag(w, at, tolerant, schema) ==
  LET type == TypeName(w, at + 1)
      own == ApplyType(NoTag, type.tree)
      typed == [IF schema = <<>> THEN own ELSE ApplyType(own, schema[1]) EXCEPT !.size = Word(w, type.at)]
      flags == Word(w, type.at + 1)
      done == [typed EXCEPT !.serialize = Serialize(flags), !.bool = Bit(flags, IsTrue)]
  IN IF Past(w, type.at + 1) \/ ~SizeFits(w, typed.size, type.at + 1) THEN Exceeded(w, type.at + 1, typed, tolerant)
     ELSE Answer(w, AfterFlags(w, type.at + 2, flags), done)

\* The fields of the older form, behind type, number, size and index: those of
\* a type whose name has no number.
OldFields(w, at, type, numbered) ==
  IF numbered THEN [at |-> at, tag |-> [NoTag EXCEPT !.type = -type]]
  ELSE LET tag == [NoTag EXCEPT !.type = type]
           first == Word(w, at)
       IN CASE type = StructProperty -> [at |-> at + 2, tag |-> [tag EXCEPT !.struct = first]]
            [] type = BoolProperty -> [at |-> at + 1, tag |-> [tag EXCEPT !.bool = first # 0]]
            [] type \in {ByteProperty, EnumProperty} -> [at |-> at + 1, tag |-> [tag EXCEPT !.enum = first]]
            [] type \in {ArrayProperty, SetProperty, OptionalProperty} -> [at |-> at + 1, tag |-> [tag EXCEPT !.inner = first]]
            [] type = MapProperty -> [at |-> at + 2, tag |-> [tag EXCEPT !.inner = first, !.value = Word(w, at + 1)]]
            [] OTHER -> [at |-> at, tag |-> tag]

\* Behind them a guid if a byte says so, and from one version on extensions.
OldTag(w, at, tolerant, extensions) ==
  LET read == OldFields(w, at + 5, Word(w, at + 1), Word(w, at + 2) > 0)
      tag == [read.tag EXCEPT !.size = Word(w, at + 3)]
      guid == IF Word(w, read.at) # 0 THEN read.at + 2 ELSE read.at + 1
      control == IF Bit(Word(w, guid), SerializeControl) THEN 3 ELSE 1
  IN IF Past(w, read.at) \/ ~SizeFits(w, tag.size, read.at) THEN Exceeded(w, read.at, tag, tolerant)
     ELSE Answer(w, guid + (IF extensions THEN control ELSE 0), tag)

ReadTag(w, at, tolerant, whole, extensions, schema) ==
  IF Word(w, at) = None THEN Answer(w, at + 1, NoTag)
  ELSE IF whole THEN WholeTag(w, at, tolerant, schema) ELSE OldTag(w, at, tolerant, extensions)

\* read_tag_value_bounded: wherever the reader of the value stops.
BoundedEnd(read) == IF read.end = -1 THEN read.at + Max({read.tag.size, 0}) ELSE read.end
\* What parse_map_property takes for the types of keys and values.
MapTypes(tag) == IF tag.key = None \/ tag.value = None THEN <<IntProperty, IntProperty>> ELSE <<tag.key, tag.value>>

-----------------------------------------------------------------------------
(* Properties.  Written and WrittenOld are how an engine lays out a tag and *)
(* its value.                                                               *)

RECURSIVE WrittenTree(_)
WrittenTree(tree) ==
  <<tree.name, Len(tree.children)>> \o FlattenSeq([i \in DOMAIN tree.children |-> WrittenTree(tree.children[i])])
Field(there, words) == IF there THEN words ELSE <<>>
Extensions(word) == <<word>> \o Field(Bit(word, SerializeControl), <<1, 0>>)
Value(size) == [i \in 1..size |-> 2]

Written(name, tree, size, flags, extensions) ==
  <<name>> \o WrittenTree(tree) \o <<size, flags>> \o Field(Bit(flags, HasArrayIndex), <<1>>)
    \o Field(Bit(flags, HasGuid), <<7>>) \o Field(Bit(flags, HasExtensions), Extensions(extensions)) \o Value(size)

\* A tag with a whole type is read to the first word of its value, whichever
\* fields its flags announce, and ends where its value does, whatever comes
\* behind; the struct in an array of structs is found in the tree.
TagReadsBack(name, tree, size, flags, extensions, rest) ==
  LET w == Written(name, tree, size, flags, extensions)
      inner == tree.children[1]
  IN \A read \in {ReadTag(w \o rest, 0, FALSE, TRUE, TRUE, <<>>)} :
     /\ ~read.err /\ ~read.tag.exceeded
     /\ read.at = Len(w) - size /\ read.end = Len(w) /\ BoundedEnd(read) = Len(w)
     /\ read.tag.type = tree.name /\ read.tag.size = size
     /\ tree.name = ArrayProperty /\ tree.children # <<>> /\ inner.name = StructProperty /\ inner.children # <<>>
          => read.tag.innerStruct = inner.children[1].name

WrittenOld(name, type, of, size, guid, extensions, word) ==
  <<name, type, 0, size, 0>> \o of \o Field(guid, <<1, 7>>) \o Field(~guid, <<0>>)
    \o Field(extensions, Extensions(word)) \o Value(size)
FieldsOf(type, a, b) ==
  IF type \in {StructProperty, MapProperty} THEN <<a, b>>
  ELSE IF type \in {ArrayProperty, SetProperty, OptionalProperty, ByteProperty, EnumProperty, BoolProperty} THEN <<a>>
  ELSE <<>>

\* The same for the older form, with and without the extensions of its last
\* version.
OldTagReadsBack(name, type, a, b, size, guid, extensions, word, rest) ==
  LET w == WrittenOld(name, type, FieldsOf(type, a, b), size, guid, extensions, word)
  IN \A read \in {ReadTag(w \o rest, 0, FALSE, FALSE, extensions, <<>>)} :
     /\ ~read.err /\ ~read.tag.exceeded
     /\ read.at = Len(w) - size /\ read.end = Len(w)
     /\ read.tag.type = type /\ read.tag.size = size

\* The types of a map's keys and values that an older tag holds are the ones
\* its value is read by.
OldMapTypesAreUsed(key, value) ==
  LET w == WrittenOld(1, MapProperty, <<key, value>>, 2, FALSE, FALSE, 0)
  IN MapTypes(ReadTag(w, 0, FALSE, FALSE, FALSE, <<>>).tag) = <<key, value>>
=============================================================================
