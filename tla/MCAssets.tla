------------------------------ MODULE MCAssets ------------------------------
(***************************************************************************)
(* The pure readers and analyses of an asset, each on every small input:   *)
(* here the archive, the header of a package, tags and values, the two     *)
(* containers and the files of a package; by MCSchema and MCBlueprint the  *)
(* rest.  A behaviour is one case.                                         *)
(***************************************************************************)
EXTENDS MCSchema, MCBlueprint, Bitwise

XorOfBits(a, b) == a ^^ b

Types == INSTANCE PropertyTags WITH MaxNodes <- 4, StructProperty <- 1, ArrayProperty <- 2, SetProperty <- 3,
           OptionalProperty <- 4, MapProperty <- 5, ByteProperty <- 6, EnumProperty <- 7, BoolProperty <- 8, IntProperty <- 9

-----------------------------------------------------------------------------
(* The archive on every file of four digits; the header in six versions,    *)
(* with one odd field and an odd count of exports; its tables.              *)

File == \E f \in UpTo(0..(Base - 1), 4) : c' = [p |-> "file", f |-> f]
Version(legacy, ue4, ue5, filtered) ==
  [legacy |-> legacy, ue4 |-> ue4, ue5 |-> ue5, filtered |-> filtered, unversioned |-> filtered]
Versions == {Version(-9, 522, 1018, FALSE), Version(-9, 522, 1012, TRUE), Version(-8, 519, 1003, FALSE),
             Version(-7, 510, 0, FALSE), Version(-4, 300, 0, TRUE), Version(-10, 522, 1018, FALSE)}
Summary ==
  \/ \E v \in Versions : \E name \in {Header!Layout(v)[k].name : k \in DOMAIN Header!Layout(v)} :
       \E x \in {-1, 2, 4}, exports \in {0, 2} :
         c' = [p |-> "summary", v |-> v, room |-> 80, odd |-> [n \in {name, "ExportCount"} |-> IF n = name THEN x ELSE exports]]
  \/ \E v \in Versions, room \in 40..75 : c' = [p |-> "summary", v |-> v, room |-> room, odd |-> [n \in {"ExportCount"} |-> 1]]
Tables ==
  \/ \E w \in UpTo(-1..3, 4) : c' = [p |-> "depends", w |-> w]
  \/ \E n \in 0..2 : \E e \in [1..n -> [name : {"A", "B"}, class : -2..2, outer : 0..2, size : {n, 2}]] : c' = [p |-> "exports", e |-> e]
  \/ \E vs \in SeqOf((1..2) \X (1..2), 3), asked \in SeqOf(1..3, 3) : c' = [p |-> "versions", vs |-> vs, asked |-> asked]

(* Types as trees of names, in both layouts of a tag; containers and        *)
(* structs over words.                                                      *)
Leaf(n) == [name |-> n, children |-> <<>>]
Flat == {Leaf(n) : n \in {1, 2, 5, 7, 9}}
Trees == Flat \cup {[name |-> n, children |-> <<t>>] : n \in {1, 2, 4, 6}, t \in Flat}
              \cup {[name |-> 5, children |-> <<t, u>>] : t, u \in Flat}
Deep == Trees \cup {[name |-> 2, children |-> <<t>>] : t \in Trees}
NewTag == \E t \in Deep, size \in 0..1, flags \in 0..31, extra \in {0, 2}, rest \in {<<>>, <<3>>} :
            c' = [p |-> "newTag", t |-> t, size |-> size, flags |-> flags, extra |-> extra, rest |-> rest]
OldTag == \E t \in 1..9, a \in 0..1, size \in 0..1, guid, old \in BOOLEAN, extra \in {0, 2}, rest \in {<<>>, <<3>>} :
            c' = [p |-> "oldTag", t |-> t, a |-> a, size |-> size, guid |-> guid, old |-> old, extra |-> extra, rest |-> rest]
OldMap == \E key, value \in {1, 9} : c' = [p |-> "oldMap", key |-> key, value |-> value]
Inners == (Values!Fixed \ {"BoolProperty"}) \cup Values!StringTypes \cup Values!DelegateLists
            \cup {"SoftObjectProperty", "TextProperty", "FieldPathProperty", "LazyObjectProperty"}
Container == \E i \in Inners, n, gone, x \in 0..2, rest \in {<<>>, <<0>>, <<3>>} :
               c' = [p |-> "container", i |-> i, n |-> n, gone |-> gone, x |-> x, rest |-> rest]
Struct == \E w \in UpTo({0, 1, 2, 3, 5}, 3) \cup [1..4 -> {0, 1, 3, 5}], size \in {1, 3, 4}, depth \in 0..2, tolerant \in BOOLEAN,
             s \in {"Vector", "Transform", "Guid", "Box", "BoxSphereBounds", "MemberReference", "Named"} :
            c' = [p |-> "struct", w |-> w, s |-> s, size |-> size, depth |-> depth, tolerant |-> tolerant]

(* Stores with hash tables of two chunks, two blocks over one or two        *)
(* partitions, directories of two; pak entries, trailers and paths.         *)
Ids == {<<1>>, <<2>>, <<3>>}
ChunkTable ==
  \E n \in 0..2, m \in 0..2 : \E ids \in [1..n -> Ids], seeds \in [1..m -> -3..3], without \in {<<>>, <<0>>, <<1>>, <<1, 0>>, <<-1>>} :
    c' = [p |-> "chunks", t |-> [ids |-> ids, seeds |-> seeds, without |-> without], asked |-> Ids]
Block(at, size, full, method) == [at |-> at, size |-> size, full |-> full, method |-> method]
Blocks == {Block(at, 2, 2, 0) : at \in 0..3} \cup {Block(at, 1, 1, 0) : at \in 0..3} \cup {Block(at, 1, 2, 1) : at \in 0..4}
Store ==
  \E partitions \in {<<<<1, 2>>>>, <<<<1, 2, 3, 4>>>>, <<<<1, 2>>, <<3, 4>>>>, <<<<1, 2>>, <<3>>>>}, partSize, blockSize \in {0, 2},
     blocks \in UpTo(Blocks, 2), encrypted \in BOOLEAN, from \in 0..3, length \in 0..3 :
    c' = [p |-> "range",
          s |-> [ids |-> <<<<1>>>>, chunks |-> <<<<from, length>>>>, seeds |-> <<>>, without |-> <<>>, partitions |-> partitions, partSize |-> partSize, blockSize |-> blockSize, blocks |-> blocks,
                 methods |-> 1, encrypted |-> encrypted]]
Directory ==
  \/ \E n, m \in 1..2 : \E dirs \in [1..n -> [name : {0}, child : {1, 9}, sibling : {0, 1, 9}, file : {0, 1, 9}]],
                           files \in [1..m -> [name : {0}, next : {0, 1, 9}, data : {1, 2}]] :
       c' = [p |-> "tree", d |-> [mount |-> <<>>, names |-> 2, chunks |-> 2, dirs |-> dirs, files |-> files]]
  \/ \E dirs \in [1..3 -> [name : {1}, child : {1, 2, 9}, sibling : {1, 2, 9}, file : {0, 9}]] :
       c' = [p |-> "tree", d |-> [mount |-> <<>>, names |-> 2, chunks |-> 2, dirs |-> dirs, files |-> <<[name |-> 0, next |-> 9, data |-> 1]>>]]
Opening ==
  \E version \in {1, 3, 4, 5}, entries \in {0, 1, 5}, blocks, names \in {0, 5}, index \in {1, 5}, units \in {0, 2, 5, 6}, parts \in 1..3,
     existing \in 0..1, signed, indexed \in BOOLEAN :
    c' = [p |-> "open", units |-> units, existing |-> existing,
          h |-> [version |-> version, entries |-> entries, seeds |-> 1, without |-> 1, blocks |-> blocks, names |-> names,
                 signed |-> signed, indexed |-> indexed, index |-> index, parts |-> 2 * parts - 1]]
Packed ==
  \/ \E e \in [at : {0, 4, 5}, full : {0, 3, 4, 5}, size : {0, 3, 4}, method : 0..3, encrypted : BOOLEAN, count : 0..3, blockSize : {0, 2, 3, 6, 7, 8}] :
       c' = [p |-> "packed", e |-> e]
  \/ \E v \in 1..12, size \in {44, 45, 60, 61, 220, 221, 222, 300} : c' = [p |-> "trailer", v |-> v, size |-> size]
Paths == {<<1>>, <<6>>, <<2, 1>>, <<2, 16>>, <<12, 6>>, <<2, 99, 1>>}
PakPath == \E entries \in UpTo(Paths, 3), mount \in {"relative", "absolute"}, asked \in Paths :
             c' = [p |-> "path", entries |-> entries, mount |-> mount, asked |-> asked]
PakEntry ==
  \E file \in {<<>>, <<1, 2>>, <<1, 2, 3>>}, at \in 0..1, full \in 0..5, method \in 0..1, encrypted \in BOOLEAN,
     blockSize \in {0, 2, 4}, blocks \in UpTo({<<a, b>> \in (0..3) \X (0..4) : a <= b + 1 /\ b <= a + 2}, 2) :
    c' = [p |-> "entry", file |-> file,
          e |-> [at |-> at, full |-> full, size |-> full, method |-> method, encrypted |-> encrypted, blockSize |-> blockSize, blocks |-> blocks, deleted |-> FALSE]]

PakIndex ==
  \E v \in {3, 8, 11}, count \in -1..3, list \in UpTo({<<<<>>, 7>>, <<<<1>>, 7>>, <<<<1>>, 8>>, <<<<2>>, 7>>}, 2),
     truncated, hashed, encrypted, key, cut \in BOOLEAN :
    c' = [p |-> "index", v |-> v, x |-> [count |-> count, list |-> list, truncated |-> truncated, hashed |-> hashed,
          encrypted |-> encrypted, key |-> key, cut |-> cut, plain |-> <<9>>]]

(* A package of two segments that may have shrunk, and names to look for.   *)
Segments == \E x, y \in {<<>>, <<1>>, <<1, 2>>}, size \in (0..2) \X (0..2), at \in 0..4, n \in -1..4 :
              at <= size[1] + size[2] /\ c' = [p |-> "segments", a |-> [segs |-> <<x, y>>, size |-> size], at |-> at, n |-> n]
Bundle == \E exts \in SUBSET {"uasset", "umap", "uexp", "ubulk"}, ext \in {"uasset", "umap"}, gone \in SUBSET {"uasset", "umap", "uexp"} :
            c' = [p |-> "bundle", exts |-> exts, ext |-> ext, gone |-> gone]
Find == \E names \in SUBSET [stem : {<<1>>, <<2, 1>>, <<2, 11>>}, ext : {"uasset", "umap", "uexp"}],
           asked \in [stem : {<<1>>, <<2, 1>>, <<11>>}, ext : {"uasset", "umap", "uexp", ""}] :
          c' = [p |-> "find", names |-> names, asked |-> asked]

FileParts == {"files", "headers", "tables", "properties", "values", "iostore", "pak", "segments"}
PickFile ==
  \/ Picking("files") /\ File
  \/ Picking("headers") /\ Summary
  \/ Picking("tables") /\ Tables
  \/ Picking("properties") /\ (NewTag \/ OldTag)
  \/ Picking("values") /\ (Container \/ Struct)
  \/ Picking("iostore") /\ (ChunkTable \/ Store \/ Directory \/ Opening)
  \/ Picking("pak") /\ (Packed \/ PakPath \/ PakEntry \/ PakIndex)
  \/ Picking("segments") /\ (Segments \/ Bundle \/ Find)

Init == c \in Seeds(FileParts \cup BlueprintParts \cup SchemaParts)
Next == PickSchema \/ PickFile \/ PickBlueprint

\* Maps under the layout of tags before UE 5.4, and macros with the links of the
\* reader, alone.
OldMapInit == c \in Seeds({"oldMap"})
OldMapNext == Picking("oldMap") /\ OldMap
MacroInit == c \in Seeds({"inner"})
MacroNext == Picking("inner") /\ Inner(ReaderLinks)

-----------------------------------------------------------------------------
(* What holds of every case.                                                *)

\* What a writer wrote of a tag, of a container and of an export without tags
\* is what is read, to the last word; a struct ends at its size whatever it
\* holds, and of an export nothing is left unread.  A mapping reads back in every
\* format, and a property found in it is the nearest.
PropertiesAreRead ==
  /\ c.p = "newTag" => Types!TagReadsBack(1, c.t, c.size, c.flags, c.extra, c.rest)
  /\ c.p = "oldTag" => Types!OldTagReadsBack(1, c.t, c.a, c.a, c.size, c.guid, c.old, c.extra, c.rest)
  /\ c.p = "container" => Values!ContainersAreReadWhole(c.i, c.n, c.gone, c.x, c.rest)
  /\ c.p = "struct" => Values!StructEndsAtItsSize(c.w, c.s, c.size, c.depth, c.tolerant)
  /\ c.p = "export" => /\ Values!ExportReadsBack(c.types, <<65>>, c.chosen, c.x, c.control, c.rest)
                       /\ Values!ParentsComeFirst(c.types, <<65>>)
  /\ c.p = "words" => /\ \A extended \in BOOLEAN : Values!ExportIsRead(c.w, 0, c.end, extended, c.types, c.name)
                      /\ \A count \in 1..2 : Values!HeaderIsSound(c.w, 0, c.end, count)
  /\ c.p = "usmap" => Maps!MappingsReadBack(c.m, c.version, c.method, c.customs)
  /\ c.p = "jmap" => Maps!JmapIsUsmap(c.props, <<<<65>>>>)
  /\ c.p = "lookup" => Maps!LookupIsNearest(c.types, c.name, <<66>>)
\* "MapProperty: InnerType(FName) + ValueType(FName)" (property_tags.py:264):
\* the types that a tag names are the types its map is read with.
OldMapTypesAreUsed == c.p = "oldMap" => Types!OldMapTypesAreUsed(c.key, c.value)
=============================================================================
