------------------------------ MODULE MCSchema ------------------------------
(***************************************************************************)
(* What reads a package by a mapping, on every small input: the formats of *)
(* mappings, the lookup in them, exports without tags, and the objects     *)
(* that the linker makes of a package's tables.                            *)
(***************************************************************************)
EXTENDS ReaderCases, SequencesExt, FiniteSets, TLC

UpTo(A, n) == UNION {[1..k -> A] : k \in 0..n}

Maps == INSTANCE Mappings WITH MaxDepth <- 1, Unpack <- Reverse

\* Tags that stand for themselves in the data of a struct.
Tag(type, size) ==
  [type |-> type, size |-> size, struct |-> "Field", inner |-> "IntProperty", innerStruct |-> "UnknownStruct",
   key |-> "IntProperty", value |-> "IntProperty", serialize |-> "Property"]
Lookup(types, name) == Maps!GetStruct(types, name)
SecondControl(x) == (x \div 2) % 2 = 1
Values == INSTANCE Unversioned WITH
  MaxCount <- 2, MaxString <- 2, ArrayDepth <- 1, StructDepth <- 1, FallbackWords <- 3, TagLen <- 2, Doubles <- FALSE,
  Tags <- <<Tag("IntProperty", 1), Tag("ArrayProperty", 2), Tag("StructProperty", 4), Tag("StructProperty", 0), Tag("StrProperty", 0)>>,
  MaskBits <- 2, GetStruct <- Lookup, OverridableBit <- SecondControl

-----------------------------------------------------------------------------
(* Mappings: the names are A (65), B (66) and C; P.A is the name of A in    *)
(* full.  Two properties that may overlap, in every format.                 *)

Of(type, name) == [Maps!Plain(type) EXCEPT !.name = name]
Simple == {Of("IntProperty", <<>>), Of("StructProperty", <<66>>)}
Compound == Simple \cup {[Of("EnumProperty", <<65>>) EXCEPT !.inner = <<t>>] : t \in Simple}
                   \cup {[Of("MapProperty", <<>>) EXCEPT !.inner = <<t>>, !.value = <<u>>] : t, u \in Simple}
TwoProperties(t, d, j) ==
  <<[index |-> 0, name |-> <<65>>, type |-> t, dim |-> d],
    [index |-> j, name |-> <<66>>, type |-> Of("BoolProperty", <<>>), dim |-> 1]>>
Formats == {<<4, 0, -1>>, <<3, 2, -1>>, <<2, 3, 1>>, <<1, 0, 0>>, <<0, 2, -1>>}
Enums(twice) ==
  <<[name |-> <<65>>, values |-> <<[value |-> 3, name |-> <<66>>], [value |-> IF twice = <<65>> THEN 3 ELSE 300, name |-> <<65>>]>>],
    [name |-> twice, values |-> <<[value |-> 0, name |-> <<>>]>>]>>
Usmap ==
  \E props \in {TwoProperties(t, 1, 1) : t \in Compound} \cup {TwoProperties(Of("IntProperty", <<>>), d, j) : d, j \in 0..2},
     f \in Formats, twice \in {<<65>>, <<66>>} :
    c' = [p |-> "usmap", version |-> f[1], method |-> f[2], customs |-> f[3],
          m |-> [names |-> <<<<65>>, <<66>>>>, enums |-> Enums(twice),
                 structs |-> <<[name |-> <<65>>, super |-> <<66>>, props |-> props],
                               [name |-> twice, super |-> <<>>, props |-> <<props[2]>>]>>]]

Json(type, of, dim, inner, value) == [name |-> <<66>>, type |-> type, of |-> of, dim |-> dim, inner |-> inner, value |-> value]
Flats == {Json("IntProperty", <<>>, 0, <<>>, <<>>), Json("StructProperty", <<80, 46, 65>>, 2, <<>>, <<>>)}
Nested == {Json("ArrayProperty", <<>>, d, <<p>>, <<>>) : d \in 0..1, p \in Flats \cup {Json("SetProperty", <<>>, 0, <<q>>, <<>>) : q \in Flats}}
            \cup {Json("MapProperty", <<>>, 0, <<p>>, <<q>>) : p, q \in Flats}
Jmap == \E props \in UpTo(Flats \cup Nested, 2) : c' = [p |-> "jmap", props |-> props]

\* Three structs that extend each other or nothing, some with a property b.
LookUp ==
  \E supers \in [1..3 -> {<<>>, <<80, 46, 65>>, <<66>>, <<67>>}], owners \in SUBSET (1..3), name \in {<<80, 46, 65>>, <<67>>, <<68>>, <<>>} :
    c' = [p |-> "lookup", name |-> name,
          types |-> [n \in {<<65>>, <<66>>, <<67>>} |->
                      [name |-> n, super |-> supers[n[1] - 64],
                       slots |-> IF n[1] - 64 \in owners THEN <<[name |-> <<98>>, index |-> n[1]], [name |-> <<66>>, index |-> 4]>> ELSE <<>>]]]

(* Exports of a class of three properties, one of them inherited, as they   *)
(* are written and as any words.                                            *)
T(type) == Maps!Plain(type)
Ints == [T("ArrayProperty") EXCEPT !.inner = <<T("IntProperty")>>]
Kinds == {T("IntProperty"), T("DoubleProperty"), T("StrProperty"), T("BoolProperty"), Ints}
\* A extends B, which has n of the properties, and B extends "super".
TwoClasses(ts, n, super) ==
  LET P(k) == [index |-> k, name |-> <<k>>, type |-> ts[k], dim |-> 1]
  IN [name \in {<<65>>, <<66>>} |->
       IF name = <<65>> THEN [name |-> name, super |-> <<66>>, slots |-> [k \in 1..Len(ts) - n |-> P(n + k)]]
       ELSE [name |-> name, super |-> super, slots |-> [k \in 1..n |-> P(n + 1 - k)]]]
Export ==
  \E ts \in [1..3 -> Kinds], n \in 1..2, chosen \in [0..2 -> {"no", "value", "zero"}] :
    \E control \in {<<>>, IF n = 1 THEN <<1>> ELSE <<2, 7>>} :
      c' = [p |-> "export", types |-> TwoClasses(ts, n, <<65>>), chosen |-> chosen, x |-> n, control |-> control,
            rest |-> IF n = 1 THEN <<7>> ELSE <<>>]
AnyWords ==
  \E w \in UpTo({0, 1, 257, 384, 640}, 4), ts \in [1..2 -> {T("IntProperty"), T("StrProperty"), Ints}], end \in {2, 5},
     name \in {<<65>>, <<67>>} :
    (name = <<67>> => ts[1] = ts[2]) /\ c' = [p |-> "words", types |-> TwoClasses(ts, 1, <<>>), w |-> w, end |-> end, name |-> name]

(* Packages of up to two imports and exports: every tree of outers, cycles  *)
(* and indexes that are nowhere; every reference of one export.             *)
Outers ==
  \E outers \in UpTo(-3..2, 2), ups \in UpTo(-3..3, 2), hash \in {<<>>, <<1, 2, 3, 2>>} :
    c' = [p |-> "graph",
          g |-> [imports |-> [k \in DOMAIN outers |-> [name |-> <<10 + k>> \o hash, class |-> <<5>>, package |-> hash, outer |-> outers[k]]],
                 exports |-> [k \in DOMAIN ups |-> [name |-> <<20 + k>>, class |-> -1, outer |-> ups[k], super |-> -1,
                                                    template |-> 0, offset |-> 0, length |-> 1]],
                 depends |-> <<>>, size |-> 2]]
References ==
  \E super, template \in -2..2, offset \in {-1, 0, 3}, depends \in UpTo(UpTo({-2, 0, 1}, 2), 2), class \in {<<>>, <<5>>} :
    (super = -template \/ Len(depends) < 2) /\ c' = [p |-> "graph",
          g |-> [imports |-> <<[name |-> <<7>>, class |-> class, package |-> <<5>>, outer |-> 0]>>,
                 exports |-> <<[name |-> <<8>>, class |-> -1, outer |-> 0, super |-> super, template |-> template, offset |-> offset, length |-> 1]>>,
                 depends |-> depends, size |-> 2]]
Hash == \E path \in UpTo(0..2, 3), digits \in UpTo({2, 3}, 4) : c' = [p |-> "hash", path |-> path, digits |-> digits]

SchemaParts == {"mappings", "lookup", "exports", "words", "outers", "references"}
PickSchema ==
  \/ Picking("mappings") /\ (Usmap \/ Jmap)
  \/ Picking("lookup") /\ LookUp
  \/ Picking("exports") /\ Export
  \/ Picking("words") /\ AnyWords
  \/ Picking("outers") /\ (Outers \/ Hash)
  \/ Picking("references") /\ References
=============================================================================
