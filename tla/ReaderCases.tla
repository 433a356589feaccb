----------------------------- MODULE ReaderCases -----------------------------
(***************************************************************************)
(* The readers that are proved about, on a case whatever it holds: the      *)
(* archive, the two containers, the files of a package, its header, the    *)
(* objects that the linker makes of it and the bodies of its functions.    *)
(***************************************************************************)
EXTENDS Integers, Sequences

CONSTANTS Base, WordBytes, MaxString, Window, Threshold, MaxArray,   \* of the archive
          TableSizes,                                               \* how long a table of names is
          MaxRatio, Align, Word32, Methods, MaxBlocks, Reserved, SizeUnit, MaxPakEntries,  \* of PakFile
          BitXor(_, _), Basis, Prime, Modulus, DefaultBlock, MaxEntries, MaxDepth, Invalid,   \* of IoStore
          FileSize, MaxCount, MaxTotal,                             \* of PackageTables
          Underscore, Digits                                        \* of ObjectGraph

ASSUME ArchiveAssumption ==
  /\ Base \in Nat \ {0} /\ WordBytes \in Nat \ {0} /\ MaxString \in Nat /\ Threshold \in Nat
  /\ MaxArray \in Nat /\ TableSizes \subseteq Nat

\* A word, a unit of the cipher and a unit of a block size are not empty, and
\* the index that stands for "read from stream" is not that of no block size.
ASSUME PakAssumption ==
  /\ MaxRatio \in Nat /\ Align \in Nat \ {0} /\ Word32 \in Nat \ {0} /\ Methods \in Nat /\ MaxBlocks \in Nat
  /\ Reserved \in Nat \ {0} /\ SizeUnit \in Nat \ {0} /\ MaxPakEntries \in Nat

\* Numbers of one width are added bit by bit to one of that width.
ASSUME StoreAssumption ==
  /\ Modulus \in Nat \ {0} /\ Basis \in 0..(Modulus - 1) /\ Prime \in Nat
  /\ \A a, b \in 0..(Modulus - 1) : BitXor(a, b) \in 0..(Modulus - 1)
  /\ DefaultBlock \in Nat \ {0} /\ MaxEntries \in Nat /\ MaxDepth \in Nat /\ Invalid \in Nat

ASSUME HeaderAssumption ==
  FileSize \in Nat /\ MaxCount \in Nat /\ MaxTotal \in Nat /\ Underscore \in Int /\ Digits \subseteq Int \ {Underscore}

\* A behaviour is one case of one part: c is [p |-> "seed", part |-> ...] and
\* then the case that was picked, which the properties look at.
VARIABLE c
Seeds(parts) == [p : {"seed"}, part : parts]
Picking(part) == c.p = "seed" /\ c.part = part

Bytes == INSTANCE Archive
Pak == INSTANCE PakFile
Io == INSTANCE IoStore
Files == INSTANCE PackageFiles
Header == INSTANCE PackageTables WITH Size <- FileSize
Linker == INSTANCE ObjectGraph
Bodies == INSTANCE KismetBodies

\* No operation leaves the file, a refused string gives its position back, a
\* name is one of the table, and a tolerant archive differs only where the
\* strict one refuses.
ReadsStayInside ==
  c.p = "file" => \A swapped \in BOOLEAN :
    /\ \A tolerant \in BOOLEAN : Bytes!StaysInFile(c.f, swapped, tolerant)
    /\ \A at \in 0..Len(c.f) : /\ Bytes!StringsRestore(c.f, at, swapped)
                               /\ \A names \in TableSizes : Bytes!NameIsOfTheTable(c.f, at, swapped, names)

\* A packed entry comes back and a trailer is that of its version; the path
\* found is the one asked for; a pak opens with an index that is whole, and an
\* entry is put together whole or not at all.
PaksAreWhole ==
  /\ c.p = "packed" => Pak!PackedEntryReturns(c.e)
  /\ c.p = "trailer" => Pak!TrailerIsItsVersion(c.v, c.size)
  /\ c.p = "path" => Pak!PathFoundIsAsked(c.entries, c.mount, c.asked)
  /\ c.p = "index" => Pak!IndexIsWhole(300, [place \in {IF c.v < 7 THEN 44 ELSE 204} |-> c.v], c.x)
  /\ c.p = "entry" => \A e \in {c.e} \cup {Pak!LegacyEntry(v, c.e) : v \in {2, 3, 8}} : Pak!EntryIsWhole(c.file, e)

\* A chunk that is found is the one asked for, the walk of a directory index
\* lists what its chains reach, what is returned is a range of the content, block
\* by block, and a container opens with all that it needs or leaves nothing.
ChunksAreWhole ==
  /\ c.p = "chunks" => Io!ChunkFoundIsAsked(c.t, c.asked)
  /\ c.p = "tree" => Io!WalkListsTheTree(c.d)
  /\ c.p = "range" => Io!ChunksAreTheContent(c.s)
  /\ c.p = "open" => Io!OpenIsWhole(c.h, c.units, c.existing)

\* A package is its two files one behind the other, a bundle opens with all
\* that it needs or leaves nothing, and the package found is the one asked for.
FilesAreWhole ==
  /\ c.p = "segments" => Files!SeamIsInvisible(c.a, c.at, c.n)
  /\ c.p = "bundle" => Files!BundleOpens([n \in [stem : {<<1>>}, ext : c.exts] |-> <<1>>], [stem |-> <<1>>, ext |-> c.ext], c.gone)
  /\ c.p = "find" => Files!PackageFoundIsAsked(c.names, c.asked)

\* What a container or a directory gives for a package is the package.
PackagesAreWhole == PaksAreWhole /\ FilesAreWhole

\* An accepted summary bounds its tables, which have one entry for each export;
\* all ways to resolve an index agree, and a cached version is that of the list.
\* So do the linker's, whose objects form a tree with names that follow it and
\* which reports what is nowhere.
Import(name) == [name |-> name, class |-> "Class", package |-> "P"]
Generated == Import("BlueprintGeneratedClass")
HeaderIsGuarded ==
  /\ c.p = "summary" => /\ Header!SummaryGuards(c.v, c.odd, c.room) /\ Header!SummaryIsPrefix(c.v, c.odd, c.room)
                        /\ \A n \in 0..2 : Header!WholeIsNotTruncated(c.v, 1, n, 120 + n)
  /\ c.p = "depends" => \A n \in 0..3 : Header!DependsIsPerExport(c.w, n, 2)
  /\ c.p = "exports" => /\ \A i \in -3..3 : Header!ResolversAgree(i, <<Generated>>, c.e)
                        /\ Header!MainIsGenerated(<<Generated, Import("Actor"), Generated>>, c.e, "A")
  /\ c.p = "versions" => Header!CacheIsTheList(c.vs, c.asked)
  /\ c.p = "graph" =>
       /\ Linker!TreeIsWhole(c.g) /\ Linker!NamesFollowOuters(c.g) /\ Linker!NothingIsLostSilently(c.g)
       /\ \A i \in -3..3 : LET linked == Linker!ResolveParentWithLinker(c.g, i)
                               listed == Header!ResolveParentClass(i, c.g.imports, c.g.exports)
                           IN linked.error = listed.error /\ (Linker!IsObject(c.g, i) => linked.name = listed.name)
  /\ c.p = "hash" => Linker!HashIsUndone(c.path, c.digits)

\* The three ways to write a function's body end, say no statement twice and
\* only those that can run, and the rate they report covers the script.
BodiesAreSound ==
  c.p = "script" => /\ Bodies!NothingTwice(c.s) /\ Bodies!CfgBodyIsReachable(c.s)
                    /\ Bodies!ReconstructEnds(c.s) /\ Bodies!RateAccountsForAll(c.s)
=============================================================================
