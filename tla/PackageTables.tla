---------------------------- MODULE PackageTables ----------------------------
(***************************************************************************)
(* The header of a package: the summary, whose fields depend on four       *)
(* version numbers, the tables it points to, and what an index into the    *)
(* import and export tables is resolved to.                                *)
(*                                                                         *)
(* v is [legacy, ue4, ue5, filtered, unversioned].  A field is             *)
(* [name, kind, per]: "kind" says what is refused, and "per" how many more *)
(* fields follow for each unit of a count.                                 *)
(***************************************************************************)
EXTENDS Integers, Sequences, FiniteSetsExt

CONSTANTS Size,       \* the size of the file
          MaxCount,   \* the limit of every limited count (MAX_NAME_COUNT, ...)
          MaxTotal    \* MAX_TOTAL_OBJECT_COUNT

Plain(n) == [name |-> n, kind |-> "int", per |-> 0]
Offset(n) == [name |-> n, kind |-> "offset", per |-> 0]     \* validate_offset
Lax(n) == [name |-> n, kind |-> "lax", per |-> 0]           \* only when positive
Count(n) == [name |-> n, kind |-> "count", per |-> 0]       \* negative is refused
Limited(n, per) == [name |-> n, kind |-> "limited", per |-> per]
Listed(n, per) == [name |-> n, kind |-> "count", per |-> per]
When(c, fields) == IF c THEN fields ELSE <<>>

SupportedLegacy == -9..-3
UE4Legacy == -5..-3

VersionAndTag(v) ==
  LET versions == <<Limited("CustomVersions", IF v.ue5 < 1016 /\ v.legacy \in UE4Legacy THEN 3 ELSE 2)>>
      header == <<Plain("TotalHeaderSize")>>
  IN <<[name |-> "Tag", kind |-> "tag", per |-> 0], [name |-> "LegacyFileVersion", kind |-> "legacy", per |-> 0]>>
       \o When(v.legacy # -4, <<Plain("LegacyUE3Version")>>) \o <<Plain("FileVersionUE4")>>
       \o When(v.legacy <= -8, <<[name |-> "FileVersionUE5", kind |-> "version", per |-> 0]>>)
       \o <<Plain("FileVersionLicensee")>>
       \o (IF v.ue5 >= 1016 THEN <<Plain("SavedHash")>> \o header \o versions ELSE versions \o header)
Identity == <<Plain("PackageName"), Plain("PackageFlags")>>
NameTableOffsets == <<Limited("NameCount", 0), Offset("NameOffset")>>
PreExport(v) ==
  When(v.ue5 >= 1008, <<Plain("SoftObjectPathsCount"), Lax("SoftObjectPathsOffset")>>)
    \o When(~v.filtered /\ v.ue4 >= 516, <<Plain("LocalizationId")>>)
    \o When(v.ue4 >= 459, <<Plain("GatherableTextDataCount"), Lax("GatherableTextDataOffset")>>)
ExportImportOffsets ==
  <<Limited("ExportCount", 0), Offset("ExportOffset"), Limited("ImportCount", 0), Offset("ImportOffset")>>
CellCounts ==
  <<Count("CellExportCount"), Lax("CellExportOffset"), Count("CellImportCount"), Lax("CellImportOffset")>>
PostImport(v) == When(v.ue5 >= 1015, CellCounts) \o When(v.ue5 >= 1014, <<Lax("MetadataOffset")>>)
Secondary(v) ==
  <<Plain("DependsOffset")>>
    \o When(v.ue4 >= 384, <<Limited("SoftPackageReferencesCount", 0), Plain("SoftPackageReferencesOffset")>>)
    \o When(v.ue4 >= 510, <<Plain("SearchableNamesOffset")>>) \o <<Lax("ThumbnailTableOffset")>>
Hierarchies(v) == When(v.ue5 >= 1018, <<Count("ImportTypeHierarchiesCount"), Lax("ImportTypeHierarchiesOffset")>>)
Guids(v) ==
  When(v.ue5 < 1016, <<Plain("Guid")>>) \o When(~v.filtered /\ v.ue4 >= 518, <<Plain("PersistentGuid")>>)
    \o When(~v.filtered /\ v.ue4 \in 518..519, <<Plain("OwnerPersistentGuid")>>)
Generations == <<Limited("Generations", 2)>>
EngineVersionFields(n) == <<Plain(n), Plain(n), Plain(n), Plain(n), Plain(n)>>
Compression == <<Plain("CompressionFlags"), Limited("CompressedChunks", 1), Plain("PackageSource")>>
AdditionalPackages(v) == <<Listed("AdditionalPackages", 1)>> \o When(v.legacy > -7, <<Plain("NumTextureAllocations")>>)
TailOffsets ==
  <<Lax("AssetRegistryDataOffset"), Plain("BulkDataStartOffset"), Lax("WorldTileInfoDataOffset"), Listed("ChunkIDs", 1)>>
LateFields(v) ==
  When(v.ue4 >= 507, <<Plain("PreloadDependencyCount"), Lax("PreloadDependencyOffset")>>)
    \o When(v.ue5 >= 1001, <<Plain("NamesReferencedFromExportDataCount")>>)
    \o When(v.ue5 >= 1002, <<Plain("PayloadTocOffset")>>) \o When(v.ue5 >= 1009, <<Lax("DataResourceOffset")>>)

\* The order in which read_package_summary reads them.
Layout(v) ==
  VersionAndTag(v) \o Identity \o NameTableOffsets \o PreExport(v) \o ExportImportOffsets \o PostImport(v)
    \o Secondary(v) \o Hierarchies(v) \o Guids(v) \o Generations \o EngineVersionFields("SavedBy")
    \o EngineVersionFields("CompatibleWith") \o Compression \o AdditionalPackages(v) \o TailOffsets \o LateFields(v)

\* What a file says: "odd" for the fields it names, and something usual.
Says(odd, n) == IF n \in DOMAIN odd THEN odd[n] ELSE 1

Refused(v, odd, f) ==
  LET x == Says(odd, f.name)
  IN \/ f.kind = "tag" /\ x \notin 1..2     \* as written, or byte-swapped
     \/ f.kind = "legacy" /\ v.legacy \notin SupportedLegacy
     \/ f.kind = "version" /\ v.ue5 < 0
     \/ f.kind = "offset" /\ x \notin 0..Size
     \/ f.kind = "lax" /\ x > Size
     \/ f.kind \in {"count", "limited"} /\ x < 0
     \/ f.kind = "limited" /\ x > MaxCount
     \/ f.name = "ImportCount" /\ x + Says(odd, "ExportCount") > MaxTotal

\* PayloadTocOffset is not refused: a wild one becomes 0.
PayloadToc(odd) == LET x == Says(odd, "PayloadTocOffset") IN IF x < 0 \/ x > 10 * Size THEN 0 ELSE x

\* One field, with those that its count adds: r is where the reader is.
Width(odd, f) == IF f.per = 0 THEN 1 ELSE 1 + f.per * Says(odd, f.name)
ReadField(v, odd, room, r, f) ==
  IF ~r.ok \/ Refused(v, odd, f) \/ r.at + Width(odd, f) > room THEN [r EXCEPT !.ok = FALSE]
  ELSE [r EXCEPT !.at = @ + Width(odd, f)]

\* read_package_summary, on a file that has "room" fields.
ReadSummary(v, odd, room) ==
  LET fields == Layout(v)
      after[k \in 0..Len(fields)] ==
        IF k = 0 THEN [at |-> 0, ok |-> TRUE] ELSE ReadField(v, odd, room, after[k - 1], fields[k])
  IN after[Len(fields)]

-----------------------------------------------------------------------------
(* The tables behind the summary: where each reader seeks, if it reads.     *)

Has(v, n) == \E f \in Range(Layout(v)) : f.name = n
Field(v, odd, n) == IF Has(v, n) THEN Says(odd, n) ELSE 0
Sought(v, odd) ==
  LET Table(n, count, offset) == [name |-> n, count |-> Field(v, odd, count), at |-> Field(v, odd, offset)]
      Guarded(t) == IF t.count > 0 /\ t.at > 0 THEN {t} ELSE {}
  IN {Table("names", "NameCount", "NameOffset"), Table("imports", "ImportCount", "ImportOffset"),
      Table("exports", "ExportCount", "ExportOffset")}
       \cup Guarded(Table("depends", "ExportCount", "DependsOffset"))
       \cup Guarded(Table("softPackageRefs", "SoftPackageReferencesCount", "SoftPackageReferencesOffset"))
       \cup Guarded(Table("softPaths", "SoftObjectPathsCount", "SoftObjectPathsOffset"))
       \cup Guarded(Table("preload", "PreloadDependencyCount", "PreloadDependencyOffset"))

\* read_name_table refuses an empty table and one at the start of the file.
NamesRefused(v, odd) == Field(v, odd, "NameCount") <= 0 \/ Field(v, odd, "NameOffset") <= 0

\* read_depends_map: entries are counts with that many indexes behind them; a
\* count outside 0..limit is an empty entry and the next word is a count.
DependsOf(words, at, limit) == IF words[at] \in 0..limit THEN words[at] ELSE 0
ReadDepends(words, limit, r) ==
  LET deps == DependsOf(words, r.at, limit)
  IN IF ~r.ok \/ r.at > Len(words) \/ r.at + deps > Len(words) THEN [r EXCEPT !.ok = FALSE]
     ELSE [at |-> r.at + 1 + deps, ok |-> TRUE, map |-> Append(r.map, SubSeq(words, r.at + 1, r.at + deps))]
DependsMap(words, n, limit) ==
  LET after[k \in 0..n] == IF k = 0 THEN [at |-> 1, ok |-> TRUE, map |-> <<>>] ELSE ReadDepends(words, limit, after[k - 1])
  IN after[n]

\* The bytes of one entry of the export table.
ExportWidth(v) ==
  LET If(c, n) == IF c THEN n ELSE 0
  IN 12 + If(v.ue4 >= 508, 4) + 8 + 4 + (IF v.ue4 < 511 THEN 8 ELSE 16) + 12 + If(v.ue5 < 1005, 16)
       + If(v.ue5 >= 1006, 4) + 4 + If(v.ue4 >= 365, 4) + If(v.ue4 >= 485, 4) + If(v.ue5 >= 1003, 4)
       + If(v.ue4 >= 507, 20) + If(~v.unversioned /\ v.ue5 >= 1010, 16)

\* validate_export_data_range: the note of a truncated table.
NotedTruncated(offset, count, size) == count > 0 /\ offset + 72 * count > size

\* An export's place and size, with what is negative taken for nothing.
Placed(offset, size) == IF offset < 0 THEN <<0, 0>> ELSE <<offset, IF size < 0 THEN 0 ELSE size>>

-----------------------------------------------------------------------------
(* Indexes.  An import is [name, class, package], an export is              *)
(* [name, class, outer, size]; "" and 0 stand for None.                     *)

IsImport(i) == i < 0
IsExport(i) == i > 0
Object(i, imports, exports) ==
  CASE IsImport(i) /\ -i \in DOMAIN imports -> imports[-i].name
    [] IsExport(i) /\ i \in DOMAIN exports -> exports[i].name
    [] OTHER -> ""

GetAssetClass(e, imports, exports) == Object(e.class, imports, exports)
DetectGenerated(e, imports) ==
  IsImport(e.class) /\ -e.class \in DOMAIN imports /\ imports[-e.class].name = "BlueprintGeneratedClass"
ValidIndex(i, imports, exports) ==
  i = 0 \/ (IsImport(i) /\ -i \in DOMAIN imports) \/ (IsExport(i) /\ i \in DOMAIN exports)
ResolveParentClass(i, imports, exports) ==
  IF i = 0 THEN [name |-> "", error |-> FALSE]
  ELSE IF ValidIndex(i, imports, exports) THEN [name |-> Object(i, imports, exports), error |-> FALSE]
  ELSE [name |-> "", error |-> TRUE]
ToReference(i, imports, exports) ==
  CASE IsImport(i) /\ -i \in DOMAIN imports ->
         [object |-> imports[-i].name, class |-> imports[-i].class, outer |-> imports[-i].package]
    [] IsExport(i) /\ i \in DOMAIN exports ->
         [object |-> exports[i].name, class |-> GetAssetClass(exports[i], imports, exports),
          outer |-> IF exports[i].outer \in DOMAIN exports THEN exports[exports[i].outer].name ELSE ""]
    [] OTHER -> [object |-> "", class |-> "", outer |-> ""]

\* build_imports_list: each import once.
ImportsList(imports) ==
  LET seen[k \in 0..Len(imports)] ==
        IF k = 0 THEN <<>>
        ELSE IF imports[k] \in Range(seen[k - 1]) THEN seen[k - 1] ELSE Append(seen[k - 1], imports[k])
  IN seen[Len(imports)]

\* The class generated for the asset: the largest of those so named (by names
\* that begin with the asset's), and the first of those.
MainGeneratedClass(imports, exports, names) ==
  LET found == {k \in DOMAIN exports : DetectGenerated(exports[k], imports) /\ exports[k].name \in names}
      best == {k \in found : \A j \in found : exports[j].size <= exports[k].size}
  IN IF found = {} THEN 0 ELSE Min(best)

Remember(cache, guid, value) == [g \in DOMAIN cache \cup {guid} |-> IF g = guid THEN value ELSE cache[g]]

\* Variant: an unknown version is remembered as the default it was given.
GetVersionKeepsDefault(versions, cache, guid, default) ==
  LET at == {k \in DOMAIN versions : versions[k][1] = guid}
      value == IF guid \in DOMAIN cache THEN cache[guid] ELSE IF at = {} THEN default ELSE versions[Min(at)][2]
  IN [value |-> value, cache |-> IF guid \in DOMAIN cache THEN cache ELSE Remember(cache, guid, value)]

\* VersionContainer.get_version: a cache of the versions found.
GetVersion(versions, cache, guid, default) ==
  LET at == {k \in DOMAIN versions : versions[k][1] = guid}
  IN IF guid \in DOMAIN cache THEN [value |-> cache[guid], cache |-> cache]
     ELSE IF at = {} THEN [value |-> default, cache |-> cache]
     ELSE [value |-> versions[Min(at)][2], cache |-> Remember(cache, guid, versions[Min(at)][2])]

-----------------------------------------------------------------------------
(* What these must be.                                                      *)

\* A summary that is accepted bounds its tables: the readers behind it seek
\* inside the file, but for the two offsets nobody has validated, and allocate
\* for no more objects than the limit, whatever the file says.
SummaryGuards(v, odd, room) ==
  ReadSummary(v, odd, room).ok => LET tables == Sought(v, odd) IN
    /\ \A t \in tables : t.at \in 0..Size \/ t.name \in {"depends", "softPackageRefs"}
    /\ \A t \in tables : t.name \in {"names", "imports", "exports"} => t.count \in 0..MaxCount
    /\ Field(v, odd, "ExportCount") + Field(v, odd, "ImportCount") <= MaxTotal
    /\ NamesRefused(v, odd) \/ \A t \in tables : t.name = "names" => t.at > 0 /\ t.count > 0
    /\ PayloadToc(odd) \in 0..(10 * Size)
    /\ v.legacy \in SupportedLegacy

\* No prefix of a file is a summary unless the file is long enough, and what
\* follows does not change it.
SummaryIsPrefix(v, odd, room) ==
  LET r == ReadSummary(v, odd, room)
  IN /\ r.ok => r.at <= room /\ ReadSummary(v, odd, room + 1) = r
     /\ ~r.ok /\ ReadSummary(v, odd, room + 1).ok => ReadSummary(v, odd, room + 1).at = room + 1

\* A table that is whole is not noted as truncated, in the versions in which
\* an entry has at least 72 bytes; and what an entry says of its data, however
\* wild, is a range.
WholeIsNotTruncated(v, offset, count, size) ==
  /\ v.ue4 >= 485 /\ (v.ue5 > 0 => v.ue4 >= 511) /\ offset + count * ExportWidth(v) <= size => ~NotedTruncated(offset, count, size)
  /\ \A x \in {-1, 0, offset}, y \in {-1, 0, size} : Placed(x, y)[1] >= 0 /\ Placed(x, y)[2] >= 0

\* One entry for each export, whatever the counts; only words behind the
\* offset; a map without a damaged count is read to its end.
DependsIsPerExport(words, n, limit) ==
  LET r == DependsMap(words, n, limit)
      read[k \in 0..n] == IF k = 0 THEN 0 ELSE read[k - 1] + Len(r.map[k])
  IN r.ok => Len(r.map) = n /\ read[n] + n <= Len(words)

\* Every way to resolve an index gives the same object, and fails together.
ResolversAgree(i, imports, exports) ==
  LET parent == ResolveParentClass(i, imports, exports)
      ref == ToReference(i, imports, exports)
  IN /\ parent.error <=> ~ValidIndex(i, imports, exports)
     /\ parent.name = Object(i, imports, exports) /\ ref.object = parent.name
     /\ \A k \in DOMAIN exports :
          DetectGenerated(exports[k], imports) => GetAssetClass(exports[k], imports, exports) = "BlueprintGeneratedClass"

\* The class generated for an asset is one so named, and none is larger; the
\* list of imports has each once, in the order in which they come.
MainIsGenerated(imports, exports, name) ==
  LET k == MainGeneratedClass(imports, exports, {name})
      all == {j \in DOMAIN exports : DetectGenerated(exports[j], imports) /\ exports[j].name = name}
      list == ImportsList(imports)
  IN /\ IF all = {} THEN k = 0 ELSE k \in all /\ \A j \in all : exports[j].size <= exports[k].size
     /\ IsInjective(list) /\ Range(list) = Range(imports)
     /\ \A i \in DOMAIN imports : imports[i] \in Range(ImportsList(SubSeq(imports, 1, i)))

\* A cached version is the one the list gives, whatever was asked before.
CacheIsTheList(versions, asked) ==
  LET after[k \in 0..Len(asked)] == IF k = 0 THEN <<>> ELSE GetVersion(versions, after[k - 1], asked[k], 0).cache
  IN \A g \in Range(asked), d \in 0..1 :
       GetVersion(versions, after[Len(asked)], g, d).value = GetVersion(versions, <<>>, g, d).value
=============================================================================
