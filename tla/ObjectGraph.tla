----------------------------- MODULE ObjectGraph -----------------------------
(***************************************************************************)
(* PackageLinker.link and post_load: the objects of a package, the tree of *)
(* their outers, their full names and their dependencies.                  *)
(*                                                                         *)
(* An object is its package index: -k the k-th import, k the k-th export,  *)
(* 0 none.  A package p is [imports, exports, depends, size]; an import is *)
(* [name, class, package, outer], an export [name, class, outer, super,    *)
(* template, offset, length].  A name is a sequence of characters.         *)
(***************************************************************************)
EXTENDS Integers, Sequences, FiniteSetsExt

CONSTANTS Underscore, Digits     \* characters

Imports(p) == [k \in DOMAIN p.imports |-> -k]
Exports(p) == [k \in DOMAIN p.exports |-> k]
Objects(p) == Imports(p) \o Exports(p)
IsObject(p, i) == -i \in DOMAIN p.imports \/ i \in DOMAIN p.exports
Entry(p, o) == IF o < 0 THEN p.imports[-o] ELSE p.exports[o]

\* resolve_package_index: 0 beyond the tables, with a diagnostic.
Resolve(p, i) == IF IsObject(p, i) THEN i ELSE 0
Unresolved(p, i) == i # 0 /\ ~IsObject(p, i)

\* The data of an export whose offset lies outside the file is empty.
Placed(p, k) ==
  IF p.exports[k].offset \in 0..p.size THEN <<p.exports[k].offset, p.exports[k].length>> ELSE <<0, 0>>

\* What a list has of a set, in the order of the list.
Only(list, set) ==
  LET kept[k \in 0..Len(list)] ==
        IF k = 0 THEN <<>> ELSE IF list[k] \in set THEN Append(kept[k - 1], list[k]) ELSE kept[k - 1]
  IN kept[Len(list)]

\* Lists one behind the other.
Joined(lists) ==
  LET all[k \in 0..Len(lists)] == IF k = 0 THEN <<>> ELSE all[k - 1] \o lists[k]
  IN all[Len(lists)]

-----------------------------------------------------------------------------
(* The tree of outers.                                                      *)

OuterIndex(p, o) == Entry(p, o).outer
Outer(p, o) == Resolve(p, OuterIndex(p, o))
Super(p, k) == Resolve(p, p.exports[k].super)
Template(p, k) == Resolve(p, p.exports[k].template)
Children(p, o) == Only(Objects(p), {x \in Range(Objects(p)) : Outer(p, x) = o})
RootObjects(p) == Only(Objects(p), {x \in Range(Objects(p)) : OuterIndex(p, x) = 0})

\* normalize_world_partition_path: a suffix of an underscore and at least three
\* digits, which lies in the last segment of a path, is dropped.
Hashed(name) ==
  \E i \in DOMAIN name : name[i] = Underscore /\ Len(name) - i >= 3 /\ \A j \in i + 1..Len(name) : name[j] \in Digits
Suffix(name) == CHOOSE i \in DOMAIN name : name[i] = Underscore /\ \A j \in i + 1..Len(name) : name[j] \in Digits
Normalize(path) == IF Hashed(path) THEN SubSeq(path, 1, Suffix(path) - 1) ELSE path

\* get_full_name: names from the outermost object down, behind the package of
\* an import or this package; where the outers form a cycle, behind a mark.
Before(what, name) == [what |-> what, name |-> name]
Own(p, o) ==
  IF o < 0 /\ p.imports[-o].package # <<>> THEN Before("import", Normalize(p.imports[-o].package)) ELSE Before("package", <<>>)
Under(above, p, o) == [above EXCEPT !.names = Append(@, Entry(p, o).name)]
FullName(p, o) ==
  LET objects == Range(Objects(p))
      name[visited \in SUBSET objects] == [x \in objects |->
        IF x \in visited THEN [head |-> Before("circular", <<Cardinality(visited)>>), names |-> <<>>]
        ELSE IF Outer(p, x) # 0 THEN Under(name[visited \cup {x}][Outer(p, x)], p, x)
        ELSE [head |-> Own(p, x), names |-> <<Entry(p, x).name>>]]
  IN name[{}][o]

-----------------------------------------------------------------------------
(* Dependencies, the verification of imports, and what is reported.         *)

\* _build_dependency_graph: one list for each export that the map has.
Depending(p) == DOMAIN p.exports \cap DOMAIN p.depends
Dependencies(p, k) == Only(p.depends[k], {i \in Range(p.depends[k]) : Resolve(p, i) # 0})

\* _verify_imports: no class, or an outer that is nowhere, but for the split
\* packages of a world partition.
ImportError(p, k) ==
  \/ p.imports[k].class = <<>>
  \/ Unresolved(p, p.imports[k].outer) /\ ~Hashed(p.imports[k].name)
ImportErrors(p) == {k \in DOMAIN p.imports : ImportError(p, k)}

\* The diagnostics in the order in which they are recorded: by link, and by
\* post_load, which resolves the outers of imports again and reports a
\* dependency twice.  A diagnostic holds the index; "field" and "of" say at
\* which object it was met, which its text leaves out for outers.
Report(field, o, target) == [field |-> field, of |-> o, target |-> target]
Outers(p) == [o \in Range(Objects(p)) |-> OuterIndex(p, o)]
Supers(p) == [k \in DOMAIN p.exports |-> p.exports[k].super]
Templates(p) == [k \in DOMAIN p.exports |-> p.exports[k].template]
Reports(p, field, objects, index) ==
  LET bad == Only(objects, {o \in DOMAIN index : Unresolved(p, index[o])})
  IN [i \in DOMAIN bad |-> Report(field, bad[i], index[bad[i]])]
OffsetReports(p) ==
  LET bad == Only(Exports(p), {k \in DOMAIN p.exports : p.exports[k].offset \notin 0..p.size})
  IN [i \in DOMAIN bad |-> Report("serial_offset", bad[i], p.exports[bad[i]].offset)]
LinkReports(p) ==
  OffsetReports(p) \o Reports(p, "outer", Objects(p), Outers(p)) \o Reports(p, "super", Exports(p), Supers(p))
DependencyReports(p, k) ==
  LET bad == Only(p.depends[k], {i \in Range(p.depends[k]) : Unresolved(p, i)})
  IN Joined([i \in DOMAIN bad |-> <<Report("depends", k, bad[i]), Report("depends", k, bad[i])>>])
PostLoadReports(p) ==
  Reports(p, "outer", Imports(p), Outers(p)) \o Reports(p, "template", Exports(p), Templates(p))
    \o Joined([k \in 1..Cardinality(Depending(p)) |-> DependencyReports(p, k)])
Diagnostics(p) == LinkReports(p) \o PostLoadReports(p)

\* The resolvers that go through the linker.
ResolveClassNameWithLinker(p, i) == IF Resolve(p, i) = 0 THEN <<>> ELSE Entry(p, i).name
ResolveParentWithLinker(p, i) == [name |-> ResolveClassNameWithLinker(p, i), error |-> Unresolved(p, i)]

-----------------------------------------------------------------------------
(* Properties.                                                              *)

\* Every object is a root, the child of exactly one object, or an orphan whose
\* outer is nowhere, and those are reported; the children come imports first.
TreeIsWhole(p) ==
  LET objects == Range(Objects(p))
      roots == Range(RootObjects(p))
      child(o) == {x \in objects : o \in Range(Children(p, x))}
      orphans == {o \in objects : o \notin roots /\ child(o) = {}}
  IN /\ \A o \in objects : /\ Cardinality(child(o)) <= 1
                           /\ o \in roots => child(o) = {}
                           /\ o \in orphans <=> \E r \in Range(LinkReports(p)) : r.field = "outer" /\ r.of = o
     /\ \A x \in objects : LET list == Children(p, x) IN
          \A i, j \in DOMAIN list : i < j => list[i] < 0 \/ (list[j] > 0 /\ list[i] < list[j])

\* A full name follows the outers: its last name is the object's, what comes
\* before is the name of its outer, unless the outers of the object never end,
\* and then the name says so after each of them once.
NamesFollowOuters(p) ==
  \A o \in Range(Objects(p)) :
    LET n == FullName(p, o)
        Up[d \in 0..Len(Objects(p))] == IF d = 0 THEN o ELSE IF Up[d - 1] = 0 THEN 0 ELSE Outer(p, Up[d - 1])
        endless == Up[Len(Objects(p))] # 0
    IN /\ n.names[Len(n.names)] = Entry(p, o).name
       /\ n.head.what = "circular" <=> endless
       /\ endless => n.head.name = <<Len(n.names)>> /\ Len(n.names) = Cardinality({Up[d] : d \in DOMAIN Up})
       /\ ~endless /\ Outer(p, o) # 0 =>
            LET above == FullName(p, Outer(p, o)) IN above.head = n.head /\ above.names = SubSeq(n.names, 1, Len(n.names) - 1)

\* A path under the hash of a split package is the path itself again, and
\* fewer than three digits are no hash.
HashIsUndone(path, digits) ==
  LET hashed == path \o <<Underscore>> \o digits IN Normalize(hashed) = IF Len(digits) >= 3 THEN path ELSE hashed

\* Every index of the tables that is not 0 is an object or is reported, with
\* the object that has it, and nothing else is reported; the same holds of the
\* dependencies of the exports there are.  An import without an error is a
\* root, has an outer, or belongs to a split package.
NothingIsLostSilently(p) ==
  LET reported == {<<r.field, r.of, r.target>> : r \in Range(Diagnostics(p))}
      objects == Range(Objects(p))
      exports == DOMAIN p.exports
  IN /\ {t \in reported : t[1] = "outer"} =
           {<<"outer", o, OuterIndex(p, o)>> : o \in {x \in objects : OuterIndex(p, x) # 0 /\ Outer(p, x) = 0}}
     /\ {t \in reported : t[1] = "super"} =
           {<<"super", k, p.exports[k].super>> : k \in {x \in exports : p.exports[x].super # 0 /\ Super(p, x) = 0}}
     /\ {t \in reported : t[1] = "template"} =
           {<<"template", k, p.exports[k].template>> : k \in {x \in exports : p.exports[x].template # 0 /\ Template(p, x) = 0}}
     /\ \A k \in Depending(p) : LET lost == {t[3] : t \in {u \in reported : u[1] = "depends" /\ u[2] = k}} IN
          /\ Range(p.depends[k]) \ {0} = Range(Dependencies(p, k)) \cup lost
          /\ \A i \in Range(Dependencies(p, k)) : IsObject(p, i)
          /\ \A i \in lost : ~IsObject(p, i)
     /\ \A k \in DOMAIN p.exports : Placed(p, k)[1] \in 0..p.size
     /\ \A k \in DOMAIN p.imports \ ImportErrors(p) :
          /\ p.imports[k].class # <<>>
          /\ Outer(p, -k) = 0 => -k \in Range(RootObjects(p)) \/ Normalize(p.imports[k].name) # p.imports[k].name
=============================================================================
