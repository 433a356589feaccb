----------------------------- MODULE PackageFiles -----------------------------
(***************************************************************************)
(* A package as its files: the .uasset or .umap with its .uexp read as one *)
(* archive, the bundle of files and payloads around it, and how a provider *)
(* finds them.  A provider is a function from the names it lists to the    *)
(* bytes; a name is [stem, ext].  A reader answers [at, err, val].         *)
(***************************************************************************)
EXTENDS Integers, Sequences, FiniteSetsExt

PackageExts == <<"uasset", "umap">>
PayloadExts == {"uexp", "ubulk", "uptnl"}
Named(stem, ext) == [stem |-> stem, ext |-> ext]
Piece(s, from, n) == SubSeq(s, from + 1, Min({from + n, Len(s)}))
EndsWith(s, end) == \E from \in 0..Len(s) : Piece(s, from, Len(s)) = end

-----------------------------------------------------------------------------
(* PackageArchive: two segments, whose sizes are those they had when it was *)
(* made (size), whatever the files hold now (segs).                         *)

\* The loop of read: what is left of the main file, then of the .uexp.  What
\* was read before a short segment is lost, and the place has moved past it.
ReadOn(a, at, n) ==
  LET first == IF at < a.size[1] THEN Min({n, a.size[1] - at}) ELSE 0
      front == Piece(a.segs[1], at, first)
      back == Piece(a.segs[2], at + first - a.size[1], n - first)
  IN IF Len(front) < first THEN [at |-> at, err |-> TRUE, val |-> <<>>]
     ELSE IF Len(back) < n - first THEN [at |-> at + first, err |-> TRUE, val |-> <<>>]
     ELSE [at |-> at + n, err |-> FALSE, val |-> front \o back]

\* read: a negative size and one past the end are refused first.
PackageRead(a, at, n) ==
  IF n < 0 \/ n > a.size[1] + a.size[2] - at THEN [at |-> at, err |-> TRUE, val |-> <<>>]
  ELSE ReadOn(a, at, n)

\* The constructor asks both segments for their size; when one cannot tell,
\* the first alone is closed.
PackageArchive(main, uexp, fails) ==
  [err |-> fails, open |-> IF fails THEN uexp ELSE main \cup uexp]
\* close: both, the first failure leaves the second.
CloseArchive(open, fails) == IF fails THEN open \ {"main"} ELSE {}

-----------------------------------------------------------------------------
(* The bundle.                                                              *)

\* open_package_bundle of a container: the main file and every payload that
\* can be read beside it.
ProviderBundle(files, main) ==
  [main |-> main, kind |-> IF main.ext = "umap" THEN "map" ELSE "asset",
   payloads |-> [e \in {main.ext} \cup {x \in PayloadExts : Named(main.stem, x) \in DOMAIN files}
                   |-> IF Named(main.stem, e) \in DOMAIN files THEN files[Named(main.stem, e)] ELSE <<>>]]

\* open_archive: the main file by the kind, and the .uexp if the bundle has
\* one.  gone are the files that went away since the bundle was made: the
\* main file stays open when its .uexp cannot be opened.
OpenBundle(b, gone) ==
  LET main == IF b.kind = "map" THEN "umap" ELSE "uasset"
      both == "uexp" \in DOMAIN b.payloads
  IN CASE main \notin DOMAIN b.payloads \/ main \in gone -> [err |-> TRUE, open |-> {}]
       [] main \in DOMAIN b.payloads \ gone /\ both /\ "uexp" \in gone -> [err |-> TRUE, open |-> {"main"}]
       [] OTHER -> [err |-> FALSE, open |-> {"main"} \cup (IF both THEN {"uexp"} ELSE {})]

-----------------------------------------------------------------------------
(* Finding the main file.  A stem is a sequence of numbers; those that      *)
(* differ by 10 differ in case.                                             *)

Fold(stem) == [k \in DOMAIN stem |-> stem[k] % 10]
\* What is asked may have no suffix ("").
Alike(name, ask) == name.ext = ask.ext \/ (ask.ext = "" /\ name.ext \in {"uasset", "umap"})

\* The suffixes, in their order, under which there is a file of the stem.
Existing(names, stem) == {k \in DOMAIN PackageExts : Named(stem, PackageExts[k]) \in names}
FirstExisting(names, stem) == Named(stem, PackageExts[Min(Existing(names, stem))])

\* _resolve_package_path: exactly, then with each suffix in their order, then
\* the first file of a set - in no order - that matches without case, or ends
\* so.  The answers it may give:
ResolvePackagePath(names, ask) ==
  LET suffixed == ask.ext = "" /\ Existing(names, ask.stem) # {}
  IN CASE ask \in names -> {ask}
       [] ask \notin names /\ suffixed -> {FirstExisting(names, ask.stem)}
       [] OTHER -> {f \in names : Alike(f, ask) /\ EndsWith(Fold(f.stem), Fold(ask.stem))}

\* FileSystemPackageProvider.open_package_bundle: a path that is not a package
\* is given the first suffix that exists.
FileSystemMain(names, ask) ==
  LET suffixed == ask.ext \notin {"uasset", "umap"} /\ Existing(names, ask.stem) # {}
      main == IF suffixed THEN FirstExisting(names, ask.stem) ELSE ask
  IN IF main \in names THEN {main} ELSE {}

-----------------------------------------------------------------------------
(* Properties.                                                              *)

\* A read of the package is the read of its two files one behind the other,
\* at any place and across the seam; a file that has become shorter makes it
\* fail and never gives fewer bytes (PackageArchive.read).
SeamIsInvisible(a, at, n) ==
  LET r == PackageRead(a, at, n)
      same == Len(a.segs[1]) = a.size[1] /\ Len(a.segs[2]) = a.size[2]
  IN /\ ~r.err => Len(r.val) = n /\ r.at = at + n
     /\ same /\ n \in 0..(a.size[1] + a.size[2] - at) =>
          r = [at |-> at + n, err |-> FALSE, val |-> Piece(a.segs[1] \o a.segs[2], at, n)]

\* A bundle opens exactly when the files it needs are still there, and then
\* closing its archive leaves nothing open; what a failure leaves behind is one
\* file, never both (PackageBundle.open_archive, PackageArchive).
BundleOpens(files, main, gone) ==
  LET b == ProviderBundle(files, main)
      o == OpenBundle(b, gone)
      need == {main.ext} \cup (IF "uexp" \in DOMAIN b.payloads THEN {"uexp"} ELSE {})
      a == PackageArchive({"main"}, o.open \ {"main"}, FALSE)
  IN /\ ~o.err <=> need \cap gone = {}
     /\ ~o.err => ~a.err /\ CloseArchive(a.open, FALSE) = {}
     /\ PackageArchive({"main"}, o.open \ {"main"}, TRUE).open \subseteq {"uexp"}
     /\ o.err => o.open \subseteq {"main"}

\* The file found is one the provider has, of the kind asked for, and a file
\* whose name is asked for exactly is never passed over; the two providers
\* agree on such a name (_resolve_package_path, open_package_bundle).
PackageFoundIsAsked(names, ask) ==
  LET found == ResolvePackagePath(names, ask)
  IN /\ found \subseteq names
     /\ ask \in names => found = {ask}
     /\ ask.ext = "" => FileSystemMain(names, ask) = {} \/ found = FileSystemMain(names, ask)
=============================================================================
