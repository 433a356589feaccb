---------------------------- MODULE FileListCache ----------------------------
(***************************************************************************)
(* FileSystemPackageProvider.list_files: the packages under a root, cached *)
(* as long as the root's modification time stays.  Other processes add and *)
(* remove files meanwhile; a change in a subdirectory does not touch the   *)
(* root's time, and of two changes in the root within one tick of the file *)
(* system's clock the later one does not either.                           *)
(***************************************************************************)
EXTENDS Integers

CONSTANTS Packages, MaxTime     \* MaxTime bounds the changes of the root

VARIABLES root, below, mtime,          \* the disk: packages in the root and under it
          sameTick,                    \* history: what changed in the root in the tick of mtime
          listed, listedAt, hasList,   \* _list_files_cache, _cache_mtime
          pc, seen, readAt             \* a scan on its way

disk == <<root, below, mtime, sameTick>>
vars == <<disk, listed, listedAt, hasList, pc, seen, readAt>>

NoList == [root |-> {}, below |-> {}]
Init ==
  /\ root = {} /\ below = {} /\ mtime = 0 /\ sameTick = {}
  /\ listed = NoList /\ listedAt = 0 /\ hasList = "no"
  /\ pc = "idle" /\ seen = NoList /\ readAt = 0

ChangeRoot(p) ==
  /\ root' = IF p \in root THEN root \ {p} ELSE root \cup {p}
  /\ \/ mtime < MaxTime /\ mtime' = mtime + 1 /\ sameTick' = {}
     \/ mtime' = mtime /\ sameTick' = sameTick \cup {p}
  /\ UNCHANGED <<below, listed, listedAt, hasList, pc, seen, readAt>>
ChangeBelow(p) ==
  /\ below' = IF p \in below THEN below \ {p} ELSE below \cup {p}
  /\ UNCHANGED <<root, mtime, sameTick, listed, listedAt, hasList, pc, seen, readAt>>

\* The time is read before the files, and a list of this time is given again.
ListFiles ==
  /\ pc = "idle"
  /\ ~(hasList = "yes" /\ listedAt = mtime)
  /\ pc' = "root" /\ readAt' = mtime
  /\ UNCHANGED <<disk, listed, listedAt, hasList, seen>>
ScanRoot ==
  /\ pc = "root"
  /\ pc' = "below" /\ seen' = [seen EXCEPT !.root = root]
  /\ UNCHANGED <<disk, listed, listedAt, hasList, readAt>>
ScanBelow ==
  /\ pc = "below"
  /\ pc' = "store" /\ seen' = [seen EXCEPT !.below = below]
  /\ UNCHANGED <<disk, listed, listedAt, hasList, readAt>>

\* Variant: the time that is kept is the one at the end of the scan.
StoreNow ==
  /\ pc = "store"
  /\ pc' = "idle" /\ hasList' = "yes" /\ listed' = seen /\ listedAt' = mtime
  /\ UNCHANGED <<disk, seen, readAt>>
Store ==
  /\ pc = "store"
  /\ pc' = "idle" /\ hasList' = "yes" /\ listed' = seen /\ listedAt' = readAt
  /\ UNCHANGED <<disk, seen, readAt>>

RefreshFileCache ==
  /\ pc = "idle"
  /\ hasList' = "no" /\ listed' = NoList /\ listedAt' = 0
  /\ UNCHANGED <<disk, pc, seen, readAt>>

Next == \/ \E p \in Packages : ChangeRoot(p) \/ ChangeBelow(p)
        \/ ListFiles \/ ScanRoot \/ ScanBelow \/ Store \/ RefreshFileCache

Spec == Init /\ [][Next]_vars

-----------------------------------------------------------------------------
\* The packages whose presence in the root is not what r says.
Differing(r) == (root \ r) \cup (r \ root)

\* A list that would be given again differs from the root only by packages that
\* came or went without moving the root's time: those of its last tick are hidden
\* for good, a package that came while the scan ran in a later tick is not.
\* What is below the root may be older.
RootIsCurrent == hasList = "yes" /\ listedAt = mtime => Differing(listed.root) \subseteq sameTick
=============================================================================
