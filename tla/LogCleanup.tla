------------------------------ MODULE LogCleanup ------------------------------
(***************************************************************************)
(* cleanup_project_logs: log files are taken by families, a log with its   *)
(* rotations, and families are chosen by rank, by age and by the bytes     *)
(* they take together.  Every choice asks the disk for times and sizes of  *)
(* files that another process may delete meanwhile.                        *)
(***************************************************************************)
EXTENDS Integers, FiniteSetsExt

CONSTANTS Files, FamilyOf, Mtime, Size,    \* of each file; no two have the same time
          Active,                          \* the family this process writes
          Keeps, Cutoffs, Totals,          \* values of the options; Off for one not given
          Off

VARIABLES dir,                      \* the directory
          keep, cutoff, total,      \* keep_latest, older_than_days as a time, max_total_bytes
          files, selected, planned, \* locals of the function
          removed, pc

options == <<keep, cutoff, total>>
vars == <<dir, keep, cutoff, total, files, selected, planned, removed, pc>>

Families == {FamilyOf[f] : f \in files}
Of(families) == {f \in files : FamilyOf[f] \in families}
TimeOf(family) == Max({Mtime[f] : f \in Of({family})})
Bytes(some) == MapThenSumSet(LAMBDA f : Size[f], some)
Newest == CHOOSE g \in Families : \A h \in Families : TimeOf(h) <= TimeOf(g)

Init ==
  /\ dir \in SUBSET Files
  /\ keep \in Keeps /\ cutoff \in Cutoffs /\ total \in Totals
  /\ files = {} /\ selected = {} /\ planned = {} /\ removed = {}
  /\ pc = "glob"

Glob ==
  /\ pc = "glob"
  /\ files' = dir
  /\ pc' = "rank"
  /\ UNCHANGED <<dir, options, selected, planned, removed>>

\* A step that asks for the time or the size of some files; a missing one raises.
Stat(step, some, following) ==
  /\ pc = step
  /\ pc' = IF some \subseteq dir THEN following ELSE "raised"
  /\ UNCHANGED <<dir, options, files, removed>>

Rank ==
  /\ Stat("rank", files, "age")
  /\ selected' = IF keep = Off THEN {}
                 ELSE {g \in Families \ {Active} :
                         Cardinality({h \in Families : TimeOf(h) > TimeOf(g)}) >= Max({1, keep})}
  /\ UNCHANGED planned

Age ==
  /\ Stat("age", IF cutoff = Off THEN {} ELSE Of(Families \ {Active}), "total")
  /\ selected' = IF cutoff = Off THEN selected
                 ELSE selected \cup {g \in Families \ {Active} : TimeOf(g) < cutoff}
  /\ UNCHANGED planned

\* Variant: the active family counts as any other for the total.
TotalOfAll ==
  /\ Stat("total", IF total = Off THEN {} ELSE files, "sort")
  /\ LET left == Bytes(files) - Bytes(Of(selected))
         others == Families \ selected
     IN selected' = IF total = Off \/ files = {} THEN selected
                    ELSE selected \cup {g \in others :
                           left - Bytes(Of({h \in others : TimeOf(h) < TimeOf(g)})) > total}
  /\ UNCHANGED planned

\* The oldest first, as long as what is left is too much; never the active
\* family and never the newest.
Total ==
  /\ Stat("total", IF total = Off THEN {} ELSE files, "sort")
  /\ LET left == Bytes(files) - Bytes(Of(selected))
         others == Families \ (selected \cup {Active, Newest})
     IN selected' = IF total = Off \/ files = {} THEN selected
                    ELSE selected \cup {g \in others :
                           left - Bytes(Of({h \in others : TimeOf(h) < TimeOf(g)})) > total}
  /\ UNCHANGED planned

Sort ==
  /\ Stat("sort", Of(selected), "unlink")
  /\ planned' = Of(selected)
  /\ UNCHANGED selected

\* unlink(missing_ok): one file at a time, gone already or not.
Unlink ==
  /\ pc = "unlink"
  /\ IF planned = {} THEN pc' = "done" /\ UNCHANGED <<dir, planned, removed>>
     ELSE \E f \in planned :
            /\ \A g \in planned : Mtime[f] <= Mtime[g]
            /\ planned' = planned \ {f}
            /\ removed' = removed \cup ({f} \cap dir)
            /\ dir' = dir \ {f}
            /\ UNCHANGED pc
  /\ UNCHANGED <<options, files, selected>>

\* The oldest planned file is there and cannot be deleted: held open, or no right.
\* The error leaves the function, with what was deleted before.
UnlinkRefused ==
  /\ pc = "unlink"
  /\ \E f \in planned \cap dir : \A g \in planned : Mtime[f] <= Mtime[g]
  /\ pc' = "refused"
  /\ UNCHANGED <<dir, options, files, selected, planned, removed>>

\* Another process cleans up, or starts a log.
Other ==
  /\ \E f \in Files : dir' \in {dir \cup {f}, dir \ {f}}
  /\ UNCHANGED <<options, files, selected, planned, removed, pc>>

Next == Glob \/ Rank \/ Age \/ Total \/ Sort \/ Unlink \/ UnlinkRefused \/ Other

Spec == Init /\ [][Next]_vars

-----------------------------------------------------------------------------
\* A cleanup that raises, because a file it found was deleted by another
\* process, has not deleted one itself.
RaisesBeforeDeleting == pc = "raised" => removed = {}

\* One that stops at a file it cannot delete has deleted only older ones: no log
\* is gone while an older one that was chosen too is still to come.
OldestGoFirst == \A f \in removed, g \in planned : Mtime[f] <= Mtime[g]

\* Whatever the options select, the log that is being written stays, and the
\* newest goes by its age only.  What a cleanup that ends leaves of the files it
\* found keeps to the bytes given, or is of those two families.
KeepsWhatItMust ==
  LET left == files \ Of(selected)
  IN /\ \A f \in removed : FamilyOf[f] # Active
     /\ cutoff = Off /\ files # {} => \A f \in removed : FamilyOf[f] # Newest
     /\ pc = "done" /\ total # Off /\ files # {}
          => Bytes(left) <= total \/ {FamilyOf[f] : f \in left} \subseteq {Active, Newest}
=============================================================================
