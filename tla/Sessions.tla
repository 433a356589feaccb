------------------------------- MODULE Sessions -------------------------------
(***************************************************************************)
(* What outlives a single read in one process: the fallback table of       *)
(* bytecode (BytecodeCache, extended here), the shared limits, the cache   *)
(* of class handlers, the list of packages and the log directory.  They    *)
(* share no state; a step of the process is a step of one of them.         *)
(***************************************************************************)
EXTENDS BytecodeCache, FiniteSets

CONSTANTS MaxEntries, MaxBytes, MaxSingle, MaxTotal, MaxWork, Sizes,
          MaxDropped, MaxStack, MaxCounted,                        \* ResourceGuards
          Handlers, Classes, CanHandle, NoHandler, NotCached, MaxHandlers,
          Packages, MaxTime,                                       \* FileListCache
          Files, FamilyOf, Mtime, Size, Active, Keeps, Cutoffs, Totals, Off

\* Sizes and times are numbers, and a directory has finitely many files.
ASSUME SessionsAssumption ==
  /\ MaxEntries \in Nat /\ MaxBytes \in Nat /\ MaxTotal \in Nat /\ Sizes \subseteq Nat
  /\ IsFiniteSet(Files) /\ \A f \in Files : Mtime[f] \in Int /\ Size[f] \in Nat
  /\ Keeps \subseteq Int /\ Cutoffs \subseteq Int /\ Totals \subseteq Int

VARIABLES entries, bytes, dropped, total, checkpoints, work, held,
          handlers, known,
          root, below, mtime, sameTick, listed, listedAt, hasList, scan, seen, readAt,
          dir, keep, cutoff, limit, files, selected, planned, removed, pc

guardVars == <<entries, bytes, dropped, total, checkpoints, work, held>>
registryVars == <<handlers, known>>
listVars == <<root, below, mtime, sameTick, listed, listedAt, hasList, scan, seen, readAt>>
cleanupVars == <<dir, keep, cutoff, limit, files, selected, planned, removed, pc>>
allVars == <<vars, guardVars, registryVars, listVars, cleanupVars>>

Guards == INSTANCE ResourceGuards
Registry == INSTANCE HandlerRegistry WITH cached <- known
Listing == INSTANCE FileListCache WITH pc <- scan
Cleanup == INSTANCE LogCleanup WITH total <- limit

BytecodeStep == Next /\ UNCHANGED <<guardVars, registryVars, listVars, cleanupVars>>
GuardsStep == Guards!Next /\ UNCHANGED <<vars, registryVars, listVars, cleanupVars>>
RegistryStep == Registry!Next /\ UNCHANGED <<vars, guardVars, listVars, cleanupVars>>
ListingStep == Listing!Next /\ UNCHANGED <<vars, guardVars, registryVars, cleanupVars>>
CleanupStep == Cleanup!Next /\ UNCHANGED <<vars, guardVars, registryVars, listVars>>

SessionsInit == Init /\ Guards!Init /\ Registry!Init /\ Listing!Init /\ Cleanup!Init
SessionsNext == BytecodeStep \/ GuardsStep \/ RegistryStep \/ ListingStep \/ CleanupStep
SessionsSpec == SessionsInit /\ [][SessionsNext]_allVars

-----------------------------------------------------------------------------
\* The shared limits hold: those of the buffer and those of the budget.
LimitsHold == Guards!BufferBounded /\ Guards!GrantedWithinLimit

\* No class is served by a handler that came second, and a package that came to
\* the root, or left it, with a new time of the root is listed so next time.
CachesAreCurrent == Registry!CachedIsCurrent /\ Listing!RootIsCurrent

\* Deleting logs stops before the first at a file that is missing, has deleted only
\* older ones at a file that stays, and keeps what it must.
CleanupIsSafe == Cleanup!RaisesBeforeDeleting /\ Cleanup!OldestGoFirst /\ Cleanup!KeepsWhatItMust
=============================================================================
