---------------------------- MODULE Sessions_proofs ----------------------------
(***************************************************************************)
(* What outlives a single read, for any limits, handlers, packages, logs   *)
(* and options, and with the steps of the parts in any order: each part    *)
(* keeps its invariant in its own steps, and rests in those of the others. *)
(***************************************************************************)
EXTENDS Sessions, DataInduction

\* What the table holds now will be an answer later: it must belong to the
\* asset that is read, which OwnBytecode alone does not say.
TableOwn ==
  \A n \in Names : table[n] # NoCode =>
    /\ table[n] \in Code
    /\ table[n][1] = asset
    /\ NameOf[table[n]] = n

CacheInv == CacheTypeOK /\ TableOwn /\ OwnBytecode /\ RetriesBounded

\* Sizes are counted one by one, and what was granted before a checkpoint that
\* can still be returned to was within the limits, too.
Granted(t, h) == Guards!Sum(h) <= t /\ Guards!Sum(h) <= MaxTotal
Totalled == [total : Nat, held : Seq(Nat)]
GuardsInv ==
  /\ entries \in Seq(Nat) /\ bytes \in Nat
  /\ Guards!BufferBounded
  /\ total \in Nat /\ held \in Seq(Nat) /\ Granted(total, held)
  /\ checkpoints \in Seq(Totalled)
  /\ \A k \in DOMAIN checkpoints : Granted(checkpoints[k].total, checkpoints[k].held)

\* The cache has an entry for every class.
RegistryInv == known = [c \in Classes |-> known[c]] /\ Registry!CachedIsCurrent

\* Times never go back, and a scan, or a list, of the time that the root still has
\* saw the root that is there but for the changes of the last tick.  The scan's
\* half is what Store hands to the list.
ListInv ==
  /\ mtime \in Nat /\ listedAt \in Nat /\ readAt \in Nat
  /\ scan \in {"idle", "root", "below", "store"}
  /\ listed \in [root : SUBSET Packages, below : SUBSET Packages]
  /\ seen \in [root : SUBSET Packages, below : SUBSET Packages]
  /\ root \subseteq Packages /\ below \subseteq Packages /\ sameTick \subseteq Packages
  /\ listedAt <= mtime /\ readAt <= mtime
  /\ scan \in {"below", "store"} /\ readAt = mtime => Listing!Differing(seen.root) \subseteq sameTick
  /\ Listing!RootIsCurrent

\* Nothing is planned before the choice is made, what is planned or deleted was
\* chosen, and neither the active family nor, but for its age, the newest is.
Left == files \ Cleanup!Of(selected)
LeftIsEnough ==
  SumOver(Size, Left) <= limit \/ {FamilyOf[f] : f \in Left} \subseteq {Active, Cleanup!Newest}
CleanupInv ==
  /\ pc \in {"glob", "rank", "age", "total", "sort", "unlink", "done", "raised", "refused"}
  /\ dir \subseteq Files /\ files \subseteq Files
  /\ keep \in Int /\ cutoff \in Int /\ limit \in Int
  /\ pc = "glob" => files = {}
  /\ pc \in {"glob", "rank"} => selected = {}
  /\ pc \in {"glob", "rank", "age", "total", "sort"} => planned = {}
  /\ pc \notin {"unlink", "done", "refused"} => removed = {}
  /\ \A f \in planned \cup removed : FamilyOf[f] \in selected
  /\ planned \cup removed \subseteq Files
  /\ Cleanup!OldestGoFirst
  /\ Active \notin selected
  /\ cutoff = Off /\ files # {} => Cleanup!Newest \notin selected
  /\ pc \in {"sort", "unlink", "done"} /\ limit # Off /\ files # {} => LeftIsEnough

SessionsInv == CacheInv /\ GuardsInv /\ RegistryInv /\ ListInv /\ CleanupInv

-----------------------------------------------------------------------------
(* The fallback table: what map_bytecode_to_functions puts under a name is  *)
(* of that name and of that asset, and so is every answer taken from it.    *)

\* A name's entry is the code of a function of that name, in the same asset.
LEMMA TableIsOwn ==
  ASSUME NEW a \in Assets, NEW n \in 0..Count, NEW name \in Names,
         TableOf(a, n)[name] # NoCode
  PROVE  /\ TableOf(a, n)[name] \in Code
         /\ TableOf(a, n)[name][1] = a
         /\ NameOf[TableOf(a, n)[name]] = name
<1> DEFINE Named == {i \in 1..n : NameOf[<<a, i>>] = name}
           Latest(i) == /\ NameOf[<<a, i>>] = name
                        /\ \A j \in 1..n : NameOf[<<a, j>>] = name => j <= i
           chosen == CHOOSE i \in 1..n : Latest(i)
<1>1. \E i \in 1..n : NameOf[<<a, i>>] = name
  BY DEF TableOf
<1>2. \E i \in 1..n : Latest(i)
  <2>1. n \in Nat /\ Named \in SUBSET (1..n) /\ Named # {}
    BY <1>1, CacheAssumption
  <2>2. PICK i \in Named : \A j \in Named : j <= i
    <3>1. IsFiniteSet(1..n) /\ Named \subseteq Int
      BY <2>1, FS_Interval
    <3>2. IsFiniteSet(Named)
      BY <2>1, <3>1, FS_Subset
    <3> HIDE DEF Named
    <3> QED
      BY <2>1, <3>1, <3>2, HasGreatest
  <2> QED
    BY <2>2
<1>3. chosen \in 1..n /\ Latest(chosen)
  BY <1>2
<1>4. TableOf(a, n)[name] = <<a, chosen>>
  BY <1>1 DEF TableOf
<1>5. chosen \in 1..Count
  BY <1>3, CacheAssumption
<1> HIDE DEF chosen
<1>6. <<a, chosen>> \in Code /\ <<a, chosen>>[1] = a
  BY <1>5 DEF Code
<1>7. NameOf[<<a, chosen>>] = name
  BY <1>3
<1> QED
  BY <1>4, <1>6, <1>7

LEMMA TableIsTable ==
  ASSUME NEW a \in Assets, NEW n \in 0..Count
  PROVE  TableOf(a, n) \in [Names -> Answers]
<1>1. \A name \in Names : TableOf(a, n)[name] \in Answers
  BY TableIsOwn DEF Answers
<1> QED
  BY <1>1 DEF TableOf

\* What is written as the next answer keeps the answers right when it is no
\* bytecode or one of the asset and the function's name.
LEMMA AnswerIsOwn ==
  ASSUME CacheTypeOK, OwnBytecode, NEW c, Answer(c),
         c = NoCode \/ /\ c \in Code
                       /\ c[1] = asset
                       /\ NameOf[c] = NameOf[<<asset, next>>]
  PROVE  /\ asset' \in Assets
         /\ next' \in 1..Count + 1
         /\ answer' \in [1..Count -> Answers]
         /\ OwnBytecode'
<1>1. c \in Answers /\ next \in 1..Count
  BY CacheAssumption DEF Answers, Answer, CacheTypeOK
<1>2. asset' = asset /\ next' = next + 1 /\ answer' = [answer EXCEPT ![next] = c]
  BY DEF Answer
<1>3. asset' \in Assets /\ next' \in 1..Count + 1 /\ answer' \in [1..Count -> Answers]
  BY <1>1, <1>2, CacheAssumption DEF CacheTypeOK
<1>4. ASSUME NEW i \in 1..Count, answer'[i] # NoCode
      PROVE  answer'[i][1] = asset' /\ NameOf[answer'[i]] = NameOf[<<asset', i>>]
  <2>1. CASE i = next
    BY <2>1, <1>1, <1>2, <1>4 DEF CacheTypeOK
  <2>2. CASE i # next
    BY <2>2, <1>1, <1>2, <1>4 DEF CacheTypeOK, OwnBytecode
  <2> QED
    BY <2>1, <2>2
<1> QED
  BY <1>3, <1>4 DEF OwnBytecode

\* So is an answer of the function's own, and one from a table of the asset.
LEMMA OwnAnswer ==
  ASSUME CacheTypeOK, OwnBytecode, NEW c \in Own, Answer(c)
  PROVE  /\ asset' \in Assets
         /\ next' \in 1..Count + 1
         /\ answer' \in [1..Count -> Answers]
         /\ OwnBytecode'
<1>1. next \in 1..Count /\ asset \in Assets
  BY CacheAssumption DEF Answer, CacheTypeOK
<1>2. c = NoCode \/ /\ c \in Code
                    /\ c[1] = asset
                    /\ NameOf[c] = NameOf[<<asset, next>>]
  BY <1>1 DEF Own, Code
<1> QED
  BY <1>2, AnswerIsOwn

LEMMA LookUpIsOwn ==
  ASSUME CacheTypeOK, OwnBytecode, NEW t,
         \A n \in Names : t[n] # NoCode => /\ t[n] \in Code
                                           /\ t[n][1] = asset
                                           /\ NameOf[t[n]] = n,
         LookUp(t)
  PROVE  /\ asset' \in Assets
         /\ next' \in 1..Count + 1
         /\ answer' \in [1..Count -> Answers]
         /\ OwnBytecode'
         /\ asset' = asset
<1>1. asset \in Assets /\ next \in 1..Count
  BY CacheAssumption DEF LookUp, CacheTypeOK
<1>2. NameOf[<<asset, next>>] \in Names
  BY <1>1, CacheAssumption
<1>3. CASE t[NameOf[<<asset, next>>]] # NoCode
  <2>1. Answer(t[NameOf[<<asset, next>>]])
    BY <1>3 DEF LookUp
  <2> QED
    BY <2>1, <1>2, <1>3, AnswerIsOwn DEF Answer
<1>4. CASE t[NameOf[<<asset, next>>]] = NoCode
  <2>1. PICK c \in Own : Answer(c)
    BY <1>4 DEF LookUp
  <2> QED
    BY <2>1, OwnAnswer DEF Answer
<1> QED
  BY <1>3, <1>4

LEMMA BytecodeInit == Init => CacheInv
<1> SUFFICES ASSUME Init PROVE CacheInv
  OBVIOUS
<1>1. PICK a \in Assets : asset = a
  BY DEF Init
<1>2. /\ next = 1
      /\ answer = [i \in 1..Count |-> NoCode]
      /\ cached = "no"
      /\ table = [n \in Names |-> NoCode]
      /\ retries = 0
  BY DEF Init, NoTable
<1> QED
  BY <1>1, <1>2, CacheAssumption
     DEF CacheInv, CacheTypeOK, TableOwn, OwnBytecode, RetriesBounded, Answers

LEMMA BytecodeStepHolds == CacheInv /\ [Next]_vars => CacheInv'
<1> SUFFICES ASSUME CacheInv, [Next]_vars PROVE CacheInv'
  OBVIOUS
<1> USE DEF CacheInv
<1>1. CASE \E a \in Assets : Begin(a)
  <2>1. PICK a \in Assets : Begin(a)
    BY <1>1
  <2>2. /\ asset' = a
        /\ next' = 1
        /\ answer' = [i \in 1..Count |-> NoCode]
        /\ cached' = "no"
        /\ table' = [n \in Names |-> NoCode]
        /\ retries' = 0
    BY <2>1 DEF Begin, NoTable
  <2> QED
    BY <2>2, CacheAssumption
       DEF CacheTypeOK, TableOwn, OwnBytecode, RetriesBounded, Answers
<1>2. CASE FunctionExport
  <2>1. Answer(<<asset, next>>) /\ UNCHANGED <<cached, table, retries>>
    BY <1>2 DEF FunctionExport, cache
  <2>2. CacheTypeOK' /\ OwnBytecode'
    BY <2>1, OwnAnswer DEF Own, CacheTypeOK
  <2> QED
    BY <2>1, <2>2 DEF TableOwn, RetriesBounded, Answer
<1>3. CASE Refused
  <2>1. Answer(NoCode) /\ UNCHANGED <<cached, table, retries>>
    BY <1>3 DEF Refused, cache
  <2>2. CacheTypeOK' /\ OwnBytecode'
    BY <2>1, OwnAnswer DEF Own, CacheTypeOK
  <2> QED
    BY <2>1, <2>2 DEF TableOwn, RetriesBounded, Answer
<1>4. CASE CacheHit
  <2>1. LookUp(table) /\ UNCHANGED <<cached, table, retries>>
    BY <1>4 DEF CacheHit, cache
  <2>2. CacheTypeOK' /\ OwnBytecode' /\ asset' = asset
    BY <2>1, LookUpIsOwn DEF TableOwn, CacheTypeOK
  <2> QED
    BY <2>1, <2>2 DEF TableOwn, RetriesBounded
<1>5. CASE Extract
  <2>1. PICK n \in 0..Count : table' = TableOf(asset, n) /\ LookUp(TableOf(asset, n))
    BY <1>5 DEF Extract
  <2>2. asset \in Assets /\ cached' = "yes" /\ retries' = 0
    BY <1>5 DEF Extract, CacheTypeOK
  <2>3. \A name \in Names : TableOf(asset, n)[name] # NoCode =>
          /\ TableOf(asset, n)[name] \in Code
          /\ TableOf(asset, n)[name][1] = asset
          /\ NameOf[TableOf(asset, n)[name]] = name
    BY <2>2, TableIsOwn
  <2>4. /\ asset' \in Assets /\ next' \in 1..Count + 1
        /\ answer' \in [1..Count -> Answers] /\ OwnBytecode' /\ asset' = asset
    BY <2>1, <2>3, LookUpIsOwn
  <2>5. table' \in [Names -> Answers]
    BY <2>1, <2>2, TableIsTable
  <2>6. TableOwn'
    BY <2>1, <2>3, <2>4 DEF TableOwn
  <2> QED
    BY <2>2, <2>4, <2>5, <2>6 DEF CacheTypeOK, RetriesBounded
<1>6. CASE Fail
  <2>1. PICK c \in Own : Answer(c)
    BY <1>6 DEF Fail
  <2>2. /\ retries' = retries + 1 /\ table' = table
        /\ cached' = IF retries + 1 >= MaxRetries THEN "yes" ELSE "no"
    BY <1>6 DEF Fail
  <2>3. CacheTypeOK' /\ OwnBytecode'
    BY <2>1, <2>2, OwnAnswer DEF CacheTypeOK
  <2>4. RetriesBounded'
    BY <2>2, CacheAssumption DEF RetriesBounded, CacheTypeOK
  <2> QED
    BY <2>1, <2>2, <2>3, <2>4 DEF TableOwn, Answer
<1>7. CASE UNCHANGED vars
  BY <1>7 DEF vars, CacheTypeOK, TableOwn, OwnBytecode, RetriesBounded
<1> QED
  BY <1>1, <1>2, <1>3, <1>4, <1>5, <1>6, <1>7 DEF Next

-----------------------------------------------------------------------------
(* The limits: folds over the sizes.                                        *)
LEMMA GuardsSum ==
  ASSUME NEW s
  PROVE  Guards!Sum(s) = SumOfSequence(s)
<1>1. Guards!Sum(s) = SumOver(s, DOMAIN s)
  BY Zenon DEF Guards!Sum, Guards!FoldSeq, Guards!FoldFunction, Guards!FoldFunctionOnSet,
               Guards!MapThenFoldSet, SumOver, MapThenSumSet, MapThenFoldSet
<1> QED
  BY <1>1, SequenceIsSum

LEMMA SumGrows ==
  ASSUME NEW s \in Seq(Nat), NEW n \in Nat
  PROVE  /\ Guards!Sum(s) \in Nat
         /\ Guards!Sum(Append(s, n)) = Guards!Sum(s) + n
         /\ Guards!Sum(<<>>) = 0
         /\ Append(s, n) \in Seq(Nat)
BY GuardsSum, SumOfAppended

LEMMA GuardsInit == Guards!Init => GuardsInv
<1> SUFFICES ASSUME Guards!Init PROVE GuardsInv
  OBVIOUS
<1>1. /\ entries = <<>> /\ bytes = 0 /\ total = 0 /\ checkpoints = <<>> /\ held = <<>>
  BY DEF Guards!Init
<1>2. Guards!Sum(<<>>) = 0
  <2>1. <<>> \in Seq(Nat) /\ 0 \in Nat
    OBVIOUS
  <2> QED
    BY <2>1, SumGrows
<1>3. MaxEntries \in Nat /\ MaxBytes \in Nat /\ MaxTotal \in Nat
  BY SessionsAssumption
<1>4. /\ <<>> \in Seq(Nat) /\ <<>> \in Seq(Totalled) /\ Len(<<>>) = 0 /\ DOMAIN <<>> = {}
  OBVIOUS
<1> QED
  BY <1>1, <1>2, <1>3, <1>4 DEF GuardsInv, Guards!BufferBounded, Granted

LEMMA GuardsStepHolds ==
  ASSUME GuardsInv, Guards!Next
  PROVE  GuardsInv'
<1>1. ASSUME NEW n \in Sizes, Guards!AppendEntry(n) PROVE GuardsInv'
  <2>1. UNCHANGED <<total, checkpoints, work, held>>
    BY <1>1 DEF Guards!AppendEntry, Guards!budget
  <2>2. CASE UNCHANGED <<entries, bytes>>
    BY <2>1, <2>2 DEF GuardsInv, Guards!BufferBounded, Granted
  <2>3. CASE ~(Len(entries) >= MaxEntries \/ bytes + n > MaxBytes)
    <3>1. entries' = Append(entries, n) /\ bytes' = bytes + n
      BY <1>1, <2>3 DEF Guards!AppendEntry
    <3>2. /\ n \in Nat /\ MaxEntries \in Nat /\ MaxBytes \in Nat
          /\ entries \in Seq(Nat) /\ bytes \in Nat /\ bytes = Guards!Sum(entries)
      BY SessionsAssumption DEF GuardsInv, Guards!BufferBounded
    <3>3. /\ Len(entries) \in Nat /\ Len(entries') = Len(entries) + 1
          /\ entries' \in Seq(Nat) /\ Guards!Sum(entries') = Guards!Sum(entries) + n
      BY <3>1, <3>2, SumGrows
    <3>4. Guards!BufferBounded' /\ entries' \in Seq(Nat) /\ bytes' \in Nat
      BY <2>3, <3>1, <3>2, <3>3 DEF Guards!BufferBounded
    <3> QED
      BY <2>1, <3>4 DEF GuardsInv, Granted
  <2> QED
    BY <1>1, <2>2, <2>3 DEF Guards!AppendEntry
<1>2. ASSUME NEW n \in Sizes, Guards!Reserve(n) PROVE GuardsInv'
  <2>1. /\ total' = total + n
        /\ held' = IF total' > MaxTotal THEN held ELSE Append(held, n)
        /\ UNCHANGED <<checkpoints, work, entries, bytes>>
    BY <1>2 DEF Guards!Reserve, Guards!buffer
  <2>2. /\ n \in Nat /\ MaxTotal \in Nat /\ total \in Nat /\ held \in Seq(Nat)
        /\ Guards!Sum(held) <= total /\ Guards!Sum(held) <= MaxTotal
    BY SessionsAssumption DEF GuardsInv, Granted
  <2>3. /\ Guards!Sum(held) \in Nat
        /\ Guards!Sum(Append(held, n)) = Guards!Sum(held) + n
        /\ Append(held, n) \in Seq(Nat)
    BY <2>2, SumGrows
  <2>4. total' \in Nat /\ held' \in Seq(Nat)
    BY <2>1, <2>2, <2>3
  <2>5. Guards!Sum(held') <= total' /\ Guards!Sum(held') <= MaxTotal
    <3>1. CASE total' > MaxTotal
      BY <2>1, <2>2, <2>3, <3>1
    <3>2. CASE ~(total' > MaxTotal)
      BY <2>1, <2>2, <2>3, <3>2
    <3> QED
      BY <3>1, <3>2
  <2> QED
    BY <2>1, <2>4, <2>5 DEF GuardsInv, Guards!BufferBounded, Granted
<1>3. ASSUME NEW n \in Sizes, Guards!ConsumeWork(n) PROVE GuardsInv'
  BY <1>3 DEF Guards!ConsumeWork, Guards!buffer, GuardsInv, Guards!BufferBounded, Granted
<1>4. CASE Guards!Clear
  <2>1. entries' = <<>> /\ bytes' = 0 /\ UNCHANGED <<total, checkpoints, held>>
    BY <1>4 DEF Guards!Clear, Guards!budget
  <2>2. Guards!Sum(<<>>) = 0 /\ <<>> \in Seq(Nat) /\ Len(<<>>) = 0
    <3>1. <<>> \in Seq(Nat) /\ 0 \in Nat /\ Len(<<>>) = 0
      OBVIOUS
    <3> QED
      BY <3>1, SumGrows
  <2> QED
    BY <2>1, <2>2, SessionsAssumption DEF GuardsInv, Guards!BufferBounded, Granted
<1>5. CASE Guards!Checkpoint
  <2>1. /\ checkpoints' = Append(checkpoints, [total |-> total, held |-> held])
        /\ UNCHANGED <<total, held, entries, bytes>>
    BY <1>5 DEF Guards!Checkpoint, Guards!buffer
  <2> DEFINE mark == [total |-> total, held |-> held]
  <2>2. mark \in Totalled /\ mark.total = total /\ mark.held = held
    BY DEF GuardsInv, Totalled
  <2>3. checkpoints \in Seq(Totalled)
    BY DEF GuardsInv
  <2> HIDE DEF mark
  <2>4. /\ Append(checkpoints, mark) \in Seq(Totalled)
        /\ DOMAIN Append(checkpoints, mark) = 1..(Len(checkpoints) + 1)
        /\ DOMAIN checkpoints = 1..Len(checkpoints)
        /\ Len(checkpoints) \in Nat
        /\ Append(checkpoints, mark)[Len(checkpoints) + 1] = mark
        /\ \A k \in 1..Len(checkpoints) : Append(checkpoints, mark)[k] = checkpoints[k]
    BY <2>2, <2>3
  <2>5. \A k \in 1..(Len(checkpoints) + 1) : k \in 1..Len(checkpoints) \/ k = Len(checkpoints) + 1
    BY <2>4
  <2>6. \A k \in DOMAIN checkpoints' : Granted(checkpoints'[k].total, checkpoints'[k].held)
    <3>1. \A k \in DOMAIN checkpoints : Granted(checkpoints[k].total, checkpoints[k].held)
      BY DEF GuardsInv
    <3>2. Granted(mark.total, mark.held)
      BY <2>2 DEF GuardsInv
    <3> QED
      BY <2>1, <2>4, <2>5, <3>1, <3>2 DEF mark
  <2> QED
    BY <2>1, <2>4, <2>6 DEF mark, GuardsInv, Guards!BufferBounded, Granted
<1>6. CASE Guards!Rollback
  <2>1. /\ checkpoints # <<>>
        /\ total' = checkpoints[Len(checkpoints)].total
        /\ held' = checkpoints[Len(checkpoints)].held
        /\ checkpoints' = SubSeq(checkpoints, 1, Len(checkpoints) - 1)
        /\ UNCHANGED <<entries, bytes>>
    BY <1>6 DEF Guards!Rollback, Guards!Last, Guards!Front, Guards!buffer
  <2>2. /\ checkpoints \in Seq(Totalled)
        /\ \A k \in DOMAIN checkpoints : Granted(checkpoints[k].total, checkpoints[k].held)
    BY DEF GuardsInv
  <2>3. /\ Len(checkpoints) \in DOMAIN checkpoints
        /\ checkpoints[Len(checkpoints)] \in Totalled
        /\ checkpoints' \in Seq(Totalled)
        /\ \A k \in DOMAIN checkpoints' : k \in DOMAIN checkpoints /\ checkpoints'[k] = checkpoints[k]
    BY <2>1, <2>2
  <2>4. total' \in Nat /\ held' \in Seq(Nat) /\ Granted(total', held')
    BY <2>1, <2>2, <2>3 DEF Totalled
  <2>5. \A k \in DOMAIN checkpoints' : Granted(checkpoints'[k].total, checkpoints'[k].held)
    BY <2>2, <2>3
  <2> QED
    BY <2>1, <2>3, <2>4, <2>5 DEF GuardsInv, Guards!BufferBounded, Granted
<1> QED
  BY <1>1, <1>2, <1>3, <1>4, <1>5, <1>6 DEF Guards!Next

-----------------------------------------------------------------------------
(* The cached handlers and the list of packages.                            *)
LEMMA RegistryInit == Registry!Init => RegistryInv
BY DEF Registry!Init, RegistryInv, Registry!CachedIsCurrent

LEMMA RegistryStepHolds ==
  ASSUME RegistryInv, Registry!Next
  PROVE  RegistryInv'
<1>1. CASE known' = [c \in Classes |-> NotCached]
  BY <1>1 DEF RegistryInv, Registry!CachedIsCurrent
<1>2. ASSUME NEW c \in Classes, Registry!FindHandler(c) PROVE RegistryInv'
  <2>1. known' = [known EXCEPT ![c] = Registry!FirstFor(c)] /\ handlers' = handlers
    BY <1>2 DEF Registry!FindHandler
  <2>2. \A d \in Classes : Registry!FirstFor(d)' = Registry!FirstFor(d)
    BY <2>1 DEF Registry!FirstFor
  <2>3. known' = [d \in Classes |-> IF d = c THEN Registry!FirstFor(c) ELSE known[d]]
    BY <2>1 DEF RegistryInv
  <2> QED
    BY <2>2, <2>3 DEF RegistryInv, Registry!CachedIsCurrent
<1> QED
  BY <1>1, <1>2 DEF Registry!Next, Registry!Register, Registry!ClearAll, Registry!ResetCache

LEMMA ListingInit == Listing!Init => ListInv
BY DEF Listing!Init, ListInv, Listing!NoList, Listing!RootIsCurrent, Listing!Differing

LEMMA ListingStepHolds ==
  ASSUME ListInv, Listing!Next
  PROVE  ListInv'
<1> USE DEF ListInv, Listing!RootIsCurrent, Listing!Differing, Listing!disk
<1>1. ASSUME NEW p \in Packages, Listing!ChangeRoot(p) PROVE ListInv'
  BY <1>1 DEF Listing!ChangeRoot
<1>2. ASSUME NEW p \in Packages, Listing!ChangeBelow(p) PROVE ListInv'
  BY <1>2 DEF Listing!ChangeBelow
<1>3. CASE Listing!ListFiles
  BY <1>3 DEF Listing!ListFiles
<1>4. CASE Listing!ScanRoot
  BY <1>4 DEF Listing!ScanRoot
<1>5. CASE Listing!ScanBelow
  BY <1>5 DEF Listing!ScanBelow
<1>6. CASE Listing!Store
  BY <1>6 DEF Listing!Store
<1>7. CASE Listing!RefreshFileCache
  BY <1>7 DEF Listing!RefreshFileCache, Listing!NoList
<1> QED
  BY <1>1, <1>2, <1>3, <1>4, <1>5, <1>6, <1>7 DEF Listing!Next

-----------------------------------------------------------------------------
(* Deleting logs: times and bytes of families of a finite directory.        *)
LEMMA BytesIsSum ==
  ASSUME NEW some
  PROVE  Cleanup!Bytes(some) = SumOver(Size, some)
BY Zenon DEF Cleanup!Bytes, Cleanup!MapThenSumSet, Cleanup!MapThenFoldSet,
             SumOver, MapThenSumSet, MapThenFoldSet

LEMMA BytesOfParts ==
  ASSUME NEW some \in SUBSET Files, NEW part \in SUBSET some
  PROVE  /\ Cleanup!Bytes(some) \in Nat /\ Cleanup!Bytes(part) \in Nat
         /\ Cleanup!Bytes(some \ part) = Cleanup!Bytes(some) - Cleanup!Bytes(part)
         /\ Cleanup!Bytes(part) <= Cleanup!Bytes(some)
<1>1. IsFiniteSet(some) /\ \A f \in some : Size[f] \in Nat /\ Size[f] \in Int
  BY SessionsAssumption, FS_Subset
<1>2. SumOver(Size, part) \in Nat /\ SumOver(Size, part) <= SumOver(Size, some)
  BY <1>1, SumIsMonotone
<1>3. SumOver(Size, some) \in Nat
  BY <1>1, SumIsNat
<1>4. SumOver(Size, some) = SumOver(Size, part) + SumOver(Size, some \ part)
  BY <1>1, SumOfParts
<1>5. SumOver(Size, some \ part) \in Nat
  <2>1. some \ part \in SUBSET some
    OBVIOUS
  <2> QED
    BY <1>1, <2>1, SumIsMonotone
<1> QED
  BY <1>2, <1>3, <1>4, <1>5, BytesIsSum

LEMMA FamiliesHaveTimes ==
  ASSUME files \subseteq Files
  PROVE  /\ IsFiniteSet(Cleanup!Families)
         /\ \A g \in Cleanup!Families : Cleanup!TimeOf(g) \in Int
<1>1. IsFiniteSet(files)
  BY SessionsAssumption, FS_Subset
<1>2. IsFiniteSet(Cleanup!Families)
  BY <1>1, ImageIsFinite DEF Cleanup!Families
<1>3. ASSUME NEW g \in Cleanup!Families PROVE Cleanup!TimeOf(g) \in Int
  <2> DEFINE its == Cleanup!Of({g})
             times == {Mtime[f] : f \in its}
  <2>1. its \subseteq files /\ its # {}
    BY DEF Cleanup!Families, Cleanup!Of
  <2>2. IsFiniteSet(its)
    BY <1>1, <2>1, FS_Subset
  <2>3. \A f \in its : Mtime[f] \in Int
    BY <2>1, SessionsAssumption
  <2> HIDE DEF its
  <2>4. IsFiniteSet(times) /\ times \subseteq Int /\ times # {}
    BY <2>1, <2>2, <2>3, ImageIsFinite
  <2> HIDE DEF times
  <2>5. Max(times) \in Int
    BY <2>4, MaxIsGreatest
  <2> QED
    BY <2>5 DEF Cleanup!TimeOf, Cleanup!Max, Max, its, times
<1> QED
  BY <1>2, <1>3

\* Some family is the newest, and none of its files is older than another's.
LEMMA NewestIsNewest ==
  ASSUME files \subseteq Files, files # {}
  PROVE  /\ Cleanup!Newest \in Cleanup!Families
         /\ \A h \in Cleanup!Families : Cleanup!TimeOf(h) <= Cleanup!TimeOf(Cleanup!Newest)
<1> DEFINE time == [g \in Cleanup!Families |-> Cleanup!TimeOf(g)]
<1>1. IsFiniteSet(Cleanup!Families) /\ Cleanup!Families # {}
  BY FamiliesHaveTimes DEF Cleanup!Families
<1>2. \A g \in Cleanup!Families : time[g] \in Int
  BY FamiliesHaveTimes
<1> HIDE DEF time
<1>3. PICK g \in Cleanup!Families : \A h \in Cleanup!Families : time[h] <= time[g]
  BY <1>1, <1>2, HasGreatestKey
<1>4. \A h \in Cleanup!Families : Cleanup!TimeOf(h) <= Cleanup!TimeOf(g)
  BY <1>3 DEF time
<1> QED
  BY <1>4 DEF Cleanup!Newest

\* Of some families one is the oldest.
LEMMA HasOldest ==
  ASSUME files \subseteq Files, NEW S \in SUBSET Cleanup!Families, S # {}
  PROVE  \E g \in S : \A h \in S : Cleanup!TimeOf(g) <= Cleanup!TimeOf(h)
<1> DEFINE age == [g \in Cleanup!Families |-> 0 - Cleanup!TimeOf(g)]
<1>1. IsFiniteSet(S) /\ \A g \in Cleanup!Families : Cleanup!TimeOf(g) \in Int
  BY FamiliesHaveTimes, FS_Subset
<1>2. \A g \in S : age[g] \in Int
  BY <1>1
<1> HIDE DEF age
<1>3. PICK g \in S : \A h \in S : age[h] <= age[g]
  BY <1>1, <1>2, HasGreatestKey
<1>4. ASSUME NEW h \in S PROVE Cleanup!TimeOf(g) <= Cleanup!TimeOf(h)
  <2>1. 0 - Cleanup!TimeOf(h) <= 0 - Cleanup!TimeOf(g)
    BY <1>3 DEF age
  <2>2. Cleanup!TimeOf(h) \in Int /\ Cleanup!TimeOf(g) \in Int
    BY <1>1
  <2> QED
    BY <2>1, <2>2
<1> QED
  BY <1>4

\* The oldest of what the total leaves decides: everything older was chosen,
\* and without that the rest is within the limit.
LEMMA TotalIsEnough ==
  ASSUME files \subseteq Files, files # {}, NEW max \in Int, NEW others, NEW chosen,
         others = Cleanup!Families \ (selected \cup {Active, Cleanup!Newest}),
         chosen = selected \cup
           {g \in others :
              Cleanup!Bytes(files) - Cleanup!Bytes(Cleanup!Of(selected))
              - Cleanup!Bytes(Cleanup!Of({h \in others : Cleanup!TimeOf(h) < Cleanup!TimeOf(g)}))
                > max}
  PROVE  \/ Cleanup!Bytes(files \ Cleanup!Of(chosen)) <= max
         \/ {FamilyOf[f] : f \in files \ Cleanup!Of(chosen)} \subseteq {Active, Cleanup!Newest}
<1> DEFINE stay == others \ chosen
           left == files \ Cleanup!Of(chosen)
<1>1. \A families : Cleanup!Of(families) \subseteq files
  BY DEF Cleanup!Of
<1>2. CASE stay = {}
  <2>1. ASSUME NEW f \in left PROVE FamilyOf[f] \in {Active, Cleanup!Newest}
    <3>1. f \in files /\ FamilyOf[f] \notin chosen /\ FamilyOf[f] \in Cleanup!Families
      BY DEF Cleanup!Of, Cleanup!Families
    <3> QED
      BY <3>1, <1>2
  <2> QED
    BY <2>1
<1>3. CASE stay # {}
  <2>1. PICK g \in stay : \A h \in stay : Cleanup!TimeOf(g) <= Cleanup!TimeOf(h)
    <3>1. stay \in SUBSET Cleanup!Families
      OBVIOUS
    <3> HIDE DEF stay
    <3> QED
      BY <3>1, <1>3, HasOldest
  <2> DEFINE older == {h \in others : Cleanup!TimeOf(h) < Cleanup!TimeOf(g)}
             kept == files \ Cleanup!Of(selected)
  <2>2. older \subseteq chosen /\ older \cap selected = {}
    <3>1. \A h \in stay : Cleanup!TimeOf(g) \in Int /\ Cleanup!TimeOf(h) \in Int
      BY FamiliesHaveTimes
    <3>2. \A h \in stay : ~(Cleanup!TimeOf(h) < Cleanup!TimeOf(g))
      BY <2>1, <3>1
    <3> QED
      BY <3>2
  <2>3. ~(Cleanup!Bytes(files) - Cleanup!Bytes(Cleanup!Of(selected)) - Cleanup!Bytes(Cleanup!Of(older)) > max)
    OBVIOUS
  <2>4. /\ Cleanup!Of(older) \in SUBSET kept
        /\ left \in SUBSET (kept \ Cleanup!Of(older))
    BY <2>2 DEF Cleanup!Of
  <2>5. kept \in SUBSET Files /\ kept \ Cleanup!Of(older) \in SUBSET Files
        /\ Cleanup!Of(selected) \in SUBSET files /\ files \in SUBSET Files
    BY <1>1
  <2> HIDE DEF older, left
  <2>6. /\ Cleanup!Bytes(kept) = Cleanup!Bytes(files) - Cleanup!Bytes(Cleanup!Of(selected))
        /\ Cleanup!Bytes(files) \in Nat /\ Cleanup!Bytes(Cleanup!Of(selected)) \in Nat
    BY <2>5, BytesOfParts
  <2> HIDE DEF kept
  <2>7. /\ Cleanup!Bytes(kept \ Cleanup!Of(older)) = Cleanup!Bytes(kept) - Cleanup!Bytes(Cleanup!Of(older))
        /\ Cleanup!Bytes(Cleanup!Of(older)) \in Nat
    BY <2>4, <2>5, BytesOfParts
  <2>8. Cleanup!Bytes(left) <= Cleanup!Bytes(kept \ Cleanup!Of(older)) /\ Cleanup!Bytes(left) \in Nat
    BY <2>4, <2>5, BytesOfParts
  <2>9. Cleanup!Bytes(left) <= max
    BY <2>3, <2>6, <2>7, <2>8
  <2> QED
    BY <2>9 DEF left
<1> QED
  BY <1>2, <1>3

\* What is said of the files found stays with them and with the choice.
LEMMA FilesDecide ==
  ASSUME files' = files
  PROVE  /\ \A families : Cleanup!Of(families)' = Cleanup!Of(families)
         /\ Cleanup!Newest' = Cleanup!Newest
<1>1. Cleanup!Families' = Cleanup!Families
  BY DEF Cleanup!Families
<1>2. \A families : Cleanup!Of(families)' = Cleanup!Of(families)
  BY DEF Cleanup!Of
<1>3. \A g : Cleanup!TimeOf(g)' = Cleanup!TimeOf(g)
  BY Zenon DEF Cleanup!TimeOf, Cleanup!Of
<1>4. Cleanup!Newest' = Cleanup!Newest
  BY Zenon DEF Cleanup!Newest, Cleanup!Families, Cleanup!TimeOf, Cleanup!Of
<1> QED
  BY <1>2, <1>4

LEMMA ChoiceDecides ==
  ASSUME files' = files, selected' = selected, limit' = limit
  PROVE  LeftIsEnough' = LeftIsEnough
<1>1. Left' = Left
  BY Zenon DEF Left, Cleanup!Of
<1>2. SumOver(Size, Left)' = SumOver(Size, Left)
  BY <1>1, Zenon
<1>3. Cleanup!Newest' = Cleanup!Newest
  BY FilesDecide
<1> QED
  BY <1>1, <1>2, <1>3, Zenon DEF LeftIsEnough

LEMMA CleanupInit == Cleanup!Init => CleanupInv
BY SessionsAssumption DEF Cleanup!Init, CleanupInv, Cleanup!OldestGoFirst

LEMMA CleanupStepHolds ==
  ASSUME CleanupInv, Cleanup!Next
  PROVE  CleanupInv'
<1>1. CASE Cleanup!Glob
  <2>1. /\ pc = "glob" /\ pc' = "rank" /\ files' = dir
        /\ UNCHANGED <<dir, keep, cutoff, limit, selected, planned, removed>>
    BY <1>1 DEF Cleanup!Glob, Cleanup!options
  <2> QED
    BY <2>1 DEF CleanupInv, Cleanup!OldestGoFirst
\* The steps that choose families: files and options stay, nothing is planned.
<1>2. ASSUME pc \in {"rank", "age", "total"}, pc' \in {"age", "total", "sort", "raised"},
             UNCHANGED <<dir, keep, cutoff, limit, files, planned, removed>>,
             Active \notin selected', cutoff = Off /\ files # {} => Cleanup!Newest \notin selected',
             pc' = "sort" /\ limit # Off /\ files # {} => LeftIsEnough'
      PROVE  CleanupInv'
  <2>1. Cleanup!Newest' = Cleanup!Newest
    BY <1>2, FilesDecide
  <2> QED
    BY <1>2, <2>1 DEF CleanupInv, Cleanup!OldestGoFirst
<1>3. CASE Cleanup!Rank
  <2>1. /\ pc = "rank" /\ pc' \in {"age", "raised"} /\ selected = {}
        /\ UNCHANGED <<dir, keep, cutoff, limit, files, planned, removed>>
        /\ Active \notin selected'
    BY <1>3 DEF Cleanup!Rank, Cleanup!Stat, Cleanup!options, CleanupInv
  <2>2. ASSUME files # {} PROVE Cleanup!Newest \notin selected'
    <3> DEFINE newer == {h \in Cleanup!Families : Cleanup!TimeOf(h) > Cleanup!TimeOf(Cleanup!Newest)}
               least == Cleanup!Max({1, keep})
    <3>1. newer = {}
      <4>1. files \subseteq Files
        BY DEF CleanupInv
      <4>2. /\ Cleanup!Newest \in Cleanup!Families
            /\ \A h \in Cleanup!Families : Cleanup!TimeOf(h) <= Cleanup!TimeOf(Cleanup!Newest)
            /\ \A h \in Cleanup!Families : Cleanup!TimeOf(h) \in Int
        BY <2>2, <4>1, NewestIsNewest, FamiliesHaveTimes
      <4> QED
        BY <4>2
    <3>2. Cleanup!Cardinality(newer) = 0
      <4>1. Cleanup!Cardinality({}) = Cardinality({})
        BY Zenon DEF Cleanup!Cardinality, Cardinality
      <4> QED
        BY <3>1, <4>1, FS_EmptySet
    <3>3. least \in Int /\ least >= 1
      <4>1. IsFiniteSet({1, keep}) /\ {1, keep} \subseteq Int /\ {1, keep} # {}
        <5>1. keep \in Int
          BY DEF CleanupInv
        <5>2. IsFiniteSet({1, keep})
          <6>1. IsFiniteSet({1})
            BY FS_Singleton
          <6>2. IsFiniteSet({1} \cup {keep})
            BY <6>1, FS_AddElement
          <6>3. {1} \cup {keep} = {1, keep}
            OBVIOUS
          <6> QED
            BY <6>2, <6>3, Zenon
        <5> QED
          BY <5>1, <5>2
      <4>2. Max({1, keep}) \in {1, keep} /\ \A x \in {1, keep} : x <= Max({1, keep})
        BY <4>1, MaxIsGreatest
      <4>3. Max({1, keep}) \in Int /\ 1 <= Max({1, keep})
        BY <4>1, <4>2
      <4> QED
        BY <4>3 DEF Cleanup!Max, Max
    <3>4. ~(Cleanup!Cardinality(newer) >= least)
      BY <3>2, <3>3
    <3> QED
      BY <1>3, <3>4 DEF Cleanup!Rank
  <2> QED
    BY <1>2, <2>1, <2>2
<1>4. CASE Cleanup!Age
  <2>1. /\ pc = "age" /\ pc' \in {"total", "raised"}
        /\ UNCHANGED <<dir, keep, cutoff, limit, files, planned, removed>>
    BY <1>4 DEF Cleanup!Age, Cleanup!Stat, Cleanup!options
  <2>2. Active \notin selected' /\ (cutoff = Off => selected' = selected)
    BY <1>4 DEF Cleanup!Age, CleanupInv
  <2> QED
    BY <1>2, <2>1, <2>2 DEF CleanupInv
<1>5. CASE Cleanup!Total
  <2>1. /\ pc = "total" /\ pc' \in {"sort", "raised"}
        /\ UNCHANGED <<dir, keep, cutoff, limit, files, planned, removed>>
    BY <1>5 DEF Cleanup!Total, Cleanup!Stat, Cleanup!options
  <2>2. CASE limit = Off \/ files = {}
    <3>1. selected' = selected
      BY <1>5, <2>2 DEF Cleanup!Total
    <3> QED
      BY <1>2, <2>1, <2>2, <3>1 DEF CleanupInv
  <2>3. CASE ~(limit = Off \/ files = {})
    <3> DEFINE others == Cleanup!Families \ (selected \cup {Active, Cleanup!Newest})
    <3>1. selected' = selected \cup
            {g \in others :
               Cleanup!Bytes(files) - Cleanup!Bytes(Cleanup!Of(selected))
               - Cleanup!Bytes(Cleanup!Of({h \in others : Cleanup!TimeOf(h) < Cleanup!TimeOf(g)}))
                 > limit}
      BY <1>5, <2>3 DEF Cleanup!Total
    <3>2. files \subseteq Files /\ limit \in Int
      BY DEF CleanupInv
    <3>3. \/ Cleanup!Bytes(files \ Cleanup!Of(selected')) <= limit
          \/ {FamilyOf[f] : f \in files \ Cleanup!Of(selected')} \subseteq {Active, Cleanup!Newest}
      BY <2>3, <3>1, <3>2, TotalIsEnough
    <3>4. Cleanup!Newest' = Cleanup!Newest
      BY <2>1, FilesDecide
    <3>5. LeftIsEnough'
      <4>1. Left' = files \ Cleanup!Of(selected')
        BY <2>1, Zenon DEF Left, Cleanup!Of
      <4>2. SumOver(Size, Left)' = Cleanup!Bytes(files \ Cleanup!Of(selected'))
        BY <4>1, BytesIsSum, Zenon
      <4>3. limit' = limit
        BY <2>1
      <4> QED
        BY <3>3, <3>4, <4>1, <4>2, <4>3, Zenon DEF LeftIsEnough
    <3>6. Active \notin selected' /\ (Cleanup!Newest \notin selected => Cleanup!Newest \notin selected')
      BY <3>1 DEF CleanupInv
    <3> QED
      BY <1>2, <2>1, <3>5, <3>6 DEF CleanupInv
  <2> QED
    BY <2>2, <2>3
<1>6. CASE Cleanup!Sort
  <2>1. /\ pc = "sort" /\ pc' \in {"unlink", "raised"} /\ planned' = Cleanup!Of(selected)
        /\ UNCHANGED <<dir, keep, cutoff, limit, files, selected, removed>>
    BY <1>6 DEF Cleanup!Sort, Cleanup!Stat, Cleanup!options
  <2>2. /\ \A f \in planned' : FamilyOf[f] \in selected
        /\ planned' \subseteq Files /\ removed = {}
    BY <2>1 DEF Cleanup!Of, CleanupInv
  <2>3. Cleanup!Newest' = Cleanup!Newest /\ LeftIsEnough' = LeftIsEnough
    BY <2>1, FilesDecide, ChoiceDecides
  <2> QED
    BY <2>1, <2>2, <2>3 DEF CleanupInv, Cleanup!OldestGoFirst
<1>7. CASE Cleanup!Unlink \/ Cleanup!UnlinkRefused \/ Cleanup!Other
  <2>1. /\ UNCHANGED <<keep, cutoff, limit, files, selected>>
        /\ pc' = pc \/ (pc = "unlink" /\ pc' \in {"done", "refused"})
    BY <1>7 DEF Cleanup!Unlink, Cleanup!UnlinkRefused, Cleanup!Other, Cleanup!options
  <2>2. /\ dir' \subseteq Files /\ planned' \subseteq planned
        /\ removed' \subseteq removed \cup planned
        /\ pc # "unlink" => UNCHANGED <<planned, removed>>
        /\ Cleanup!OldestGoFirst'
    <3>1. CASE Cleanup!Other \/ Cleanup!UnlinkRefused
      BY <3>1 DEF Cleanup!Other, Cleanup!UnlinkRefused, Cleanup!OldestGoFirst, CleanupInv
    <3>2. CASE Cleanup!Unlink
      <4>1. pc = "unlink" /\ dir \subseteq Files
        BY <3>2 DEF Cleanup!Unlink, CleanupInv
      <4>2. CASE planned = {}
        BY <3>2, <4>1, <4>2 DEF Cleanup!Unlink, Cleanup!OldestGoFirst, CleanupInv
      <4>3. CASE planned # {}
        <5>1. PICK f \in planned : /\ \A g \in planned : Mtime[f] <= Mtime[g]
                                   /\ planned' = planned \ {f}
                                   /\ removed' = removed \cup ({f} \cap dir)
                                   /\ dir' = dir \ {f}
          BY <3>2, <4>3 DEF Cleanup!Unlink
        <5>2. Cleanup!OldestGoFirst'
          BY <5>1 DEF Cleanup!OldestGoFirst, CleanupInv
        <5> QED
          BY <4>1, <5>1, <5>2
      <4> QED
        BY <4>2, <4>3
    <3> QED
      BY <1>7, <3>1, <3>2
  <2>3. Cleanup!Newest' = Cleanup!Newest /\ LeftIsEnough' = LeftIsEnough
    BY <2>1, FilesDecide, ChoiceDecides
  <2> QED
    BY <2>1, <2>2, <2>3 DEF CleanupInv
<1> QED
  BY <1>1, <1>3, <1>4, <1>5, <1>6, <1>7 DEF Cleanup!Next

-----------------------------------------------------------------------------
(* The parts together.                                                      *)
LEMMA PartsInit == SessionsInit => SessionsInv
BY BytecodeInit, GuardsInit, RegistryInit, ListingInit, CleanupInit DEF SessionsInit, SessionsInv

LEMMA GuardsRest == GuardsInv /\ UNCHANGED guardVars => GuardsInv'
BY DEF guardVars, GuardsInv, Guards!BufferBounded, Granted

LEMMA RegistryRests == RegistryInv /\ UNCHANGED registryVars => RegistryInv'
BY DEF registryVars, RegistryInv, Registry!CachedIsCurrent, Registry!FirstFor

LEMMA ListingRests == ListInv /\ UNCHANGED listVars => ListInv'
BY DEF listVars, ListInv, Listing!RootIsCurrent, Listing!Differing

LEMMA CleanupRests == CleanupInv /\ UNCHANGED cleanupVars => CleanupInv'
BY FilesDecide, ChoiceDecides DEF cleanupVars, CleanupInv, Cleanup!OldestGoFirst

LEMMA PartsStep == SessionsInv /\ [SessionsNext]_allVars => SessionsInv'
<1> SUFFICES ASSUME SessionsInv, [SessionsNext]_allVars PROVE SessionsInv'
  OBVIOUS
<1>1. CacheInv /\ GuardsInv /\ RegistryInv /\ ListInv /\ CleanupInv
  BY DEF SessionsInv
<1>2. GuardsInv'
  BY <1>1, GuardsStepHolds, GuardsRest
     DEF SessionsNext, BytecodeStep, GuardsStep, RegistryStep, ListingStep, CleanupStep, allVars
<1>3. RegistryInv'
  BY <1>1, RegistryStepHolds, RegistryRests
     DEF SessionsNext, BytecodeStep, GuardsStep, RegistryStep, ListingStep, CleanupStep, allVars
<1>4. ListInv'
  BY <1>1, ListingStepHolds, ListingRests
     DEF SessionsNext, BytecodeStep, GuardsStep, RegistryStep, ListingStep, CleanupStep, allVars
<1>5. CleanupInv'
  BY <1>1, CleanupStepHolds, CleanupRests
     DEF SessionsNext, BytecodeStep, GuardsStep, RegistryStep, ListingStep, CleanupStep, allVars
<1>6. [Next]_vars
  BY DEF SessionsNext, BytecodeStep, GuardsStep, RegistryStep, ListingStep, CleanupStep, allVars
<1>7. CacheInv'
  BY <1>1, <1>6, BytecodeStepHolds
<1> QED
  BY <1>2, <1>3, <1>4, <1>5, <1>7 DEF SessionsInv

LEMMA SessionsInvariant == SessionsSpec => []SessionsInv
<1> QED
  BY PartsInit, PartsStep, PTL DEF SessionsSpec

\* The event buffer stays within its entries and bytes and counts what it
\* holds; what the budget granted and did not take back stays within the total,
\* through any refusals, checkpoints and rollbacks (ResourceBudget).
THEOREM LimitsAlwaysHold == SessionsSpec => []LimitsHold
<1>1. SessionsInv => LimitsHold
  BY DEF SessionsInv, GuardsInv, LimitsHold, Granted, Guards!GrantedWithinLimit
<1> QED
  BY <1>1, SessionsInvariant, PTL

\* The handler cached for a class is the first registered that can take it, and
\* a list of packages that would be given again shows the root as it is, but for
\* packages that came or went in the last tick of the file system's clock, which
\* its time cannot tell (find_handler, list_files).
THEOREM CachesStayCurrent == SessionsSpec => []CachesAreCurrent
<1>1. SessionsInv => CachesAreCurrent
  BY DEF SessionsInv, RegistryInv, ListInv, CachesAreCurrent
<1> QED
  BY <1>1, SessionsInvariant, PTL

\* Whatever the options, the sizes and the times, and whatever another process
\* deletes: a cleanup that misses a file has deleted nothing, one that cannot delete
\* a file has deleted older ones only, the active log stays, the newest goes by its
\* age only, and what is left at the end is within the bytes given or of those two
\* families (cleanup_project_logs).
THEOREM CleanupStaysSafe == SessionsSpec => []CleanupIsSafe
<1>1. SessionsInv => CleanupIsSafe
  <2> SUFFICES ASSUME CleanupInv PROVE CleanupIsSafe
    BY DEF SessionsInv
  <2>1. Cleanup!RaisesBeforeDeleting
    BY DEF CleanupInv, Cleanup!RaisesBeforeDeleting
  <2>2. \A f \in removed : FamilyOf[f] \in selected
    BY DEF CleanupInv
  <2>3. Cleanup!OldestGoFirst
    BY DEF CleanupInv
  <2>4. Cleanup!KeepsWhatItMust
    BY <2>2, BytesIsSum DEF CleanupInv, LeftIsEnough, Left, Cleanup!KeepsWhatItMust
  <2> QED
    BY <2>1, <2>3, <2>4 DEF CleanupIsSafe
<1> QED
  BY <1>1, SessionsInvariant, PTL

\* Tables and answers are of the functions of some asset, whatever the number
\* of assets and of functions.
THEOREM CacheIsTyped == SessionsSpec => []CacheTypeOK
<1>1. SessionsInv => CacheTypeOK
  BY DEF SessionsInv, CacheInv
<1> QED
  BY <1>1, SessionsInvariant, PTL

\* A function never gets another asset's bytecode, nor that of a function with
\* another name, in any sequence of parses (extract_bytecode_bytes).
THEOREM BytecodeIsOwn == SessionsSpec => []OwnBytecode
<1>1. SessionsInv => OwnBytecode
  BY DEF SessionsInv, CacheInv
<1> QED
  BY <1>1, SessionsInvariant, PTL

\* While there is no table the class can still be tried: failures short of the
\* limit never leave the functions that follow without one (_bpgc_fallback).
THEOREM RetriesAreBounded == SessionsSpec => []RetriesBounded
<1>1. SessionsInv => RetriesBounded
  BY DEF SessionsInv, CacheInv
<1> QED
  BY <1>1, SessionsInvariant, PTL
=============================================================================
