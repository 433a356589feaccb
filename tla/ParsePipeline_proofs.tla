------------------------ MODULE ParsePipeline_proofs ------------------------
(***************************************************************************)
(* The parse pipeline for any number of exports, of any strategy, extent   *)
(* and order of failures.  The inductive invariant PipelineInv says, stage *)
(* by stage, what is open, what the linker holds, which exception may be   *)
(* under way, and which exports have been accounted for.                   *)
(***************************************************************************)
EXTENDS ParsePipeline, TLAPS

Before == {"configure", "start", "open"}
AtWork == {"core", "secondary", "link", "light", "exports", "postload", "post"}
Over == {"complete", "entry", "preload"} \cup Ends

\* The archive is open exactly while a stage may read it.
Opened ==
  /\ pc \in Before => archive = "none"
  /\ pc \in AtWork => archive = "open"
  /\ pc \in Over => archive # "open"

\* Only a linker caches, and during the exports only what was parsed.
Linked ==
  /\ linker # "linked" => cached = {}
  /\ linker = "linked" => archive # "none"
  /\ pc \in Before \cup AtWork => \A e \in cached : e < next
  /\ pc \in Before \cup {"core", "secondary", "link", "light"} => next = 1
  /\ pc = "preload" => linker = "linked" /\ entry = "preload_all"
  /\ pc = "returned" /\ entry = "package" => linker # "linked"

\* Which exception is under way, and what strict mode has noted without one.
Thrown ==
  /\ pc \in Before \cup AtWork \cup {"complete", "entry", "preload", "returned"} => exc = "none"
  /\ pc \in {"handler", "raised"} => exc # "none"
  /\ Tolerant /\ pc = "close" => exc \in {"none", "memory_limit"}

Noted ==
  ~Tolerant => /\ exc = "none" => errors \subseteq {"argument", "imports", "post"}
               /\ \A e \in Exports : verdict[e] # "failed"

\* An export with data in the file was read, or its status says why not.
Blemished == {"failed", "partial", "opaque", "skipped"}
Told(e) == extent[e] = "inside" => e \in loaded \/ verdict[e] \in Blemished

Accounted ==
  /\ pc \in AtWork \ {"core"} => tables = 4
  /\ pc = "exports" => \A e \in Exports : e < next => Told(e)
  /\ pc \in {"postload", "post"} => \A e \in Exports : Told(e)
  /\ success = "yes" =>
       /\ pc \in Over \cup {"close"} /\ errors = {} /\ tables = 4
       /\ (heavy = "yes" /\ Tolerant) \/ \A e \in Exports : Told(e)

PipelineInv == TypeOK /\ Opened /\ Linked /\ Thrown /\ Noted /\ Accounted

-----------------------------------------------------------------------------
LEMMA AtFirst == Init => PipelineInv
BY PipelineAssumption
   DEF Init, PipelineInv, TypeOK, Opened, Linked, Thrown, Noted, Accounted, Told, Exports,
       Stages, Ends, Verdicts, ErrorKinds, Before, AtWork, Over, Tolerant, Blemished

\* The stages that leave the exports alone.
LEMMA StagesKeep ==
  ASSUME PipelineInv, UNCHANGED objects,
         \/ Configure \/ Start \/ Open \/ ReadCoreTable \/ CoreCheckpoint \/ ReadSecondaryTables
         \/ ApplyLightweight \/ SkipEmptyExport \/ ExportCheckpoint \/ EndExports
         \/ PostLoad \/ PostProcess \/ HandleError \/ Close \/ Complete
         \/ BeginPreload \/ KeepLinker \/ EndPreload \/ UNCHANGED vars
  PROVE  PipelineInv'
<1> USE PipelineAssumption DEF PipelineInv
<1>0. CASE Configure
  BY <1>0 DEF Configure, Goto, Escapes, Record, TypeOK, Opened, Linked, Thrown, Noted, Accounted, Told, Exports, Stages, Ends, Before,
     AtWork, Over, Tolerant, ErrorKinds, input, objects, report
<1>1. CASE Start
  BY <1>1 DEF Start, Goto, Escapes, TypeOK, Opened, Linked, Thrown, Noted, Accounted, Told, Exports, Stages, Ends, Before,
     AtWork, Over, Tolerant, ErrorKinds, input, objects, report
<1>2. CASE Open
  BY <1>2 DEF Open, Goto, Raise, Unexpected, TypeOK, Opened, Linked, Thrown, Noted, Accounted, Told, Exports, Stages, Ends, Before,
     AtWork, Over, Tolerant, ErrorKinds, input, objects, report
<1>3. CASE ReadCoreTable
  <2>1. CASE tables < 4 /\ tables' = tables + 1 /\ Goto("core") /\ UNCHANGED report
    BY <1>3, <2>1 DEF ReadCoreTable, Goto, TypeOK, Opened, Linked, Thrown, Noted, Accounted, Told, Exports, Stages, Ends, Before,
     AtWork, Over, Tolerant, ErrorKinds, input, objects, report
  <2>2. CASE tables = 4 /\ Goto("secondary") /\ UNCHANGED <<tables, report>>
    BY <1>3, <2>2 DEF ReadCoreTable, Goto, TypeOK, Opened, Linked, Thrown, Noted, Accounted, Told, Exports, Stages, Ends, Before,
     AtWork, Over, Tolerant, ErrorKinds, input, objects, report
  <2>3. CASE /\ tables < 4 /\ UNCHANGED tables
             /\ Tolerant /\ Goto("close") /\ Record("stage") /\ success' = "no"
    BY <1>3, <2>3 DEF ReadCoreTable, Goto, Record, TypeOK, Opened, Linked, Thrown, Noted, Accounted, Told, Exports, Stages, Ends, Before,
     AtWork, Over, Tolerant, ErrorKinds, input, objects, report
  <2>4. ASSUME tables < 4, UNCHANGED tables, ~Tolerant, NEW x \in Unexpected, Raise(x), UNCHANGED report
        PROVE  PipelineInv'
    BY <1>3, <2>4 DEF ReadCoreTable, Raise, Unexpected, TypeOK, Opened, Linked, Thrown, Noted, Accounted, Told, Exports, Stages, Ends, Before,
     AtWork, Over, Tolerant, ErrorKinds, input, objects, report
  <2> QED
    BY <1>3, <2>1, <2>2, <2>3, <2>4 DEF ReadCoreTable
<1>4. CASE CoreCheckpoint
  BY <1>4 DEF CoreCheckpoint, Exceeds, Raise, TypeOK, Opened, Linked, Thrown, Noted, Accounted, Told, Exports, Stages, Ends, Before,
     AtWork, Over, Tolerant, ErrorKinds, input, objects, report
<1>5. CASE ReadSecondaryTables
  BY <1>5 DEF ReadSecondaryTables, Goto, Raise, Unexpected, TypeOK, Opened, Linked, Thrown, Noted, Accounted, Told, Exports, Stages, Ends, Before,
     AtWork, Over, Tolerant, ErrorKinds, input, objects, report
<1>6. CASE ApplyLightweight
  BY <1>6 DEF ApplyLightweight, Goto, NoErrors, TypeOK, Opened, Linked, Thrown, Noted, Accounted, Told, Exports, Stages, Ends, Before,
     AtWork, Over, Tolerant, ErrorKinds, input, objects, report
<1>7. CASE SkipEmptyExport
  BY <1>7 DEF SkipEmptyExport, GoOn, Goto, Data, TypeOK, Opened, Linked, Thrown, Noted, Accounted, Told, Exports, Stages, Ends, Before,
     AtWork, Over, Tolerant, ErrorKinds, input, objects, report
<1>8. CASE ExportCheckpoint
  BY <1>8 DEF ExportCheckpoint, Exceeds, Raise, TypeOK, Opened, Linked, Thrown, Noted, Accounted, Told, Exports, Stages, Ends, Before,
     AtWork, Over, Tolerant, ErrorKinds, input, objects, report
<1>9. CASE EndExports
  BY <1>9 DEF EndExports, Goto, Raise, TypeOK, Opened, Linked, Thrown, Noted, Accounted, Told, Exports, Stages, Ends, Before,
     AtWork, Over, Tolerant, ErrorKinds, input, objects, report
<1>10. CASE PostLoad
  <2>1. CASE Goto("post") /\ (UNCHANGED errors \/ Record("imports"))
    BY <1>10, <2>1 DEF PostLoad, Goto, Record, TypeOK, Opened, Linked, Thrown, Noted, Accounted, Told, Exports, Stages, Ends, Before,
     AtWork, Over, Tolerant, ErrorKinds, input, objects, report
  <2>2. CASE Tolerant /\ Goto("post") /\ Record("postload")
    BY <1>10, <2>2 DEF PostLoad, Goto, Record, TypeOK, Opened, Linked, Thrown, Noted, Accounted, Told, Exports, Stages, Ends, Before,
     AtWork, Over, Tolerant, ErrorKinds, input, objects, report
  <2>3. CASE UNCHANGED errors /\ pc' = "handler" /\ exc' \in Unexpected /\ exc' \in Raisable \cup {"parse"}
    BY <1>10, <2>3 DEF PostLoad, Unexpected, TypeOK, Opened, Linked, Thrown, Noted, Accounted, Told, Exports, Stages, Ends, Before,
     AtWork, Over, Tolerant, ErrorKinds, input, objects, report
  <2> QED
    BY <1>10, <2>1, <2>2, <2>3 DEF PostLoad, Raise, Unexpected
<1>11. CASE PostProcess
  BY <1>11 DEF PostProcess, Goto, Raise, Record, Unexpected, NoErrors, TypeOK, Opened, Linked, Thrown, Noted, Accounted, Told, Exports, Stages, Ends, Before,
     AtWork, Over, Tolerant, ErrorKinds, input, objects, report
<1>12. CASE HandleError
  <2>1. /\ pc = "handler" /\ pc' = "close" /\ success = "no" /\ success' = "no"
        /\ UNCHANGED <<input, tables, archive, next, objects>>
    BY <1>12 DEF HandleError, TypeOK, Accounted, Over, Ends, report
  <2>2. /\ exc' \in Raisable \cup {"none", "parse"} /\ errors' \subseteq ErrorKinds
        /\ Tolerant => exc' \in {"none", "memory_limit"}
        /\ ~Tolerant => exc' # "none"
    BY <1>12 DEF HandleError, Record, TypeOK, Thrown, ErrorKinds, report
  <2>3. TypeOK'
    BY <2>1, <2>2 DEF TypeOK, Stages, Exports, input, objects
  <2>4. Opened' /\ Linked' /\ Thrown' /\ Noted' /\ Accounted'
    BY <2>1, <2>2 DEF Opened, Linked, Thrown, Noted, Accounted, Before, AtWork, Over, Ends, Tolerant,
       input, objects, Exports
  <2> QED
    BY <2>3, <2>4
<1>13. CASE Close
  BY <1>13 DEF Close, TypeOK, Opened, Linked, Thrown, Noted, Accounted, Told, Exports, Stages, Ends, Before,
     AtWork, Over, Tolerant, ErrorKinds, input, objects, report
<1>14. CASE Complete
  BY <1>14 DEF Complete, Goto, Escapes, TypeOK, Opened, Linked, Thrown, Noted, Accounted, Told, Exports, Stages, Ends, Before,
     AtWork, Over, Tolerant, ErrorKinds, input, objects, report
<1>15. CASE BeginPreload
  BY <1>15 DEF BeginPreload, Goto, TypeOK, Opened, Linked, Thrown, Noted, Accounted, Told, Exports, Stages, Ends, Before,
     AtWork, Over, Tolerant, ErrorKinds, input, objects, report
<1>16. CASE KeepLinker
  BY <1>16 DEF KeepLinker, Goto, TypeOK, Opened, Linked, Thrown, Noted, Accounted, Told, Exports, Stages, Ends, Before,
     AtWork, Over, Tolerant, ErrorKinds, input, objects, report
<1>17. CASE EndPreload
  BY <1>17 DEF EndPreload, Goto, TypeOK, Opened, Linked, Thrown, Noted, Accounted, Told, Exports, Stages, Ends, Before,
     AtWork, Over, Tolerant, ErrorKinds, input, objects, report
<1>18. CASE UNCHANGED vars
  BY <1>18 DEF vars, TypeOK, Opened, Linked, Thrown, Noted, Accounted, Told, Exports, Stages, Ends, Before,
     AtWork, Over, Tolerant, ErrorKinds, input, objects, report
<1> QED
  BY <1>0, <1>1, <1>2, <1>3, <1>4, <1>5, <1>6, <1>7, <1>8, <1>9, <1>10, <1>11, <1>12, <1>13, <1>14, <1>15, <1>16, <1>17, <1>18

LEMMA LinkerKeeps ==
  ASSUME PipelineInv, CreateLinker \/ CleanUp
  PROVE  PipelineInv'
<1> USE PipelineAssumption DEF PipelineInv
<1>1. CASE CreateLinker /\ Goto("light") /\ linker' = "linked" /\ UNCHANGED errors
  BY <1>1 DEF CreateLinker, Goto, TypeOK, Opened, Linked, Thrown, Noted, Accounted, Told, Exports, Stages, Ends, Before,
     AtWork, Over, Tolerant, ErrorKinds, input, objects, report
<1>2. CASE CreateLinker /\ Goto("light") /\ Tolerant /\ Record("link") /\ UNCHANGED linker
  BY <1>2 DEF CreateLinker, Goto, Record, TypeOK, Opened, Linked, Thrown, Noted, Accounted, Told, Exports, Stages, Ends, Before,
     AtWork, Over, Tolerant, ErrorKinds, input, objects, report
<1>3. CASE /\ CreateLinker /\ pc' = "handler" /\ UNCHANGED <<linker, errors>>
           /\ exc' \in Unexpected /\ exc' \in Raisable \cup {"parse"}
  BY <1>3 DEF CreateLinker, Unexpected, TypeOK, Opened, Linked, Thrown, Noted, Accounted, Told, Exports, Stages, Ends, Before,
     AtWork, Over, Tolerant, ErrorKinds, input, objects, report
<1>4. CASE CleanUp
  BY <1>4 DEF CleanUp, Goto, TypeOK, Opened, Linked, Thrown, Noted, Accounted, Told, Exports, Stages, Ends, Before,
     AtWork, Over, Tolerant, ErrorKinds, input, objects, report
<1> QED
  BY <1>1, <1>2, <1>3, <1>4 DEF CreateLinker, Raise, Unexpected

-----------------------------------------------------------------------------
(* The exports                                                              *)

\* What reading an export may do to it and to the linker's cache.
LEMMA Outcome ==
  ASSUME TypeOK, Linked, NEW e \in Exports, NEW o \in Reading(e)
  PROVE  /\ o[1] \in Verdicts /\ o[2] \in {"nothing", "cached", "read", "raised"}
         /\ o[1] \in {verdict[e], "opaque", "skipped", "partial"}
         /\ verdict[e] \in Blemished => o[1] \in Blemished
         /\ o[2] = "read" => archive = "open" \/ linker # "linked"
         /\ o[2] = "cached" => extent[e] # "inside" \/ o[1] = "skipped" \/ archive = "closed"
         /\ o[2] = "nothing" => e \in cached
<1>1. Marked(e) \in {verdict[e], "opaque"} /\ verdict[e] \in Verdicts
  BY DEF Marked, TypeOK
<1>2. CASE linker # "linked"
  BY <1>1, <1>2 DEF Reading, ReadDirectly, Verdicts, Blemished
<1>3. CASE linker = "linked"
  <2>1. o \in Preload(e) /\ archive \in {"open", "closed"}
    BY <1>3 DEF Reading, Linked, TypeOK
  <2> QED
    BY <1>1, <1>3, <2>1 DEF Preload, Verdicts, Blemished
<1> QED
  BY <1>2, <1>3

LEMMA Kept ==
  ASSUME TypeOK, NEW e \in Exports, NEW v \in Verdicts, NEW how, Keep(e, v, how)
  PROVE  /\ verdict' \in [Exports -> Verdicts] /\ verdict'[e] = v
         /\ \A f \in Exports : f # e => verdict'[f] = verdict[f]
         /\ loaded \subseteq loaded' /\ loaded' \subseteq Exports
         /\ how = "read" => e \in loaded'
         /\ how # "read" => loaded' = loaded
         /\ linker' = linker /\ cached' \subseteq Exports
         /\ linker # "linked" => cached' = cached
         /\ how \in {"nothing", "raised"} => cached' = cached
         /\ cached' \subseteq cached \cup {e}
BY DEF Keep, TypeOK

\* While the exports are parsed, one that is left without an exception is told.
LEMMA ParsedIsTold ==
  ASSUME PipelineInv, pc = "exports", NEW e \in Exports, e = next,
         NEW o \in Reading(e), o[2] # "raised", Keep(e, Succeeding(o[1]), o[2]), UNCHANGED input
  PROVE  Told(e)'
<1>1. /\ TypeOK /\ Linked /\ archive = "open" /\ e \notin cached
  BY DEF PipelineInv, Opened, AtWork, Linked, TypeOK, Exports
<1>2. o[2] # "cached" \/ extent[e] # "inside" \/ o[1] = "skipped"
  BY <1>1, Outcome
<1>3. Succeeding(o[1]) \in Verdicts /\ (o[1] = "skipped" => Succeeding(o[1]) = "skipped")
  BY <1>1, Outcome DEF Succeeding, Verdicts
<1>4. o[2] \in {"cached", "read"}
  BY <1>1, Outcome
<1>5. CASE o[2] = "read"
  BY <1>1, <1>3, <1>5, Kept DEF Told
<1>6. CASE extent[e] # "inside"
  BY <1>6 DEF Told, input
<1>7. CASE o[1] = "skipped"
  BY <1>1, <1>3, <1>7, Kept DEF Told, Blemished
<1> QED
  BY <1>2, <1>4, <1>5, <1>6, <1>7

\* What was told of an export stays told.
LEMMA StaysTold ==
  ASSUME TypeOK, NEW e \in Exports, NEW v \in Verdicts, NEW how, Keep(e, v, how), UNCHANGED input,
         NEW f \in Exports, Told(f), f # e \/ (verdict[e] \in Blemished => v \in Blemished)
  PROVE  Told(f)'
BY Kept DEF Told, input

\* After an export: the one left behind is told, and the next one follows.
LEMMA NextExport ==
  ASSUME PipelineInv, NEW e \in Exports, e = next, pc = "exports",
         NEW v \in Verdicts, NEW how, Keep(e, v, how), UNCHANGED <<input, tables, archive, success>>,
         GoOn, Told(e)', Tolerant \/ (v # "failed" /\ UNCHANGED errors), errors' \subseteq ErrorKinds
  PROVE  PipelineInv'
<1>1. TypeOK /\ next' = next + 1 /\ pc' = "exports" /\ exc' = exc
  BY DEF PipelineInv, GoOn, Goto
<1>2. TypeOK'
  BY <1>1, Kept, PipelineAssumption DEF TypeOK, Exports, Stages, input
<1>3. Opened' /\ Thrown'
  BY <1>1 DEF PipelineInv, Opened, Thrown, Before, AtWork, Over, Ends
<1>4. Linked'
  BY <1>1, Kept DEF PipelineInv, Linked, Before, AtWork, TypeOK, Exports, input
<1>5. Noted'
  BY <1>1, Kept DEF PipelineInv, Noted, Tolerant, input
<1>6. \A f \in Exports : f < next' => Told(f)'
  <2> TAKE f \in Exports
  <2> HAVE f < next'
  <2>1. f = e \/ (f # e /\ f < next)
    BY <1>1 DEF TypeOK, Exports
  <2> QED
    BY <1>1, <2>1, StaysTold DEF PipelineInv, Accounted, input
<1>7. Accounted'
  BY <1>1, <1>6 DEF PipelineInv, Accounted, AtWork, Over, Ends, TypeOK
<1> QED
  BY <1>2, <1>3, <1>4, <1>5, <1>7 DEF PipelineInv

LEMMA ParseExportKeeps ==
  ASSUME PipelineInv, ParseExport
  PROVE  PipelineInv'
<1>0. PICK e \in Exports : e = next
  BY DEF ParseExport
<1>1. PICK o \in Reading(e) : o[2] # "raised" /\ Keep(e, Succeeding(o[1]), o[2])
  BY <1>0 DEF ParseExport
<1>2. e \in Exports /\ pc = "exports" /\ GoOn /\ UNCHANGED <<input, tables, archive, report>>
  BY DEF ParseExport
<1>3. TypeOK /\ Linked /\ Noted /\ exc = "none"
  BY <1>2 DEF PipelineInv, Thrown, AtWork
<1>4. Succeeding(o[1]) \in Verdicts /\ (~Tolerant => Succeeding(o[1]) # "failed")
  BY <1>2, <1>3, Outcome DEF Succeeding, Verdicts, Noted
<1>5. Told(e)'
  BY <1>0, <1>1, <1>2, ParsedIsTold DEF input
<1>6. errors' = errors /\ success' = success /\ errors' \subseteq ErrorKinds
  BY <1>2, <1>3 DEF report, TypeOK
<1> QED
  BY <1>0, <1>1, <1>2, <1>4, <1>5, <1>6, NextExport

\* An exception that leaves the loop over the exports.
LEMMA LeavesExports ==
  ASSUME PipelineInv, NEW e \in Exports, e = next, pc = "exports",
         NEW v \in Verdicts, ~Tolerant => v # "failed", Keep(e, v, "raised"),
         UNCHANGED <<input, tables, archive, next, report>>,
         pc' = "handler", exc' \in Unexpected, exc' \in Raisable \cup {"parse"}
  PROVE  PipelineInv'
<1>1. TypeOK /\ success = "no"
  BY DEF PipelineInv, Accounted, TypeOK, Over, Ends
<1>2. TypeOK'
  BY <1>1, Kept DEF TypeOK, Exports, Stages, input, report
<1>3. Opened' /\ Thrown'
  BY DEF Opened, Thrown, Before, AtWork, Over, Ends, Unexpected
<1>4. Linked'
  BY <1>1, Kept DEF PipelineInv, Linked, Before, AtWork
<1>5. Noted'
  BY <1>1, Kept DEF PipelineInv, Noted, Tolerant, input, Unexpected
<1>6. Accounted'
  BY <1>1 DEF Accounted, AtWork, report
<1> QED
  BY <1>2, <1>3, <1>4, <1>5, <1>6 DEF PipelineInv

LEMMA ExportRaisesKeeps ==
  ASSUME PipelineInv, ExportRaises
  PROVE  PipelineInv'
<1>0. PICK e \in Exports : e = next
  BY DEF ExportRaises
<1>1. e \in Exports /\ pc = "exports" /\ UNCHANGED <<input, tables, archive, success>>
  BY DEF ExportRaises
<1>2. TypeOK /\ Linked /\ Noted /\ exc = "none" /\ errors \subseteq ErrorKinds
  BY <1>1 DEF PipelineInv, Thrown, AtWork, TypeOK
<1>3. PICK o \in Reading(e), x \in Unexpected \cap Raisable :
       /\ o[2] = "raised"
       /\ \/ /\ x = "data" /\ Tolerant /\ Keep(e, "failed", "raised") /\ Record("export") /\ GoOn
          \/ /\ x = "data" /\ ~Tolerant /\ Keep(e, o[1], "raised") /\ UNCHANGED <<errors, next>>
             /\ pc' = "handler" /\ exc' = "parse"
          \/ /\ x = "memory" /\ Keep(e, "partial", "raised") /\ UNCHANGED errors
             /\ IF Tolerant THEN GoOn ELSE Raise(x) /\ UNCHANGED next
          \/ /\ x \notin {"data", "memory"} /\ Keep(e, o[1], "raised") /\ Raise(x)
             /\ UNCHANGED <<errors, next>>
  BY <1>0 DEF ExportRaises
<1>4. o[1] \in Verdicts /\ (~Tolerant => o[1] # "failed")
  BY <1>1, <1>2, Outcome DEF Noted
<1>5. CASE Tolerant /\ Keep(e, "failed", "raised") /\ Record("export") /\ GoOn
  <2>1. "failed" \in Verdicts /\ errors' \subseteq ErrorKinds
    BY <1>2, <1>5 DEF Verdicts, Record, ErrorKinds
  <2>2. Told(e)'
    BY <1>1, <1>2, <1>5, <2>1, Kept DEF Told, Blemished
  <2> QED
    BY <1>0, <1>1, <1>5, <2>1, <2>2, NextExport
<1>6. CASE Keep(e, "partial", "raised") /\ UNCHANGED errors /\ GoOn
  <2>1. "partial" \in Verdicts /\ errors' \subseteq ErrorKinds
    BY <1>2, <1>6 DEF Verdicts
  <2>2. Told(e)'
    BY <1>1, <1>2, <1>6, <2>1, Kept DEF Told, Blemished
  <2> QED
    BY <1>0, <1>1, <1>6, <2>1, <2>2, NextExport
<1>7. ASSUME NEW v \in Verdicts, ~Tolerant => v # "failed", Keep(e, v, "raised"),
             UNCHANGED <<errors, next>>, pc' = "handler",
             exc' \in Unexpected, exc' \in Raisable \cup {"parse"}
      PROVE  PipelineInv'
  BY <1>0, <1>1, <1>7, LeavesExports DEF report
<1>8. "partial" \in Verdicts /\ "parse" \in Unexpected
  BY DEF Verdicts, Unexpected
<1> QED
  BY <1>3, <1>4, <1>5, <1>6, <1>7, <1>8 DEF Raise

LEMMA PreloadNextKeeps ==
  ASSUME PipelineInv, PreloadNext
  PROVE  PipelineInv' /\ loaded' = loaded
<1> DEFINE e == next
<1>1. PICK o \in Preload(e) : Keep(e, o[1], o[2])
  BY DEF PreloadNext
<1>2. /\ e \in Exports /\ pc = "preload" /\ next' = next + 1 /\ pc' = "preload" /\ exc' = exc
      /\ UNCHANGED <<input, tables, archive, report>>
  BY DEF PreloadNext, Goto
<1>3. /\ TypeOK /\ Linked /\ Noted /\ exc = "none" /\ linker = "linked" /\ archive # "open"
      /\ entry = "preload_all"
  BY <1>2 DEF PipelineInv, Thrown, Linked, Opened, Over
<1>4. o \in Reading(e)
  BY <1>3 DEF Reading
<1>5. o[1] \in Verdicts /\ (o[1] = "failed" => verdict[e] = "failed") /\ o[2] # "read"
      /\ (verdict[e] \in Blemished => o[1] \in Blemished)
  BY <1>2, <1>3, <1>4, Outcome
<1>6. loaded' = loaded
  BY <1>1, <1>2, <1>3, <1>5, Kept
<1>7. TypeOK'
  BY <1>1, <1>2, <1>3, <1>5, Kept, PipelineAssumption DEF TypeOK, Exports, input, report
<1>8. Opened' /\ Thrown' /\ Linked'
  BY <1>1, <1>2, <1>3, <1>5, Kept
     DEF PipelineInv, Opened, Thrown, Linked, Before, AtWork, Over, Ends, input
<1>9. Noted'
  BY <1>1, <1>2, <1>3, <1>5, Kept DEF Noted, Tolerant, input, report
<1>10. \A f \in Exports : Told(f) => Told(f)'
  BY <1>1, <1>2, <1>3, <1>5, StaysTold
<1>11. Accounted'
  BY <1>2, <1>10 DEF PipelineInv, Accounted, AtWork, Over, Tolerant, input, report
<1> QED
  BY <1>6, <1>7, <1>8, <1>9, <1>11 DEF PipelineInv

LEMMA EachStep == PipelineInv /\ [Next]_vars => PipelineInv'
<1> SUFFICES ASSUME PipelineInv, [Next]_vars PROVE PipelineInv'
  OBVIOUS
<1>1. CASE UNCHANGED vars \/ Ended
  <2>1. UNCHANGED vars
    BY <1>1 DEF Ended
  <2> QED
    BY <2>1, StagesKeep DEF vars, objects
<1>2. CASE CreateLinker \/ CleanUp
  BY <1>2, LinkerKeeps
<1>3. CASE ParseExport
  BY <1>3, ParseExportKeeps
<1>4. CASE ExportRaises
  BY <1>4, ExportRaisesKeeps
<1>5. CASE PreloadNext
  BY <1>5, PreloadNextKeeps
<1>6. CASE \/ Configure \/ Start \/ Open \/ ReadCoreTable \/ CoreCheckpoint \/ ReadSecondaryTables
           \/ ApplyLightweight \/ SkipEmptyExport \/ ExportCheckpoint \/ EndExports
           \/ PostLoad \/ PostProcess \/ HandleError \/ Close \/ Complete
           \/ BeginPreload \/ KeepLinker \/ EndPreload
  <2>1. UNCHANGED objects
    BY <1>6 DEF Configure, Start, Open, ReadCoreTable, CoreCheckpoint, ReadSecondaryTables,
       ApplyLightweight, SkipEmptyExport, ExportCheckpoint, EndExports, PostLoad, PostProcess,
       HandleError, Close, Complete, BeginPreload, KeepLinker, EndPreload, Exceeds, objects
  <2> QED
    BY <1>6, <2>1, StagesKeep
<1> QED
  BY <1>1, <1>2, <1>3, <1>4, <1>5, <1>6 DEF Next

-----------------------------------------------------------------------------
\* PipelineInv holds throughout every parse.
THEOREM Invariance == Spec => []PipelineInv
BY AtFirst, EachStep, PTL DEF Spec

\* The variables have their types, for any number of exports.
THEOREM TypeCorrect == Spec => []TypeOK
<1>1. PipelineInv => TypeOK
  BY DEF PipelineInv
<1> QED
  BY <1>1, Invariance, PTL

\* However a parse ends, the archive is closed, and parse_package keeps nothing.
THEOREM NothingHeld == Spec => []ResourcesReleased
<1>1. PipelineInv => ResourcesReleased
  BY DEF PipelineInv, Opened, Linked, Over, ResourcesReleased
<1> QED
  BY <1>1, Invariance, PTL

\* Once the core has begun, tolerant mode raises for memory only; strict mode
\* hides no failure.
THEOREM ModeIsKept == Spec => ModeKept
<1>1. PipelineInv /\ [Next]_vars => [RaisesMemoryOnly]_vars
  <2> SUFFICES ASSUME PipelineInv, Next, Tolerant, pc' = "raised", pc \notin {"configure", "start"},
                      ~UNCHANGED vars
               PROVE  exc' = "memory_limit"
    BY DEF RaisesMemoryOnly
  <2>1. Close \/ Complete
    BY DEF Next, Configure, Start, Open, ReadCoreTable, CoreCheckpoint, ReadSecondaryTables,
       CreateLinker, ApplyLightweight, SkipEmptyExport, ParseExport, ExportRaises, ExportCheckpoint,
       EndExports, PostLoad, PostProcess, HandleError, CleanUp, BeginPreload, KeepLinker,
       PreloadNext, EndPreload, Ended, Exceeds, Raise, Goto, GoOn
  <2>2. CASE Close
    BY <2>2 DEF Close, PipelineInv, Thrown
  <2>3. CASE Complete
    BY <2>3 DEF Complete, Goto, Escapes
  <2> QED
    BY <2>1, <2>2, <2>3
<1>2. PipelineInv /\ PipelineInv' /\ [Next]_vars => [HidesNoFailure]_vars
  <2> SUFFICES ASSUME PipelineInv', [Next]_vars, ~Tolerant, pc' = "returned"
               PROVE  errors' \subseteq {"argument", "imports", "post"} /\ With("failed")' = {}
    BY DEF HidesNoFailure
  <2>1. exc' = "none" /\ Noted'
    BY DEF PipelineInv, Thrown
  <2>2. ~Tolerant'
    BY DEF Tolerant, Next, Configure, Start, Open, ReadCoreTable, CoreCheckpoint, ReadSecondaryTables,
       CreateLinker, ApplyLightweight, SkipEmptyExport, ParseExport, ExportRaises, ExportCheckpoint,
       EndExports, PostLoad, PostProcess, HandleError, Close, Complete, CleanUp, BeginPreload,
       KeepLinker, PreloadNext, EndPreload, Ended, Exceeds, input, vars
  <2> QED
    BY <2>1, <2>2 DEF Noted, With
<1>3. PipelineInv /\ PipelineInv' /\ [Next]_vars => [RaisesMemoryOnly /\ HidesNoFailure]_vars
  BY <1>1, <1>2
<1>4. Spec => [][RaisesMemoryOnly /\ HidesNoFailure]_vars
  BY <1>3, Invariance, PTL DEF Spec
<1> QED
  BY <1>4 DEF ModeKept

\* A result that calls itself a success was read to the end.
THEOREM StatusIsHonest == Spec => []HonestStatus
<1>1. PipelineInv => HonestStatus
  <2> SUFFICES ASSUME PipelineInv, Status = "success"
               PROVE  errors = {} /\ tables = 4 /\ \A e \in Exports : extent[e] = "inside" => e \in loaded
    BY DEF HonestStatus
  <2>1. success = "yes" /\ ~(heavy = "yes" /\ Tolerant)
    BY DEF Status, PipelineInv, TypeOK
  <2>2. errors = {} /\ tables = 4 /\ \A e \in Exports : Told(e)
    BY <2>1 DEF PipelineInv, Accounted
  <2>3. \A v \in Blemished : With(v) = {}
    BY <2>2 DEF Status, Blemished
  <2>4. \A e \in Exports : verdict[e] \notin Blemished
    BY <2>3 DEF With
  <2> QED
    BY <2>2, <2>4 DEF Told
<1> QED
  BY <1>1, Invariance, PTL

\* preload_all reads no export.
THEOREM PreloadReadsNothing == Spec => PreloadAddsNothing
<1>1. PipelineInv /\ [Next]_vars => [pc = "preload" => loaded' = loaded]_vars
  <2> SUFFICES ASSUME PipelineInv, Next, pc = "preload" PROVE loaded' = loaded
    OBVIOUS
  <2>1. PreloadNext \/ EndPreload
    BY DEF Next, Configure, Start, Open, ReadCoreTable, CoreCheckpoint, ReadSecondaryTables, CreateLinker,
       ApplyLightweight, SkipEmptyExport, ParseExport, ExportRaises, ExportCheckpoint, EndExports,
       PostLoad, PostProcess, HandleError, Close, Complete, CleanUp, BeginPreload, KeepLinker,
       Ended, Ends
  <2> QED
    BY <2>1, PreloadNextKeeps DEF EndPreload, objects
<1>2. Spec => [][pc = "preload" => loaded' = loaded]_vars
  BY <1>1, Invariance, PTL DEF Spec
<1> QED
  BY <1>2 DEF PreloadAddsNothing
=============================================================================
