---------------------------- MODULE ParsePipeline ----------------------------
(***************************************************************************)
(* One call of parse_package or parse_uasset_with_linker: the stages of    *)
(* _parse_package_core, what each records when it fails in tolerant and in *)
(* strict mode, the linker that reads the exports one by one, the archive  *)
(* that is closed under it, and the status a caller derives in the end.    *)
(***************************************************************************)
EXTENDS Naturals, FiniteSets

CONSTANTS
  NExports,  \* entries of the export table
  Entries,   \* "package", "linker", "preload_all" (the linker API with its flag)
  Kinds,     \* serialization strategies: "tagged", "opaque", "skip"
  Extents,   \* where the data of an export lies: "empty", "inside", "outside"
  Raisable   \* "version", "parse", "data", "memory", "other", "memory_limit"

Exports == 1..NExports

ASSUME PipelineAssumption ==
  /\ NExports \in Nat
  /\ Entries \subseteq {"package", "linker", "preload_all"}
  /\ Kinds \subseteq {"tagged", "opaque", "skip"}
  /\ Extents \subseteq {"empty", "inside", "outside"}
  /\ Raisable \subseteq {"version", "parse", "data", "memory", "other", "memory_limit"}

VARIABLES
  entry, mode, \* the API called, "tolerant" or "strict"
  kind, extent,\* per export: class strategy, and place of its data in the file
  heavy,       \* "yes" if export_count exceeds the lightweight threshold
  pc, exc,     \* stage, and the exception under way ("none")
  tables,      \* core tables read: summary, names, imports, exports (0..4)
  archive,     \* "none", "open", "closed"
  linker,      \* "none", "linked", "cleared"
  next,        \* the export to be parsed next
  cached,      \* exports that preload has dealt with
  loaded,      \* exports whose properties were read from the open archive
  verdict,     \* export.parse_status, "none" before one is set
  errors,      \* kinds of entries in result.errors
  success      \* result.is_success

input == <<entry, mode, kind, extent, heavy>>
objects == <<linker, cached, loaded, verdict>>
report == <<errors, success>>
vars == <<input, pc, exc, tables, archive, next, objects, report>>

Stages == {"configure", "start", "open", "core", "secondary", "link", "light", "exports",
           "postload", "post", "handler", "close", "complete", "entry", "preload"}
Ends == {"returned", "raised"}
Verdicts == {"none", "success", "opaque", "skipped", "partial", "failed"}
ErrorKinds == {"argument", "stage", "link", "export", "postload", "imports", "post"}

TypeOK ==
  /\ entry \in Entries /\ mode \in {"tolerant", "strict"} /\ heavy \in {"yes", "no"}
  /\ kind \in [Exports -> Kinds] /\ extent \in [Exports -> Extents]
  /\ pc \in Stages \cup Ends /\ exc \in Raisable \cup {"none", "parse"}
  /\ tables \in 0..4 /\ archive \in {"none", "open", "closed"}
  /\ linker \in {"none", "linked", "cleared"}
  /\ next \in 1..(NExports + 1)
  /\ loaded \subseteq Exports /\ cached \subseteq Exports
  /\ verdict \in [Exports -> Verdicts]
  /\ errors \subseteq ErrorKinds /\ success \in {"yes", "no"}

Init ==
  /\ entry \in Entries /\ mode \in {"tolerant", "strict"} /\ heavy \in {"yes", "no"}
  /\ kind \in [Exports -> Kinds] /\ extent \in [Exports -> Extents]
  /\ pc = "configure" /\ exc = "none" /\ tables = 0
  /\ archive = "none" /\ linker = "none" /\ next = 1
  /\ cached = {} /\ loaded = {}
  /\ verdict = [e \in Exports |-> "none"]
  /\ errors = {} /\ success = "no"

Tolerant == mode = "tolerant"
NoErrors(errs) == IF errs = {} THEN "yes" ELSE "no"

Goto(stage) == pc' = stage /\ exc' = exc
Raise(x) == x \in Raisable /\ pc' = "handler" /\ exc' = x
Record(k) == errors' = errors \cup {k}

\* MemoryMonitor.checkpoint in front of a stage.
Exceeds == Raise("memory_limit") /\ UNCHANGED <<input, tables, archive, next, objects, report>>
Unexpected == {"version", "parse", "data", "other", "memory"}

-----------------------------------------------------------------------------
\* An exception that no clause of the call catches, in either mode.
Escapes(x) == x \in Raisable /\ pc' = "raised" /\ exc' = x

\* parse_package configures logging, and a log_config does for any entry: the
\* OSError of a log directory that cannot be written leaves the call.  A
\* retired argument ends parse_package with an error in the result.
Configure ==
  /\ pc = "configure"
  /\ \/ (Goto("start") \/ Escapes("other")) /\ UNCHANGED errors
     \/ entry = "package" /\ Goto("returned") /\ Record("argument")
  /\ UNCHANGED <<input, tables, archive, next, objects, success>>

\* The size of the file is asked for, and with memory_monitor makes its first
\* checkpoint, outside the try block.
Start ==
  /\ pc = "start"
  /\ Goto("open") \/ Escapes("other") \/ Escapes("memory_limit")
  /\ UNCHANGED <<input, tables, archive, next, objects, report>>

\* _init_parse_env: argument, mappings and bundle errors raise before the
\* archive is open.
Open ==
  /\ pc = "open"
  /\ \/ Goto("core") /\ archive' = "open"
     \/ UNCHANGED archive /\ \E x \in Unexpected : Raise(x)
  /\ UNCHANGED <<input, tables, next, objects, report>>

\* _run_required_stage, four times: tolerant mode records the error and
\* returns early, strict mode raises.  A checkpoint follows each table.
ReadCoreTable ==
  /\ pc = "core"
  /\ \/ tables < 4 /\ tables' = tables + 1 /\ Goto("core") /\ UNCHANGED report
     \/ tables = 4 /\ Goto("secondary") /\ UNCHANGED <<tables, report>>
     \/ /\ tables < 4 /\ UNCHANGED tables
        /\ \E x \in Unexpected \cap Raisable :
             IF Tolerant THEN Goto("close") /\ Record("stage") /\ success' = "no"
                         ELSE Raise(x) /\ UNCHANGED report
  /\ UNCHANGED <<input, archive, next, objects>>

CoreCheckpoint == pc = "core" /\ tables > 0 /\ Exceeds

\* Depends map, preload dependencies, soft references; a registry error is
\* a warning in tolerant mode and a ParseError in strict mode.
ReadSecondaryTables ==
  /\ pc = "secondary"
  /\ Goto("link") \/ \E x \in Unexpected : Raise(x)
  /\ UNCHANGED <<input, tables, archive, next, objects, report>>

\* _create_linker catches the errors of bad data; an index error or a
\* ParseError is not among them.
CreateLinker ==
  /\ pc = "link"
  /\ \/ Goto("light") /\ linker' = "linked" /\ UNCHANGED errors
     \/ /\ "data" \in Raisable /\ UNCHANGED linker
        /\ IF Tolerant THEN Goto("light") /\ Record("link")
                       ELSE pc' = "handler" /\ exc' = "parse" /\ UNCHANGED errors
     \/ UNCHANGED <<linker, errors>> /\ \E x \in Unexpected \ {"data"} : Raise(x)
  /\ UNCHANGED <<input, tables, archive, next, cached, loaded, verdict, success>>

\* _apply_lightweight_parse returns early: no export is read.
ApplyLightweight ==
  /\ pc = "light"
  /\ IF heavy = "yes" /\ Tolerant
     THEN Goto("close") /\ success' = NoErrors(errors)
     ELSE Goto("exports") /\ UNCHANGED success
  /\ UNCHANGED <<input, tables, archive, next, objects, errors>>

-----------------------------------------------------------------------------
(* Exports                                                                  *)

\* PackageLinker.preload marks an opaque class before it reads anything.
Marked(e) == IF kind[e] = "opaque" THEN "opaque" ELSE verdict[e]

\* What preload may do to export e: the verdict it leaves, and whether it did
\* nothing, cached the export unread, read it, or raised (which caches nothing).
\* Data outside the file is diagnosed and cached, and no error.  A closed
\* in-memory archive fails each read with a ParseError, which tolerant parsing
\* turns into warnings: the export counts as preloaded.
Preload(e) ==
  CASE linker # "linked" \/ e \in cached -> {<<verdict[e], "nothing">>}
    [] kind[e] = "skip"                  -> {<<"skipped", "cached">>}
    [] extent[e] # "inside"              -> {<<Marked(e), "cached">>}
    [] archive = "open"   -> {<<Marked(e), "read">>, <<"partial", "read">>, <<Marked(e), "raised">>}
    [] archive = "closed" -> {<<Marked(e), "cached">>, <<Marked(e), "raised">>}

\* Without a linker there is no strategy and no check of the extent.
ReadDirectly(e) ==
  {<<verdict[e], "raised">>} \cup
  (IF extent[e] = "inside" THEN {<<verdict[e], "read">>, <<"partial", "read">>} ELSE {})

Reading(e) == IF linker = "linked" THEN Preload(e) ELSE ReadDirectly(e)

Keep(e, v, how) ==
  /\ verdict' = [verdict EXCEPT ![e] = v]
  /\ loaded' = IF how = "read" THEN loaded \cup {e} ELSE loaded
  /\ cached' = IF how \in {"cached", "read"} /\ linker = "linked" THEN cached \cup {e} ELSE cached
  /\ UNCHANGED linker

\* Variant: the verdict of the linker is overwritten.
Plainly(v) == "success"
Succeeding(v) == IF v = "none" THEN "success" ELSE v

GoOn == next' = next + 1 /\ Goto("exports")
Data(e) == extent[e] # "empty"

SkipEmptyExport ==
  /\ pc = "exports" /\ next \in Exports /\ ~Data(next)
  /\ GoOn /\ UNCHANGED <<input, tables, archive, objects, report>>

ParseExport ==
  LET e == next IN
  /\ pc = "exports" /\ e \in Exports /\ Data(e)
  /\ \E o \in Reading(e) : o[2] # "raised" /\ Keep(e, Succeeding(o[1]), o[2])
  /\ GoOn /\ UNCHANGED <<input, tables, archive, report>>

\* Bad data fails the export and, in strict mode, the parse; running out of
\* memory makes it partial; a ParseError is caught by neither clause and ends
\* the parse of the package even in tolerant mode.
ExportRaises ==
  LET e == next IN
  /\ pc = "exports" /\ e \in Exports /\ Data(e)
  /\ \E o \in Reading(e), x \in Unexpected \cap Raisable :
       /\ o[2] = "raised"
       /\ \/ /\ x = "data" /\ Tolerant /\ Keep(e, "failed", "raised") /\ Record("export") /\ GoOn
          \/ /\ x = "data" /\ ~Tolerant /\ Keep(e, o[1], "raised") /\ UNCHANGED <<errors, next>>
             /\ pc' = "handler" /\ exc' = "parse"
          \/ /\ x = "memory" /\ Keep(e, "partial", "raised") /\ UNCHANGED errors
             /\ IF Tolerant THEN GoOn ELSE Raise(x) /\ UNCHANGED next
          \/ /\ x \notin {"data", "memory"} /\ Keep(e, o[1], "raised") /\ Raise(x)
             /\ UNCHANGED <<errors, next>>
  /\ UNCHANGED <<input, tables, archive, success>>

ExportCheckpoint == pc = "exports" /\ next \in Exports /\ Exceeds

EndExports ==
  /\ pc = "exports" /\ next \notin Exports
  /\ Goto("postload") \/ Raise("memory_limit")
  /\ UNCHANGED <<input, tables, archive, next, objects, report>>

-----------------------------------------------------------------------------
\* linker.post_load, whose import errors are reported in both modes.
PostLoad ==
  /\ pc = "postload"
  /\ \/ Goto("post") /\ UNCHANGED errors
     \/ linker = "linked" /\ Goto("post") /\ Record("imports")
     \/ /\ linker = "linked" /\ "data" \in Raisable
        /\ IF Tolerant THEN Goto("post") /\ Record("postload")
                       ELSE pc' = "handler" /\ exc' = "parse" /\ UNCHANGED errors
     \/ linker = "linked" /\ UNCHANGED errors /\ \E x \in Unexpected \ {"data"} : Raise(x)
  /\ UNCHANGED <<input, tables, archive, next, objects, success>>

\* Graphs, blueprint metadata, bytecode, dependencies, parent asset: what is
\* not fatal is noted; a ParseError is noted by tolerant_parse and raised
\* again, so the stages behind it do not run, tolerant or not.
PostProcess ==
  /\ pc = "post"
  /\ \/ Goto("close") /\ errors' \in {errors, errors \cup {"post"}} /\ success' = NoErrors(errors')
     \/ Raise("parse") /\ Record("post") /\ UNCHANGED success
     \/ UNCHANGED report /\ \E x \in Unexpected \cup {"memory_limit"} : Raise(x)
  /\ UNCHANGED <<input, tables, archive, next, objects>>

\* Variant: strict mode swallows what it has recorded.
HandleErrorSilently ==
  /\ pc = "handler" /\ pc' = "close"
  /\ IF exc = "memory_limit" THEN UNCHANGED <<exc, report>>
     ELSE Record("stage") /\ success' = "no" /\ exc' = "none"
  /\ UNCHANGED <<input, tables, archive, next, objects>>

\* _handle_parse_error
HandleError ==
  /\ pc = "handler" /\ pc' = "close"
  /\ IF exc = "memory_limit" THEN UNCHANGED <<exc, report>>
     ELSE /\ Record("stage") /\ success' = "no"
          /\ exc' = IF Tolerant THEN "none" ELSE exc
  /\ UNCHANGED <<input, tables, archive, next, objects>>

\* Variants: the archive is closed on the way out of a success only; or left
\* to the linker that was asked to preload.
CloseOnSuccess ==
  /\ pc = "close" /\ exc' = exc
  /\ archive' = IF archive = "open" /\ exc = "none" THEN "closed" ELSE archive
  /\ pc' = IF exc = "none" THEN "complete" ELSE "raised"
  /\ UNCHANGED <<input, tables, next, objects, report>>
CloseUnlessPreloading ==
  /\ pc = "close" /\ exc' = exc
  /\ archive' = IF archive = "open" /\ entry # "preload_all" THEN "closed" ELSE archive
  /\ pc' = IF exc = "none" THEN "complete" ELSE "raised"
  /\ UNCHANGED <<input, tables, next, objects, report>>

\* _cleanup_archive_diagnostics in the finally block.
Close ==
  /\ pc = "close" /\ exc' = exc
  /\ archive' = IF archive = "open" THEN "closed" ELSE archive
  /\ pc' = IF exc = "none" THEN "complete" ELSE "raised"
  /\ UNCHANGED <<input, tables, next, objects, report>>

\* The checkpoint of MemoryMonitor.__exit__ can still take the result away.
Complete ==
  /\ pc = "complete"
  /\ Goto("entry") \/ Escapes("memory_limit")
  /\ UNCHANGED <<input, tables, archive, next, objects, report>>

\* parse_package: _cleanup_parse_memory, reached only when nothing was raised.
CleanUp ==
  /\ pc = "entry" /\ entry = "package" /\ Goto("returned")
  /\ IF linker = "linked" THEN linker' = "cleared" /\ cached' = {} ELSE UNCHANGED <<linker, cached>>
  /\ UNCHANGED <<input, tables, archive, next, loaded, verdict, report>>

BeginPreload ==
  /\ pc = "entry" /\ entry = "preload_all" /\ linker = "linked"
  /\ Goto("preload") /\ next' = 1
  /\ UNCHANGED <<input, tables, archive, objects, report>>
KeepLinker ==
  /\ pc = "entry" /\ (entry = "linker" \/ (entry = "preload_all" /\ linker # "linked"))
  /\ Goto("returned")
  /\ UNCHANGED <<input, tables, archive, next, objects, report>>

\* preload_all, behind the closed archive; every exception is logged.
PreloadNext ==
  /\ pc = "preload" /\ next \in Exports
  /\ \E o \in Preload(next) : Keep(next, o[1], o[2])
  /\ next' = next + 1 /\ Goto("preload")
  /\ UNCHANGED <<input, tables, archive, report>>
EndPreload ==
  /\ pc = "preload" /\ next \notin Exports /\ Goto("returned")
  /\ UNCHANGED <<input, tables, archive, next, objects, report>>

Ended == pc \in Ends /\ UNCHANGED vars

Next ==
  \/ Configure \/ Start \/ Open \/ ReadCoreTable \/ CoreCheckpoint \/ ReadSecondaryTables
  \/ CreateLinker \/ ApplyLightweight
  \/ SkipEmptyExport \/ ParseExport \/ ExportRaises \/ ExportCheckpoint \/ EndExports
  \/ PostLoad \/ PostProcess \/ HandleError \/ Close \/ Complete
  \/ CleanUp \/ BeginPreload \/ KeepLinker \/ PreloadNext \/ EndPreload
  \/ Ended

Spec == Init /\ [][Next]_vars

-----------------------------------------------------------------------------
\* _result_status
With(v) == {e \in Exports : verdict[e] = v}
Status ==
  IF tables = 4 /\ NExports > 0 /\ With("failed") = Exports THEN "failed"
  ELSE IF tables = 4 /\ \E v \in {"failed", "partial", "opaque", "skipped"} : With(v) # {} THEN "partial"
  ELSE IF success = "no" THEN (IF tables > 0 THEN "partial" ELSE "failed")
  ELSE IF errors # {} \/ (heavy = "yes" /\ Tolerant) THEN "partial" ELSE "success"

\* When the call is over, the archive is closed however it ended, and
\* parse_package leaves no live object graph behind.
ResourcesReleased ==
  /\ pc \in Ends => archive # "open"
  /\ pc = "returned" /\ entry = "package" => linker # "linked" /\ cached = {}

\* Once the core has begun, tolerant mode raises for the memory limit only
\* (before that, the log or the path itself may be out of reach); strict mode
\* never returns a result in which a stage or an export failed.
RaisesMemoryOnly ==
  Tolerant /\ pc' = "raised" /\ pc \notin {"configure", "start"} => exc' = "memory_limit"
HidesNoFailure ==
  ~Tolerant /\ pc' = "returned" =>
    errors' \subseteq {"argument", "imports", "post"} /\ With("failed")' = {}
ModeKept == [][RaisesMemoryOnly /\ HidesNoFailure]_vars

\* A result that calls itself a success was read to the end: no error, every
\* table, and every export whose data lies inside the file.  (An export that
\* lies outside counts as a success: preload only diagnoses it.)
HonestStatus ==
  pc = "returned" /\ Status = "success" =>
    /\ errors = {} /\ tables = 4
    /\ \A e \in Exports : extent[e] = "inside" => e \in loaded

\* preload_all reads nothing: the archive is closed by then.  What it changes
\* is the mark of an opaque export.
PreloadAddsNothing == [][pc = "preload" => loaded' = loaded]_vars
=============================================================================
