---------------------------- MODULE BatchDriver ----------------------------
(***************************************************************************)
(* The loop of parse_batch (core/__init__.py): one asset after the other,  *)
(* behind a memory gate, in a worker process or in this one, with the      *)
(* three lists it reports (success, failed, skipped) and the documents and *)
(* temporary files it leaves on disk.  What a worker does to an output is  *)
(* what AtomicPublish allows; the in-process write is modelled step by     *)
(* step, with the file descriptor the code believes it owns.               *)
(***************************************************************************)
EXTENDS Naturals, Sequences, SequencesExt

CONSTANTS
  Paths,       \* package_files: the source paths, in the order of the loop
  OutputName,  \* OutputName[p]: pf.name with the extension of the format
  SizeMB,      \* SizeMB[p]: the size that decides the tier
  Modes,       \* values of isolate_assets: "true", "false", "auto"
  Failing      \* steps that may fail: "parse", "mkstemp", "write", "replace",
               \* "worker"; "interrupt" is a KeyboardInterrupt at any step

Sources == {Paths[i] : i \in DOMAIN Paths}
Outputs == {OutputName[p] : p \in Sources}

ASSUME DriverAssumption ==
  /\ Paths \in Seq(Sources) /\ IsInjective(Paths)
  /\ "previous" \notin Sources
  /\ \A p \in Sources : SizeMB[p] \in Nat
  /\ Modes \subseteq {"true", "false", "auto"}
  /\ Failing \subseteq {"parse", "mkstemp", "write", "replace", "worker", "interrupt"}

VARIABLES
  pc,       \* the step of the current iteration, or "done" / "aborted"
  mode,     \* isolate_assets
  i,        \* the index of the current asset
  success,  \* outputs reported as written
  failed,   \* paths reported as failed
  partial,  \* paths parsed in process whose status is partial
  skipped,  \* paths the memory gate turned away
  document, \* document[o]: the source of what the file o holds
  temps     \* temporary files on disk: at most the current one, and leaks

lists == <<success, failed, skipped>>
reports == <<lists, partial>>
vars == <<pc, mode, i, reports, document, temps>>

Steps == {"gate", "worker", "parse", "mkstemp", "fdopen", "write", "replace"}

TypeOK ==
  /\ pc \in Steps \cup {"done", "aborted"}
  /\ mode \in Modes
  /\ i \in 1..(Len(Paths) + 1)
  /\ success \in Seq(Outputs) /\ failed \in Seq(Sources) /\ skipped \in Seq(Sources)
  /\ partial \in Seq(Sources)
  /\ document \in [Outputs -> Sources \cup {"previous"}]
  /\ temps \subseteq Sources

Init ==
  /\ pc = "gate" /\ mode \in Modes /\ i = 1
  /\ success = <<>> /\ failed = <<>> /\ skipped = <<>> /\ partial = <<>>
  /\ document = [o \in Outputs |-> "previous"]
  /\ temps = {}

path == Paths[i]
output == OutputName[path]

\* FileSizeTier.from_size and should_isolate: the 50 MB threshold is looked
\* at only in the medium tier.
Tier(mb) == IF mb < 20 THEN "small" ELSE IF mb <= 100 THEN "medium" ELSE "large"
ShouldIsolate(mb) ==
  CASE Tier(mb) = "small"  -> FALSE
    [] Tier(mb) = "medium" -> mb > 50
    [] Tier(mb) = "large"  -> TRUE

Isolates == mode = "true" \/ (mode = "auto" /\ ShouldIsolate(SizeMB[path]))

May(step) == step \in Failing
Goto(step) == pc' = step /\ UNCHANGED <<i, lists>>
NextAsset == pc' = "gate" /\ i' = i + 1
Succeeds == NextAsset /\ success' = Append(success, output) /\ UNCHANGED <<failed, skipped>>
\* Variant: the asset is tried again.
FailsAndRetries == pc' = "gate" /\ UNCHANGED <<i, lists>>

\* except Exception: the asset is reported and the loop goes on.
Fails == NextAsset /\ failed' = Append(failed, path) /\ UNCHANGED <<success, skipped>>
Written == document' = [document EXCEPT ![output] = path]

-----------------------------------------------------------------------------
\* Variant: the slice starts behind the current asset.
SkipBehind ==
  /\ pc = "gate" /\ i <= Len(Paths)
  /\ skipped' = skipped \o SubSeq(Paths, i + 1, Len(Paths))
  /\ pc' = "done"
  /\ UNCHANGED <<mode, i, success, failed, partial, document, temps>>

\* Variant: only this asset is skipped and the loop goes on.
SkipOne ==
  /\ pc = "gate" /\ i <= Len(Paths)
  /\ skipped' = Append(skipped, path) /\ NextAsset
  /\ UNCHANGED <<mode, success, failed, partial, document, temps>>

\* The memory gate: this asset and all that follow are skipped.
SkipRest ==
  /\ pc = "gate" /\ i <= Len(Paths)
  /\ skipped' = skipped \o SubSeq(Paths, i, Len(Paths))
  /\ pc' = "done"
  /\ UNCHANGED <<mode, i, success, failed, partial, document, temps>>

Admit ==
  /\ pc = "gate" /\ i <= Len(Paths)
  /\ Goto(IF Isolates THEN "worker" ELSE "parse")
  /\ UNCHANGED <<mode, partial, document, temps>>

Finish ==
  /\ pc = "gate" /\ i > Len(Paths)
  /\ Goto("done")
  /\ UNCHANGED <<mode, partial, document, temps>>

\* run_isolated_asset, as AtomicPublish has it: a failure, or an exception
\* out of it, may come after the worker has replaced the document.
RunWorker ==
  /\ pc = "worker"
  /\ \/ Succeeds /\ Written
     \/ May("worker") /\ Fails /\ (Written \/ UNCHANGED document)
  /\ UNCHANGED <<mode, partial, temps>>

\* _parse_and_render: a package that cannot be rendered raises ParseError.
\* A partial result is listed before it is written, whatever comes of that.
ParseInProcess ==
  /\ pc = "parse"
  /\ \/ Goto("mkstemp") /\ (UNCHANGED partial \/ partial' = Append(partial, path))
     \/ May("parse") /\ Fails /\ UNCHANGED partial
  /\ UNCHANGED <<mode, document, temps>>

MakeTemp ==
  /\ pc = "mkstemp"
  /\ \/ Goto("fdopen") /\ temps' = temps \cup {path}
     \/ May("mkstemp") /\ Fails /\ UNCHANGED temps
  /\ UNCHANGED <<mode, partial, document>>

OpenTemp ==
  /\ pc = "fdopen" /\ Goto("write")
  /\ UNCHANGED <<mode, partial, document, temps>>

\* os.fdopen owns the descriptor and closes it when the write fails, but
\* tmp_fd still holds its number: os.close raises OSError (bad descriptor)
\* out of the except clause, before os.unlink.  So the temp stays, and even a
\* KeyboardInterrupt becomes the failure of one asset.
WriteTemp ==
  /\ pc = "write"
  /\ \/ Goto("replace")
     \/ (May("write") \/ May("interrupt")) /\ Fails
  /\ UNCHANGED <<mode, partial, document, temps>>

\* Variant: the output is gone before the rename is known to work.
ReplaceOutputFirst ==
  /\ pc = "replace"
  /\ Written /\ temps' = temps \ {path}
  /\ Succeeds \/ (May("replace") /\ Fails)
  /\ UNCHANGED <<mode, partial>>

\* Variant: an error of the rename is taken for a success.
ReplaceOutputUnchecked ==
  /\ pc = "replace"
  /\ Succeeds /\ temps' = temps \ {path}
  /\ Written \/ (May("replace") /\ UNCHANGED document)
  /\ UNCHANGED <<mode, partial>>

ReplaceOutput ==
  /\ pc = "replace"
  /\ temps' = temps \ {path}
  /\ \/ Written /\ Succeeds
     \/ May("replace") /\ Fails /\ UNCHANGED document
  /\ UNCHANGED <<mode, partial>>

\* KeyboardInterrupt is no Exception: it leaves parse_batch.  The except
\* clause around the write has unlinked the temp where the descriptor is
\* still open, or already forgotten.  A worker's finally block has run.  The
\* rename, and a worker's, may be done and the success not yet listed.
Interrupt ==
  /\ May("interrupt")
  /\ pc \in {"worker", "parse", "mkstemp", "fdopen", "replace"}
  /\ pc' = "aborted"
  /\ temps' = IF pc \in {"fdopen", "replace"} THEN temps \ {path} ELSE temps
  /\ UNCHANGED document \/ (pc \in {"worker", "replace"} /\ Written)
  /\ UNCHANGED <<mode, i, reports>>

Returned == pc \in {"done", "aborted"} /\ UNCHANGED vars

Iterate ==
  \/ SkipRest \/ Admit \/ Finish \/ RunWorker \/ ParseInProcess
  \/ MakeTemp \/ OpenTemp \/ WriteTemp \/ ReplaceOutput

Next == Iterate \/ Interrupt \/ Returned

Spec == Init /\ [][Next]_vars /\ WF_vars(Iterate)

-----------------------------------------------------------------------------
\* The outputs of the assets in kept, in the order of the loop: of the first n.
OutputsOf(kept) ==
  LET first[n \in 0..Len(Paths)] ==
        IF n = 0 THEN <<>>
        ELSE IF Paths[n] \in kept THEN Append(first[n - 1], OutputName[Paths[n]])
        ELSE first[n - 1]
  IN first
Unreported(p) == ~Contains(failed, p) /\ ~Contains(skipped, p)

\* BatchResult accounts for every asset: when the batch returns, an asset is
\* failed, skipped or successful, never two of them, and the successes are
\* the outputs of the remaining assets in the order of the loop.  A partial
\* asset is one of those that were tried.
EveryAssetAccounted ==
  pc = "done" => /\ success = OutputsOf({p \in Sources : Unreported(p)})[Len(Paths)]
                 /\ IsInjective(failed \o skipped)
                 /\ IsInjective(partial) /\ \A k \in DOMAIN partial : ~Contains(skipped, partial[k])

\* The gate skips a tail: no asset is tried after one that was skipped.
SkippedIsTail ==
  skipped # <<>> =>
    /\ IsSuffix(skipped, Paths)
    /\ Len(success) + Len(failed) + Len(skipped) = Len(Paths)

\* A success whose output name no other asset shares stands on disk.
SuccessStands ==
  pc = "done" => \A p \in Sources :
    Unreported(p) /\ (\A q \in Sources \ {p} : OutputName[q] # OutputName[p])
      => document[OutputName[p]] = p

\* In-process writing is atomic: while every asset of an output name was
\* failed, skipped or not reached, the previous document is still there.  Only
\* an interrupt between the rename and the report of it leaves a document
\* that no list names: that of the asset it interrupted.
InProcessFailureKeepsDocument ==
  mode = "false" => \A o \in Outputs :
    \/ o \in {success[k] : k \in DOMAIN success}
    \/ document[o] = "previous"
    \/ pc = "aborted" /\ o = output /\ document[o] = path

\* Two successes are two documents: no asset overwrites another's output.
NoSilentOverwrite ==
  pc = "done" => \A p \in Sources : Unreported(p) => document[OutputName[p]] = p

BatchEnds == <>(pc \in {"done", "aborted"})
=============================================================================
