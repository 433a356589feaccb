# A TLA+ model of uasset_read

`uasset_read` reads Unreal Engine packages (`.uasset`, `.umap`, pak and IoStore
containers) and turns them into a report, an intermediate form, or C++ text.
The specifications here are of two kinds. Some are of the parts that run
beside one another or over time: worker processes that are killed, files that are published and
cleaned up, a process-wide logger shared by threads, a pipeline that must keep
going (or must not) when data is damaged, caches that outlive a read. The others
are of the readers and analyses themselves, as operators over small files,
scripts and graphs: what each reads, refuses and recovers, compared with what a
writer wrote or with a definition of what must come out.

`src/` in this text is the repository root, and paths such as
`batch_worker.py` are relative to `src/src/uasset_read/`.

## 1. Inventory

The parts of the system, the state each keeps, and what makes it correct.
"M" marks a part whose control is modelled (what is left of it, section 7 and the
notes in `PROJECT.json` say), "-" one that is left out.

| | Component | State | Operations | Hard behaviour | Correct when |
|-|-|-|-|-|-|
| M | Isolated batch worker, `batch_worker.py` | four files, a process, a pipe, a thread | `run_isolated_asset`, `_terminate_worker`, `_drain_worker_stderr`, `_asset_worker` | three concurrent actors; kill at any step; partial failure of every file operation | output never half written, answer true, nothing left behind, call returns |
| M | Batch driver, `core/__init__.py` `parse_batch` | three report lists, outputs, temporary files | one iteration per asset, in a worker or in process | failure and interrupt at every step; memory stop; colliding names | every asset accounted for once, report agrees with the disk |
| M | Project logging, `project_logging.py`, `config.py` | module variables under `_state_lock`, `_scope_lock`, handlers of a logger, log files | configure, shut down, sessions, `scoped_project_logging`, `cleanup_project_logs` | threads; state read after the lock; nested sessions; files deleted by others | one handler, logger given back, scope lock never lost; cleanup keeps what it must |
| M | Parse pipeline and result status, `parse_uasset.py`, `parse_stages.py`, `models/status.py`, ... | `ParseResult`, archive, linker, memory monitor | stages in order, `parse_package`, `parse_uasset_with_linker` | every exception at every stage in two modes | resources released, mode respected, status honest |
| M | Package linker, `link/` | object instances, preload cache, export statuses, diagnostics | `link`, `post_load`, `preload`, full names | damaged tables: cycles, indexes that are nowhere; runs behind a closed archive | tree whole, names follow it, nothing lost in silence |
| M | Memory guard and event buffer, `memory_safety.py`, `bounded_events.py` | counters, stack of checkpoints | reserve, checkpoint, rollback, work, append | a refused reservation stays counted | limits kept |
| M | Tagged property reader, `parsers/property_parser.py`, `serializers/property_tags.py` | archive position, counters, property list | tag loop, recovery scan, error handler; both layouts of a tag | damaged data; sizes that lie | progress, bounded work, values apart, strict mode stops |
| M | Unversioned schema, `mappings.py`, `parsers/usmap.py`, the mapped part of the property parser | none | usmap and jmap files, lookup, header and values of an export without tags | two readers of one format; sizes guessed ahead; structs that extend each other | a mapping reads back; no slot twice; no byte unread |
| M | Property value types, `parsers/property_types.py` | archive position, depth | one reader for each type | nesting, counts, fast paths | a container reads back whole |
| M | Class handlers and skips, `parsers/class_registry.py`, ... | list and cache of handlers | register, find, reset | stale answers | the cache answers as the list would |
| M | Archive, `archive.py` | position | reads, seeks, strings, names | strings seek ahead of what is checked | no operation leaves the file |
| M | Package serializers, `serializers/package_summary.py`, `object_resources.py`, `versioning.py` | cache of versions | summary, tables, index resolution | fields by version; counts from the file | an accepted header bounds its tables; resolvers agree |
| M | Graph serializers, `serializers/graph*.py` | archive position | pins, nodes, graphs | counts recovered by trying | a graph comes back; a look ahead is given back |
| M | Kismet bytecode, `kismet/bytecode_extractor.py`, `bpgc_bytecode.py`, `archive.py`, `expressions/` | module-level cache, retry count; position, depth | fallback, scan, expressions | stale cache across packages; cut-off scan | a function gets its own bytecode, read whole |
| M | Kismet control flow and bodies, `kismet/cfg/`, `jump_analyzer.py`, `structured_flow.py`, `body_builder.py` | block graph | dominators, loops, patterns, bodies | irreducible graphs, shared targets | dominance as defined; no statement lost or doubled |
| M | Blueprint graph analysis, `graph/` | visited sets | exec flows, chains, data sources, macros | cycles, step limits, equal identifiers | follows the links, ends, marks what it cut |
| M | Pak and IoStore containers, `pak/`, `iostore/` | open files, indexes | open, lookup, block reads | partial open, hash fallback, limits | handles released, what is found is what was asked, content whole |
| M | Package and provider, `package.py`, `providers.py` | directory cache, open segments | list, find, open a bundle, read across segments | stale cache; files that go meanwhile | listing of the present root; the seam is invisible |
| - | Blueprint extraction and IR, `blueprint/`, `ir_builder.py` | none | transformation of parsed objects | none of their own | section 7 |
| - | C++ generation, renderers | none | formatting | wording | section 7 |
| - | Command line, `_compat.py`, debug helpers | none | argument parsing, re-exports | none | section 7 |

How they interact: `parse_batch` (driver) calls `run_isolated_asset` for an
isolated asset or `parse_single` in process; the worker process itself calls
`parse_single`. Both end in `_parse_package_core` (pipeline), which creates the
archive and the linker, and per export calls the linker's `preload`, which runs
the property reader; that reads tags, or a header by a mapping, and one value
after the other through the type readers. Packages come from the file system or out of a pak
or IoStore container. For a Blueprint the graph serializers read the nodes, the
graph analysis follows their links, and the bytecode of each function is extracted, decoded,
cut into blocks and written as a body. All of them log through the one package logger that
project logging configures; a `log_config` argument opens a session around a
public call while the call's body may configure logging again. The pipeline's
result is reduced to a status, which the driver uses to decide whether an asset
failed. `PROJECT.json` lists every component with its files, and under
"hazards" every place where this can go wrong and a test would hardly get.

## 2. Modules

Specifications with a behaviour of their own:

    AtomicPublish          what a caller may rely on: a document replaced whole or not at all
      ^ refined by
    BatchWorker            one supervised call: parent, worker, drain thread, four files
      ^ proofs             BatchWorker_proofs        TLC: BatchWorker
    BatchDriver            the batch loop; an isolated asset is one AtomicPublish step
      ^ proofs             BatchDriver_proofs        TLC: MCBatchDriver
    ProjectLogging         the shared logger under threads
      ^ proofs             LoopAndLogging_proofs     TLC: ProjectLogging
    ParsePipeline          one parse: stages, exceptions, linker preload, status
      ^ proofs             ParsePipeline_proofs      TLC: ParsePipeline
    PropertyLoop           one export's tagged properties
      ^ proofs             LoopAndLogging_proofs     TLC: MCPropertyLoop

    Sessions               what outlives a read in one process; extends
                           BytecodeCache and instantiates the next four
      BytecodeCache          the fallback table over a sequence of parses
      ResourceGuards         event buffer and resource budget
      HandlerRegistry        class handlers and their cache
      FileListCache          the list of packages and its cache
      LogCleanup             deleting logs beside another process
      ^ proofs             Sessions_proofs           TLC: MCSessions

`DataInduction` holds the facts on numbers, finite sets and sums that the proofs
share.

Readers and analyses, as operators without a state; TLC: `MCAssets`, which
extends `MCSchema` and `MCBlueprint`. Both extend `ReaderCases`, the part that is
proved about (`ReaderCases_proofs`, and for IoStore and the bodies of functions
`ContainersAndBodies_proofs`, which extends it):

| Module | Models | Instantiated in |
|-|-|-|
| `Archive` | reads, seeks, strings in three encodings, names and their recovery, arrays | `ReaderCases` |
| `PackageTables` | the summary in every version, places of tables, depends map, exports, index resolution, cache of versions | `ReaderCases` |
| `PropertyTags` | both layouts of a tag, the tree of type names | `MCAssets` |
| `PakFile`, extends `Codec` | trailer, entries, index, paths, extraction; what the containers share | `ReaderCases` |
| `PackageFiles` | a package of two segments, bundles, both providers' lookup | `ReaderCases` |
| `IoStore`, extends `Codec` | opening, lookup by hash, ranges over blocks and partitions, directory index | `ReaderCases` |
| `Mappings` | usmap byte by byte, the JSON form, lookup | `MCSchema` |
| `PropertyValues`, extended by `Unversioned` | the value of each type; exports without tags | `MCSchema` |
| `ObjectGraph` | the linker's objects: outers, full names, dependencies, diagnostics | `ReaderCases` |
| `KismetCFG`, extended by `KismetBodies` | blocks, dominators, regions; patterns and function bodies | `ReaderCases` |
| `KismetBytecode` | operands of every opcode, limits, scan, cooked buffers | `MCBlueprint` |
| `GraphPins`, extended by `GraphNodes` | pins and what is recovered; nodes and graphs | `MCBlueprint` |
| `GraphFlow` | edges, flows, chains, data sources, macros | `MCBlueprint` |

The modules fit together by what each takes as a choice from the one below it.
`BatchDriver` takes from `BatchWorker` what `AtomicPublish` allows: a success
has replaced the document, a failure may or may not have. `ParsePipeline` takes
from the property reader that an export is read, is read in part, or raises
one of the exceptions `PropertyLoop` can end with. `PropertyLoop` takes from the
value readers that a value ends somewhere or raises, which `PropertyValues`
works out by type; `Unversioned` calls those same readers under a mapping, whose
lookup `MCSchema` takes from `Mappings`. `GraphNodes` reads tags over the same words as
`GraphPins`; `KismetBodies` writes bodies for the blocks of `KismetCFG`.

Definitions whose comment begins with "Variant" are the nearby mistakes that
each property was tried against (a dropped check, a missing kill, a swapped
order); no specification uses them.

### BatchWorker and AtomicPublish

State: where the parent is (`pc`, and `resume` for the return address of
`_terminate_worker`), the variable `process`, the outcome being returned, the
deadline; the four files with the contents a reader can tell apart (`none`,
`empty`, `part`, whole); where the worker is, the last signal, the lines it has
yet to log, the pipe, the drain thread. One action per system call that
another actor can observe, since a kill or a failure can come between any two:

| Action | Code |
|-|-|
| `ReserveRequest`, `ReserveResult`, `DropResult`, `WriteRequest` | the part of `run_isolated_asset` before its `try` |
| `Spawn` | `Popen` and the adapter that starts the drain thread |
| `PollAlive`, `CheckLimits`, `CollectResult` | the monitor loop and `_ResultFile.get` |
| `SendTerm`, `JoinTerminated`, `JoinKilled` | `_terminate_worker` |
| `EnsureDead`, `DropTemp`, `DropRequest`, `RemoveResult` | the `finally` block |
| `ReadRequest`, `LogLine`, `Parse`, `OpenTemp`, `WriteTemp`, `ReplaceOutput`, `TidyTemp`, `OpenResult`, `WriteResult`, `Exit` | the worker's `main` and `_asset_worker` |
| `DrainLine`, `DrainEnds` | `_drain_loop` |
| `Interrupted`, `Dies`, `Deadline` | the environment |

`Faults` names the failures an instance admits. Three of them take the worker or
a file out of the parent's hands (the drain thread cannot start, the worker
outlives SIGKILL by five seconds, an unlink fails); `mishaps` remembers that
they happened, and the cleanup properties say what still holds then. A worker
whose drain thread could not start is abandoned alive, and blocks once the pipe is
full: the interpreter keeps the `Popen` of a running child and its end of the pipe.

### BatchDriver

State: the isolation mode, the index, the three lists of `BatchResult` plus the
partial ones, the source of each output document, and the temporary files. The
actions are the memory gate (`SkipRest`, `Admit`), the isolated asset
(`RunWorker`), the in-process steps (`ParseInProcess`, `MakeTemp`, `OpenTemp`,
`WriteTemp`, `ReplaceOutput`) and `Interrupt`. A
failing step goes to the `except` clause that the code has there. An interrupt at
`ReplaceOutput` may come before the rename or between the rename and the entry in
the report.

### ProjectLogging

State: the module variables (`configured`, `disabled`, `original`), the
attached handlers, the logger's level and propagation as "found" or "ours", the
holder of `_scope_lock`, and for each thread the step of its call. What
runs under `_state_lock` is one step; the read of `_configured_run_id` after it
is released (`OpenSession`, `ReadRun`) is another. A second session is refused,
so no step waits.

### ParsePipeline

State: entry point and mode, the strategy and extent of each export, the stage
(`Configure`, the log and the arguments, before the first of the core),
the exception under way, archive, linker, what preload cached and read, the
export statuses, the kinds of recorded errors and `is_success`. Actions are
the stages in the order of `_parse_package_core`; each may raise every exception
its `except` clauses distinguish, and goes where the code goes then.

### PropertyLoop

State: the archive position, the iteration count, the extents of the values
read, the damaged places. The bytes are not a variable: a tag read at a
place is a choice among everything bytes can say there, and no place is read
twice (`Forward`), so a behaviour is a reading of some file. Lengths are in
units of one name (8 bytes); `serial_offset` is 0. One action per way an
iteration can go: `ReadNone`, `TornTag`, `SizeExceeded`, `ValueOverruns`,
`ReadValue`, `ValueRaises`, `UnexpectedError`, and the loop's ends.

### The readers of MCAssets

A reader is an operator from a file and a position to `[at, err, ...]`: the
position it leaves, whether it raised, and what it made. Files are sequences of
the smallest unit that the properties tell apart: bytes in a small base in
`Archive`, bytes in `Mappings`, words elsewhere (a name, a number of up to 32 bits and a
character are a word each), cells in `KismetBytecode` (a token or a field).
Position and error are what later reads depend on; the objects that the code
makes of the data are kept as far as a property looks at them.

Two kinds of properties are asked. What a writer of the format writes is read
back, at every width, version and option (`MappingsReadBack`, `ExportReadsBack`,
`PackedEntryReturns`, ...). And on arbitrary input, whatever comes out
satisfies what the callers rely on: the position stays in the file, no slot is
taken twice, a chunk found is the one asked for, strict and tolerant mode differ only where
strict mode raises. The writers are written from the format that the readers' source
describes and are used in properties only.

### Unversioned, Mappings and ObjectGraph

`Mappings` has the two readers of usmap files, which agree except on which of
two enumerations of a name is kept (`FirstNamed` for `UsmapParser`, `LastNamed` for
`UsmapData`), and the struct forms of both JSON readers, which do not agree:
`UsmapData._load_jmap` gives an array one slot, and fills in nothing that is
missing. `Unversioned` follows `parse_properties_from_export` from the control
byte to the opaque tail: `Header` is `_try_read_unversioned_header` with its
retreat, `OrderedProperties` the inherited order, `Size` and `Estimate` the
sizes that are guessed, `ReadValues` the loop. The packing of a header (seven
bits, one bit, eight bits) is the one in the code. `ObjectGraph` has what
`link` and `post_load` make of the tables, with every diagnostic they record
and in that order.

### The parts of Sessions

`BytecodeCache` runs a sequence of parses in one process: `Begin` a parse, then for each
function in turn `FunctionExport`, `Refused`, `CacheHit`, `Extract` or `Fail`. The
table and the retry counter are module variables that `Begin` resets.
`ResourceGuards` has `BoundedEventBuffer.append`/`clear` and `ResourceBudget`'s
four operations, with a ghost sequence of what was granted. `FileListCache`
takes the time of the root before it scans (`ListFiles`, `ScanRoot`,
`ScanBelow`, `Store`) while the disk changes; a change may leave the root's time as it
is, when the clock of the file system has not moved since the last one, and a history
variable, `sameTick`, holds what changed like that. `LogCleanup` is one call of
`cleanup_project_logs`, one step for each round of questions to the disk, while another
process creates and deletes logs, and a deletion may be refused. The five share no variable; a step of `Sessions` is
a step of one of them.

## 3. Runs

| Run | Instance and bounds | States | Shows |
|-|-|-|-|
| `worker` | one call; pipe of 1 line, up to 2 lines logged; every fault | 36 539 | `OutputWhole`, `AnswerMatchesOutput`, `NothingLeftBehind`, `QuietAfterReturn`, `Return`; refines `AtomicPublish` (`Publishes`) |
| `worker_drain` | pipe of 1, up to 3 lines; every fault but the two that leave the pipe without a reader ("thread", "drain") | 12 548 | `DrainKeepsWorkerMoving`: the thread alone prevents the pipe-full deadlock |
| `worker_options` | no faults, three kinds of options | violation | `OptionsReachWorker`: finding 1 |
| `batch` | 4 assets at 20, 50, 51 and 101 MB (edges of the tiers), two sharing a file name; 3 modes; every failure | 8 273 | `EveryAssetAccounted`, `SkippedIsTail`, `SuccessStands`, `InProcessFailureKeepsDocument`, `BatchEnds` |
| `batch_names` | the same, nothing fails | violation | `NoSilentOverwrite`: finding 2 |
| `logging` | 2 threads, 2 calls each, every configuration, body and failure | 431 038 | `HandlerIsConfigured`, `LoggerRestored`, `ScopeHeld`, `ScopeProtectsLog`, `ScopeFreed` |
| `pipeline` | 2 exports of every strategy and extent, 3 entry points, 2 modes, every exception | 273 096 | `ResourcesReleased`, `ModeKept`, `HonestStatus`, `PreloadAddsNothing` |
| `properties` | file of 8 units; export ending at 5, 8 or 9; sizes -1..6; at most 6 iterations | 73 662 | `BoundedWork`, `ValuesPlaced`, `StrictStops`, `Forward` |
| `assets` | one case after the other, 27 parts (below) | 481 178 | ten properties, one for each thing a reader or an analysis owes |
| `sessions` | 2 assets of 3 functions, 2 retries; buffer of 3, budget of 3; 2 handlers, 3 classes; 2 packages, 3 ticks of the root's time; 4 logs in 3 families | 375 552 | `OwnBytecode`, `RetriesBounded`, `LimitsHold`, `CachesAreCurrent`, `CleanupIsSafe` |
| `old_maps` | a map's tag in the layout before UE 5.4 | violation | `OldMapTypesAreUsed`: finding 3 |
| `macro_links` | the macros' inner nodes of `assets`, with links as the reader writes them | violation | `TunnelsHaveFlows`: finding 4 |

The properties of `assets`, by what they look at:

| Property | Cases |
|-|-|
| `ReadsStayInside` | every file of up to four digits, both byte orders and modes |
| `HeaderIsGuarded` | six versions of the summary with one odd field and every room; depends maps; exports; version lists; object graphs of up to two imports and exports with every outer, super, template, offset and dependency; hashed paths |
| `PackagesAreWhole` | bit fields of pak entries; trailers of twelve versions; paths; indexes; entries of up to two blocks; two segments that may have shrunk; bundles with files gone; names to find |
| `PropertiesAreRead` | type trees of depth three in both layouts of a tag; containers of two entries of every type; structs over up to four words; exports without tags of three properties in two classes, written and arbitrary; mappings in five formats; lookup over three structs that extend each other in every way |
| `ChunksAreWhole` | hash tables of two chunks with every seed; directory indexes of up to three directories and two files, with cycles and shared chains; ranges over two blocks and two partitions; openings that fail |
| `FlowGraph`, `BodiesAreSound` | every script of up to three statements; of four, those of jumps, conditional jumps and ends |
| `BytecodeIsRead` | an expression of each kind of operands over four cells; code of five cells to search; cooked buffers of five |
| `GraphsComeBack` | pins of every kind; words where a count was expected; packages of three exports; nodes of two tags |
| `FlowFollowsLinks` | graphs of three nodes with their links, equal identifiers included; macros that call each other; the flow inside a macro, cut at 2 nodes; walks at their limits |

Why these bounds are enough to mean something. In `worker`, a pipe of one
line blocks on the second, so both sides of the pipe are reached, and a single
call is the unit the code runs (calls of one batch are sequential and share no
file: names carry random parts and process ids). In `batch`, the failing step, the stop
and the collision may fall on the first, a middle or the last asset, and every
tier and both sides of the 50 MB test occur. In `logging`, two calls per thread let one
thread's session, plain call or shutdown fall anywhere inside another's, and let a
failed configuration be followed by another. In `pipeline`, two exports
are enough for one that fails beside one that does not, in either order. In
`properties`, the limit of 6 iterations is below what 8 units can hold, so it can
bind if progress fails; the export ends before, with and (unchecked on the path
without a linker) behind the file. In `assets`, every limit of the code is a
constant that the inputs reach and pass (counts of 2 against 3 entries, depths of
1 against 2, strings of 2 to 4; `MIN_UASSET_SIZE`, which only refuses more, is left out), and the inputs are the smallest on which two things of a
kind meet: two properties that overlap, two blocks with a seam, two chunks in one bucket,
three structs in a cycle, two jumps back into one
another's loops (four statements, the fewest on which the iteration over dominators needs its
second round). A case is independent of the others, so there is no
longer behaviour to miss. In `sessions`, two parses may follow one another with a
third function behind each way the first two can end, and every step of a scan or
of a cleanup may meet a change of the disk. What is proved (section 6) does not depend on
any of these bounds.

Deadlock is checked in the runs of `BatchWorker` to `PropertyLoop`. Calls that
have ended stutter explicitly (`Settled`, `Returned`, `Finished`, `Ended`,
`Halted`), so a deadlock would be a state in which the code has no way on.
The three `Assets*.cfg` and `Sessions.cfg` turn it off: a behaviour of `MCAssets` is one case and
stops, and the parts of `Sessions` stop at the bounds of their counters.

## 4. Fairness

* `ParentFairness` (`worker`): the parent's thread is scheduled, its clock runs,
  and a process that was sent a signal dies, unless the instance admits
  "stubborn". Nothing is assumed of the worker, which may hang in a parser, nor of
  the drain thread. The code's deadline and its bounded joins are what make
  `Return` true.
* `WorkerFairness` (`worker_drain`): the opposite assumption. The worker keeps
  running when it can and the drain thread is scheduled; neither the deadline nor
  the parent helps. It isolates what the drain thread is for.
* `BatchDriver`: the loop is sequential code, so `WF(Iterate)`.
* `ProjectLogging`: `WF(Proceed(t))` for each thread inside a call. No step
  waits for another thread: the scope lock is tried without blocking, and the
  state lock is held for one step.
* `ParsePipeline` and `PropertyLoop` claim safety only; `BoundedWork` is the
  safety form of the loop's termination.

One timing assumption is built into `JoinKilled`: without "stubborn", a process that
was sent SIGKILL is gone within the five seconds the code waits.

## 5. Findings

Each is a run that TLC refutes; the full text is in `PROJECT.json`.

1. `parse_batch(parse_config=...)` in the default isolated mode fails every
   asset before a worker starts: the `ParseConfig` cannot be encoded as JSON
   (`batch_worker.py:383`), and the reserved request file stays.
2. Two assets with one file name in different directories overwrite each
   other's output, and both are reported as successes (`core/__init__.py:471`).
3. In the layout of tags before UE 5.4 the key and value type of a map are read
   but stored where the reader of the value does not look; every such map is
   read as integers to integers (`serializers/property_tags.py:317`).
4. The flow inside a macro looks its links up under `pin_id`; the links that the
   graph reader makes have `pin_guid` (`graph/macro_expander.py:479`,
   `serializers/graph_pin.py:159`). On graphs read from a package it is always
   empty. `FlowFollowsLinks` says what it is on links given as strings, as the tests do.

Met on the way and kept in the models as the code has it, without a run of
their own:

* Entry points. The README says no log file is made without a `LogConfig`;
  `parse_package` makes one (`parse_uasset.py:249`). A log session given
  explicitly is replaced when its body calls `parse_package`, and
  `LogConfig(enabled=False)` is undone by `parse_batch`. A log directory that cannot be
  written raises out of a tolerant `parse_package` before the parse begins. A reconfiguration that
  fails after the old handlers are gone leaves the configured path without one
  (`project_logging.py:418`). `older_than_days` may delete the newest log and the one
  that another process writes.
* Batch. When an in-process write fails, the closed descriptor is closed once more, which
  raises before the temporary file is unlinked: the file stays (`WriteTemp` keeps it in
  `temps`), and an interrupt there counts as the failure of one asset (`core/__init__.py:544`).
* Pipeline. `preload_all` runs behind the closed archive and reads nothing; an
  export that lies outside the file counts as a success; the checkpoint of
  `MemoryMonitor.__exit__` can discard a finished result.
* Tagged properties. A damaged tag whose value would end behind the file ends
  the parse in tolerant mode: the seek inside the error handler raises
  (`parsers/property_parser.py:689`). The limit on properties is tested before
  the end of the data (`:754`). Arrays of bools, structs or arrays read nothing of
  their elements; an optional begins its depth again at 0; Box, Matrix and TwoVectors are
  accepted in double size and read as floats.
* Exports without tags. A bool has a size and reads nothing, an enumeration
  reads a name whatever its type, and a container of elements without a fixed size that is not
  last gets size 0, so what follows is shifted. The count that an estimate looks at may lie
  behind the end of the file, and that `ParseError` is not caught in tolerant mode
  (`:1249`). The offset of the tail is wrong when the file ends before the export.
  The two readers of mappings differ on enumerations of one name and on arrays in
  the JSON form.
* Linker. Property and weak references are looked for in dicts that no reader
  makes, so none is resolved (`link/linker.py:458-511`). A dependency that is nowhere is
  reported twice, and no such report says which object had the index.
* Headers and archive. `read_depends_map` does not find its place again behind a
  refused count; an export map's `except` omits `ParseError`
  (`serializers/object_resources.py:328`); a string with a leading null may seek to the end of the
  file (`archive.py:784`); the recovery of names shifts a valid index (`:944`).
* Graphs. An event node reads a bool behind its tags; the recovery of a count of
  links and of a count of pins stop at different limits (`serializers/graph_pin.py:386`, `:585`);
  a cycle in a chain is not reported (`graph/chain_builder.py:109`); macros that call
  each other end the flows of their graph, since `MacroCycleError` is not among what
  `_try_expand_macro` catches (`graph/flow_builder.py:511`).
* Kismet. `_emit_structured` may not end when a region's pushed address lies
  before it; nested patterns may leave a brace open (`kismet/body_builder.py:6` says so
  itself); tolerant decompilation lets other exceptions out (`kismet/pipeline.py:81`). The
  tests for a jump take its subclasses in, so a conditional jump or a skip to a condition
  passes for the end of a loop (`kismet/jump_analyzer.py:550`).
* Containers. The positions of a pak entry's compressed blocks are taken as absolute in every
  version (`pak/structures.py:177-182` stores them as read, `pak/decompress.py:339` seeks to
  them), while the table of versions says that they are relative from version 5 on
  (`pak/constants.py:60`) and the docstring of the block that they are made absolute after
  parsing, below version 5 by adding the entry's place (`pak/structures.py:106-107`). The two
  texts do not agree on the side of version 5, and the code follows neither. What
  `PackagesAreWhole` says of an entry (`EntryIsWhole`) is therefore a statement about files whose
  blocks are stored absolute, and none about whether a file of version 5 stores them so.
  `is_deleted` is never set; an absolute mount point lists entries
  that are never found; a short last block is refused; IoStore's docstring on data
  without decompression (`iostore/reader.py:413`) is not what `:447-461` does; the partition
  is chosen by the chunk's place in the uncompressed content before the blocks are looked
  at (`:427-434`), so that a chunk whose compressed blocks are all there is refused with an
  `IndexError` when that place lies past the partitions (`ChunksAreTheContent` says so); a
  failing `open` leaves its files open when the exception is a `ParseError`;
  `PackageBundle.open_archive` leaves the main file open when the second is gone.
* Caches. The list of packages does not see what changes below the root, nor a change of the
  root in the same tick of the file system's clock as the one whose time it keeps (`package.py:283`); a
  refused reservation stays counted until a rollback.

## 6. Proofs

Six specifications, the parts of `Sessions` counted as one, and the readers of the archive,
the header, the linker, pak and IoStore have machine-checked proofs, for every value of the constants that
satisfies the named assumptions. The specifications' have the same shape: an inductive
invariant, a lemma per group of actions that it is preserved, and one theorem per
property, each a few lines from the invariant. The readers have no
behaviour; their theorems are about every case.

**BatchWorker_proofs**, from `WorkerAssumption` only. The invariant is
`WorkerInv == TypeOK /\ SpawnOnce /\ VerdictIsOutput /\ CleanInOrder`.
`AnswerMatchesOutput` is not inductive: it speaks of the moment of the answer,
when the reason for it lies steps back in another process. `SpawnOnce` ties the
worker's existence to the parent's progress (no worker before `Spawn`; after it the
parent holds the process, unless a mishap took it); `VerdictIsOutput` says the
worker's verdict, once set, is final, is what the result file holds, and is "ok"
exactly when the document was replaced, by a temp file that was whole;
`CleanInOrder` says which files are gone at each step of the `finally` block and
that the worker is dead by then, without which a late publication could undo the
cleanup. From it: `TypeCorrect`, `NeverHalfWritten`, `AnswerIsTrue`,
`NothingLeft`, `NoLateChange`, and `Implements`, the refinement of
`AtomicPublish`: initial states map to initial states, each step to a step or a
stutter.

**LoopAndLogging_proofs**, the loop, from `PropertyAssumption` only. The invariant is
`LoopInv == TypeOK /\ BoundedWork /\ ValuesPlaced /\ ValuesBehind /\ StrictStops /\ Fresh`.
`ValuesPlaced` is not inductive: recovery resumes in the middle of data that was
given up, and only because no recorded value reaches beyond the archive's position
(`ValuesBehind`) does the next one not overlap. The lemma `Iteration` carries the
argument: an iteration that goes on moves the archive ahead, and either records a
value that begins at or behind the old position and ends at the new one, or
records none. From it: `LoopTypeCorrect`, `WorkIsBounded` (an export of n units
takes at most n + 1 iterations), `ValuesArePlaced`, `StrictModeStops` and
`AlwaysForward`.

**LoopAndLogging_proofs**, the log, from `LoggingAssumption` only: any number of threads
and calls. The invariant is `LoggingInv`: the shared variables satisfy their three
properties (`SharedOK`), and the scope lock is held by `t` exactly when `t`'s call
is inside a session (`CallsOK`). Two lemmas carry it. `Configured`: whatever a
configuration does, failures included, `SharedOK` holds after it, because the
state lock makes it one step. `OneThread`: a step changes the record of one thread
only, so the lock's meaning for the others stands if the stepping thread neither
takes nor drops what another holds. `ScopeHeld` alone is not inductive: it needs
`Fine`, which says that a session is only ever entered with a `log_config` (the
step that releases the lock looks at that, not at who took it) and that only a
batch asks for a run of its own. From it: `TypeCorrect`, `OneHandler`,
`SilentWhenDisabled`, `LoggerGivenBack`, `LockIsHeld` and `SessionIsProtected`.

**ParsePipeline_proofs**, from `PipelineAssumption` only: any number of exports,
strategies and failures. The invariant
`PipelineInv == TypeOK /\ Opened /\ Linked /\ Thrown /\ Noted /\ Accounted` follows the
stages: the archive is open exactly while one may read it; only a linker
caches, and only exports the loop has passed; which exception can be under
way, and what strict mode can have noted without one. `HonestStatus` rests on
`Accounted`: every export the loop has passed is `Told`, that is, its data was
read or its own status says why not. That survives the next export because a
preload changes the status of no export before it (`NextExport`, `StaysTold`),
and success is only ever set where all exports are told. From it: `TypeCorrect`,
`NothingHeld`, `ModeIsKept`, `StatusIsHonest` and `PreloadReadsNothing`. `ModeKept` is a
property of steps: which step lets an exception out tells the core, where tolerant mode
raises for memory only, from what comes before it.

**BatchDriver_proofs**, from `DriverAssumption` only: a batch of any length,
assets that share a name or appear twice included. The invariant
is `BatchInv`: the type invariant, `Counted` (nothing is skipped before the end and each
step adds to exactly one list), `SkippedIsTail`, `InProcessFailureKeepsDocument` and
`Standing`, which says of each asset passed that is not among the failed and shares its
output with no other that its document is on disk. `SuccessStands` speaks of the
end only and is not inductive; `Standing` is what carries it past the later
assets, and it needs that a later write goes to another output. `EveryAssetAccounted`
compares the report with a selection from the inputs; `Accounts` says the same of the
inputs passed so far, with the outputs as a function of their number, and that
function is the library's `SelectSeq` by induction on it. The lemmas on
`Append`, ranges and `SubSeq` are stated once. From it: `TypeCorrect`,
`SuccessesStand`, `TailIsSkippedWhole`, `FailuresKeepDocuments`,
`EveryAssetIsAccounted`.

**DataInduction** is what makes data within reach. Induction there is on a
set of numbers or on the subsets of a finite set instead of on an operator:
a counterexample has a least one (`LeastNatural`, `NaturalsByInduction`,
`MinimalSubset`). From it come functions by recursion, the greatest and least of
a finite set (`Max`, `Min`), and sums over sets and sequences that follow the folds of the
community modules term by term (`SumOver`, `SumOfParts`, `SumIsMonotone`).

**Sessions_proofs**, from `SessionsAssumption` and `CacheAssumption` only: any
assets, functions, handlers, packages, logs and sizes. `SessionsInv` is one
invariant for each part, and a step of one part leaves the variables of the
others alone.

* `CacheInv`: `OwnBytecode` needs to know of the table what it says of the answers:
  every entry is of the current asset and of the function's name. That rests on
  `TableIsOwn` (what an extraction of some of the functions leaves in the table) and on
  `Begin` emptying it. From it: `CacheIsTyped`, `BytecodeIsOwn`, `RetriesAreBounded`.
* `GuardsInv`: the bytes of the buffer are the sum of its entries, and what
  was granted, the ghost sequence, sums to no more than the total that the code compares
  with the limit. A refused reservation stays counted, so it is "no more", and a
  rollback to a checkpoint must find both together (`Granted`). From it: `LimitsAlwaysHold`.
* `RegistryInv` is `CachedIsCurrent`: registering empties the cache. `ListInv` adds to
  `RootIsCurrent` that a scan under way whose time is still the root's has seen
  the root as it is, but for what came or went within the tick of that time (`sameTick`).
  That is the half which `Store` hands on, and it holds because the
  time is read before the files. From both: `CachesStayCurrent`.
* `CleanupInv`: nothing is removed before the step that unlinks, what is selected or
  planned is never of the active family, what is removed is older than what is still
  planned, and the files of the families that are not selected fit
  the limit of bytes once the last option has chosen. The last is about sums over sets of
  files that another process changes meanwhile. From it: `CleanupStaysSafe`.

**ReaderCases_proofs**, from `ArchiveAssumption`, `PakAssumption` and `HeaderAssumption` only: a file
of any length, bytes in any base, words of any width, limits of any size.

* The archive (`ReadsAlwaysStayInside`, `RefusedReadsStay`). `ReadMoves` says that a
  read is refused and stays, or ends where it says; every other operation is a chain
  of such reads and seeks, and its lemma says which steps may go outside of what is
  read (a string with a leading null, a name that is recovered) and where they come back.
* The pak container (`PaksStayWhole`) over every case whose fields are of the kinds
  that the source has: numbers that are not negative, sequences of numbers, a version
  from 1 on. `IsPackageCase` states this; every case of the run `assets`
  satisfies it. A packed entry comes back because each word that was written is
  taken by the field that wrote it (the two widths, the reserved index, the sizes of
  blocks that are derived). An entry of several blocks is the concatenation of
  its blocks (`Joined`, a recursive function over their number), and its length
  their sum, or it is refused.
* The files of a package (`PackagesStayWhole`). A read that crosses the seam is the end
  of the first file and the front of the second, which is a slice of both one behind the
  other (`Slice` lemmas); a short piece is refused whichever side it is on.
* The header of a package and the objects of the linker (`HeaderStaysGuarded`) over
  every case whose fields are of the source's kinds (`IsHeaderCase`; every case of the run
  `assets` satisfies it): versions and counts of any value, tables, lists of
  dependencies, cached versions and graphs of any length. The summary is read field by
  field, so each part is a recursive function over the number of fields read: what the
  guards demand is collected on the way, and a longer file changes no step that the
  shorter one took. The map of dependencies, the list of imports and the cache of
  versions go the same way.
* The names of objects are the hard part, since outers may form cycles. `FullName` is a
  function of the set of objects visited; that there is one is shown by the number of
  objects not visited yet. From an object the outers are climbed as long as they are
  distinct (`LongestClimb`, no longer than there are objects). If the climb ends at no
  outer, the name is that of the climb whatever was visited elsewhere, hence an outer's
  name is the object's without the last part; if it meets itself, the name is
  circular and counts each object that was passed once. The tree of outers and the
  reports are what a list has of a set (`Only`), one list behind the other (`Joined`).

Each leaf of a proof sees all that the instantiated modules extend, and `SequencesExt`
brings in the bags. `Archive`, `PackageFiles`, `PackageTables` and `ObjectGraph` therefore
extend `FiniteSetsExt` only and write out the one operator they need of it (`EndsWith`,
`Joined`), which halves the time of the proofs. `Codec` does the same for both containers, and `KismetCFG`
(`ToSet`) with `KismetBodies` (`Joined`).

**ContainersAndBodies_proofs**, the container (`ContainersStayWhole`), from the assumptions above and
`StoreAssumption`: whatever the hash's exclusive or is (`BitXor`, of which only the range is
assumed; the run gives it the bits'), tables, indexes, partitions and blocks of any number.
`IsContainerCase` says that the fields of a case are of the source's kinds, and every case of
the run `assets` satisfies it. A loop of the code is a recursive function of its rounds. That
there is one follows from `RecursiveFunction`; an invariant of it is a set of pairs of a round
and a state (`LoopInvariant`). The lemmas on loops, on opening and on finding stand at the end of
`ReaderCases_proofs`, which keeps the two modules of a size.

* Opening: the least section that is refused decides. What is needed up to a section only grows
  (`Needed`), so if the last one fits, each does.
* Finding: a hash is within the modulus, so a seed leads to a slot of the table; the slot is
  compared, and the fallback compares by construction.
* Ranges (`RangeIsRead`): after a partition or a block, what was read is the content from the
  offset on and what is left is the rest of the length, and the next one begins where the last
  ended, because all but the last are full. That uncompressed blocks can be read
  without their block rests on `InPlace`; that units of the cipher are whole, on `WellFormed`,
  where the size of a partition is a multiple of the unit, as each in the run is.
* The directory index (`TreeIsListed`): the list is that of the places entered, each of which can be
  reached, and what follows a place entered was entered or is on the stack (`Entered`); when
  the stack is empty the places are closed, hence all. It is empty after 2n + 1 rounds because each
  takes a call from the stack, and adds two only for a directory that was not entered (`Shrinks`). `Places` and `Chain` close a relation
  in as many steps as there are entries, which is enough because each step that is not the
  last adds one (`GrowthIsClosure`). On a tree nothing is refused: each field that names an entry is
  the only one to do so, and each entry passed is named by a field passed (`Owned`, `Findable`), so
  the next field names none of them, and the depth never passes the number of directories
  entered (`InTree`).

**ContainersAndBodies_proofs**, the bodies (`BodiesStaySound`), for a script of any length, of
any statements and any targets within it (`Script`; each script of the run `assets` is one).
No assumption on the constants is used.

* Texts. What a text says is the set of its statements (`Says`). Two texts that say each line
  once and share none, one behind the other, say each line once (`OnceJoined`); so
  do any number of them (`JoinedOnce`), and a line of an earlier one stands before a line of a
  later one (`JoinedFollows`). A statement's own text says at most that statement, and labels
  say none (`TextsOfLines`), so a range says its statements, once and in order (`LinesAreOwn`).
* Patterns. `PatternSpans` says for each kind where its parts lie: inside the span that the
  pattern covers, one behind the other, provided the address that a push saves lies behind
  its pop. That proviso is `PushesAhead`, and the code does not check it; without it
  `_emit_structured` may not end (section 5). A block therefore says lines of its span only, each
  once. What the loop over the statements has said when it is at i lies before i or within the
  block it skips, and so the next text shares no line with it: an invariant of the loop.
* Regions. They begin outside of each other's spans, so the statement behind one is a
  start or has no region, and each turn of the emitter moves ahead: as many turns as there are
  statements are enough, and what was said lies behind.
* The walk of the graph. The recursion of `DepthFirst` is a function of the depth and a block. By
  induction on the depth, a call that begins with d blocks unseen or fewer
  sees its block and all that its new blocks lead to, sees each block once, and sees nothing outside
  of any closed set that its block lies in (`BlockWalked`). From the entry, with all blocks unseen,
  the blocks seen are a closed set and within every other, hence `Reachable`, which is the same set
  computed level by level. Blocks cover disjoint ranges that end before the next leader, so a
  body says the statements of the reached blocks, each once, a block's own in order.
* The rate. A jump that is counted begins a pattern, which covers it, or has its reason recorded
  (`RateCoversJumps`), or passes for the jump back of a loop. A conditional jump that leads back to
  anything but a condition begins a pattern that ends before it and is none of these; the
  proviso of `RateAccountsForAll` excludes it.

Only model-checked: liveness (`Return`, `DrainKeepsWorkerMoving`, `BatchEnds`,
`ScopeFreed`), which needs fairness and ENABLED and is outside what the proof
system handles; and five properties of `assets`: `PropertiesAreRead`, `BytecodeIsRead`,
`GraphsComeBack` and `FlowFollowsLinks`, whose modules follow data of any depth
with recursive operators, and `FlowGraph`. The modules of the last are free of those; that the
iteration over dominators settles within one round per block is a theorem on
reducible and irreducible graphs that was not attempted.

## 7. What is abstracted or left out

* Contents: documents, requests, results and logs are known by whether they are
  absent, empty, partial or whole, and by whose they are.
* In `PropertyLoop`, the decoders of values are a choice of where they stop or
  what they raise; bool and enum special cases that consume no bytes are left
  out there. What each decoder does is in `PropertyValues`, which leaves out the single
  numbers' conversions.
* `parse_package_lazy` is not in
  `ParsePipeline`; warnings and diagnostics are not, unless they are errors.
* The clock of the file system ticks as it likes in `FileListCache`, and never goes back.
* Log rotation and the repeat filter are not in `ProjectLogging`.
* Compression, hashes and ciphers are libraries: a function of their input, or a
  choice. The memory map of the archive and its hex view are left out.

Not modelled, and why:

* *Blueprint extraction and IR* (`blueprint/`, `ir_builder.py`, `models/ir.py`):
  the largest part, a field-by-field transformation of objects that are already in
  memory into others, section by section, with no state between sections. Its
  correctness is which field goes where, which a test states as well.
* *C++ generation and renderers*: formatting of the intermediate form; the
  properties are about wording. The order of statements in a body, the part that can
  go wrong by structure, is in `KismetBodies`.
* *The fields of class handlers* (`parsers/asset_types`, most node classes):
  fixed sequences of plain reads. What they can do to their callers (return,
  raise, move) is a choice in the callers' models.
* *The contents of the other tables* (gatherable text, thumbnails, soft
  references), *bulk data, `raw.py`, `custom_properties.py`*: counted sequences of
  plain fields, of the same shape as those in `PackageTables`.
* *Command line, `_compat.py`, debug helpers*: argument parsing, re-exports and
  dumps; their calls are those of the modelled entry points.

## 8. Plan

What is left is proof. The candidates, most useful first: dominance in
`KismetCFG` (`FlowGraph`), whose walk and reach the proofs of the bodies already treat; and that
what `PropertyLoop` is told of a value agrees with
`PropertyValues` for the types of fixed width. Of the code, `parse_package_lazy` is the one
entry point of the pipeline that is missing.

## 9. Running

    tlc -workers 2 -config BatchWorker.cfg BatchWorker       # any run of PROJECT.json
    tlapm BatchWorker_proofs.tla   # likewise BatchDriver_, LoopAndLogging_, ParsePipeline_,
                                   # Sessions_, ReaderCases_, ContainersAndBodies_proofs
    tlapm DataInduction.tla
