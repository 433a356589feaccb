---------------------------- MODULE BatchWorker ----------------------------
(***************************************************************************)
(* One call of run_isolated_asset (batch_worker.py): the parent that       *)
(* spawns and supervises a worker process, the worker that parses one      *)
(* asset and publishes the rendered output, the thread that drains the     *)
(* worker's stderr, and the four files they share:                         *)
(*   request   .uasset-worker-*.request.json   parent -> worker            *)
(*   result    .uasset-worker-*.result.json    worker -> parent            *)
(*   temp      .<name>.<pid>.tmp               the output being written    *)
(*   output    <name>.json                     what the batch produces     *)
(* Every step of each process is an action; the environment injects the    *)
(* failures named in Faults, and terminates nothing on its own.            *)
(***************************************************************************)
EXTENDS Naturals

CONSTANTS
  PipeCap,  \* stderr lines the pipe holds before the worker's write blocks
  MaxLog,   \* bound: stderr lines the worker writes while it parses
  Options,  \* kinds of parse option the batch forwards
  Faults    \* failures of the environment this instance admits

OptionKinds == {"plain", "policy", "config"}
FaultKinds ==
  {"protocol",    \* a request or result file cannot be created or written
   "spawn",       \* Popen raises
   "thread",      \* the process starts and the drain thread cannot
   "interrupt",   \* KeyboardInterrupt in the parent, inside its try
   "rss",         \* rss_reader raises (psutil.NoSuchProcess, no backend)
   "unlink",      \* a file cannot be removed (shared open on Windows)
   "drain",       \* reading the stderr pipe raises in the drain thread
   "crash",       \* the worker is killed by something else
   "output",      \* the worker cannot write or replace the output
   "result",      \* the worker cannot write its result
   "stubborn"}    \* the worker outlives SIGKILL by more than 5 s

\* After these the parent cannot stop the worker, or not remove a file.
Mishaps == {"thread", "stubborn", "unlink"}

ASSUME WorkerAssumption ==
  /\ PipeCap \in Nat \ {0}
  /\ MaxLog \in Nat
  /\ Options \subseteq OptionKinds
  /\ Faults \subseteq FaultKinds

VARIABLES
  pc,        \* where run_isolated_asset is
  resume,    \* where _terminate_worker returns to
  process,   \* "held", or "none" while the variable process is None
  pending,   \* the outcome being returned, or "raised" for an exception
  mishaps,   \* history: failures that kept the parent from cleaning up
  elapsed,   \* "over" once it exceeds limits.timeout_seconds
  option,    \* the kind of option this request carries
  request, result, temp, output,  \* the four files
  child,     \* where the worker process is
  verdict,   \* the outcome _asset_worker will write
  signal,    \* the last signal sent to the worker
  toLog,     \* stderr lines the worker has yet to write
  pipe,      \* stderr lines in the pipe
  drain      \* the drain thread

parentVars == <<pc, resume, process, pending, mishaps>>
fileVars == <<request, result, temp, output>>
childVars == <<child, verdict, toLog>>
vars == <<parentVars, elapsed, option, fileVars, childVars, signal, pipe, drain>>

PreTry == {"reserve_request", "reserve_result", "drop_result", "write_request"}
Monitor == {"poll", "limits", "collect"}
Killing == {"terminate", "join", "join_killed"}
Finally == {"ensure_dead", "drop_temp", "drop_request", "remove_result"}
ParentStates == PreTry \cup {"spawn"} \cup Monitor \cup Killing \cup Finally \cup {"done"}

Working == {"boot", "parse", "open", "write", "replace", "tidy", "answer", "finish", "exit"}
ChildStates == {"none", "dead"} \cup Working

Failures == {"fail", "timeout", "memory_limit", "worker_exit"}
Outcomes == {"none", "refused", "raised", "ok"} \cup Failures

TypeOK ==
  /\ pc \in ParentStates
  /\ resume \in {"ensure_dead", "drop_temp"}
  /\ process \in {"none", "held"}
  /\ pending \in Outcomes
  /\ mishaps \subseteq Mishaps
  /\ elapsed \in {"within", "over"}
  /\ option \in Options
  /\ request \in {"none", "empty", "part", "full"}
  /\ result \in {"none", "empty", "part", "ok", "fail"}
  /\ temp \in {"none", "part", "full"}
  /\ output \in {"old", "part", "new"}
  /\ child \in ChildStates
  /\ verdict \in {"none", "ok", "fail"}
  /\ signal \in {"none", "term", "kill"}
  /\ toLog \in 0..MaxLog
  /\ pipe \in 0..PipeCap
  /\ drain \in {"none", "run", "done"}

Init ==
  /\ pc = "reserve_request" /\ resume = "ensure_dead"
  /\ process = "none" /\ pending = "none" /\ mishaps = {}
  /\ elapsed = "within" /\ option \in Options
  /\ request = "none" /\ result = "none" /\ temp = "none" /\ output = "old"
  /\ child = "none" /\ verdict = "none" /\ signal = "none"
  /\ toLog \in 0..MaxLog /\ pipe = 0 /\ drain = "none"

Alive == child \in Working
Held == process = "held"
May(f) == f \in Faults

Moves(where, outcome) ==
  pc' = where /\ pending' = outcome /\ UNCHANGED <<resume, process, mishaps>>
\* The same, with a failure the parent has no answer to.
Blunders(where, outcome, mishap) ==
  /\ May(mishap) /\ mishaps' = mishaps \cup {mishap}
  /\ pc' = where /\ pending' = outcome /\ UNCHANGED <<resume, process>>
Goto(where) == Moves(where, pending)
\* An exception before the try block leaves run_isolated_asset at once;
\* inside it, like a return, it goes through the finally block.
Escapes == Moves("done", "refused")
Returns(outcome) == Moves("ensure_dead", outcome)
Raises == Returns("raised")

\* The OSError of an unlink, which leaves the file.
CannotUnlink(file, where, outcome) ==
  file # "none" /\ Blunders(where, outcome, "unlink")
Quiet == UNCHANGED <<elapsed, option>>
WorkerIdle == UNCHANGED <<childVars, signal, pipe, drain>>

-----------------------------------------------------------------------------
(***************************************************************************)
(* The parent, before its try block: an exception here skips the cleanup.  *)
(***************************************************************************)

\* mkdir, then tempfile.NamedTemporaryFile(delete=False): the file exists.
ReserveRequest ==
  /\ pc = "reserve_request"
  /\ \/ Goto("reserve_result") /\ request' = "empty"
     \/ May("protocol") /\ Escapes /\ UNCHANGED request
  /\ UNCHANGED <<result, temp, output>> /\ Quiet /\ WorkerIdle

\* The result path is reserved by creating it ...
ReserveResult ==
  /\ pc = "reserve_result"
  /\ \/ Goto("drop_result") /\ result' = "empty"
     \/ May("protocol") /\ Escapes /\ UNCHANGED result
  /\ UNCHANGED <<request, temp, output>> /\ Quiet /\ WorkerIdle

\* ... and removed again: the worker creates it anew, and its presence is
\* what _ResultFile.get waits for.
DropResult ==
  /\ pc = "drop_result"
  /\ \/ Goto("write_request") /\ result' = "none"
     \/ CannotUnlink(result, "done", "refused") /\ UNCHANGED result
  /\ UNCHANGED <<request, temp, output>> /\ Quiet /\ WorkerIdle

\* _request_to_payload: only a MemoryPolicy is turned into plain data.
Encodable(kind) == kind \in {"plain", "policy"}

WriteRequest ==
  /\ pc = "write_request"
  /\ \/ Encodable(option) /\ Goto("spawn") /\ request' = "full"
     \/ ~Encodable(option) /\ Escapes /\ UNCHANGED request
     \/ May("protocol") /\ Encodable(option) /\ Escapes /\ request' = "part"
  /\ UNCHANGED <<result, temp, output>> /\ Quiet /\ WorkerIdle

-----------------------------------------------------------------------------
(***************************************************************************)
(* The parent, inside its try block.                                       *)
(***************************************************************************)

\* Popen, then the adapter starts the drain thread.  If the thread cannot
\* start, the worker runs and process is still None.
Spawn ==
  /\ pc = "spawn"
  /\ \/ /\ pc' = "poll" /\ process' = "held" /\ UNCHANGED <<resume, pending, mishaps>>
        /\ child' = "boot" /\ drain' = "run"
     \/ /\ Blunders("ensure_dead", "raised", "thread")
        /\ child' = "boot" /\ UNCHANGED drain
     \/ May("spawn") /\ Raises /\ UNCHANGED <<child, drain>>
  /\ UNCHANGED <<fileVars, verdict, toLog, signal, pipe>> /\ Quiet

\* while process.is_alive(); afterwards process.join(1) and the result.
PollAlive ==
  /\ pc = "poll"
  /\ Goto(IF Alive THEN "limits" ELSE "collect")
  /\ UNCHANGED fileVars /\ Quiet /\ WorkerIdle

\* Variant: only the memory is looked at.
CheckLimitsMemoryOnly ==
  /\ pc = "limits"
  /\ Moves("terminate", "memory_limit") \/ Goto("poll") \/ (May("rss") /\ Raises)
  /\ UNCHANGED fileVars /\ Quiet /\ WorkerIdle

\* The deadline is looked at before the memory; sleep leads back to poll.
\* What the worker did since is_alive() said it ran is not looked at again.
CheckLimits ==
  /\ pc = "limits"
  /\ IF elapsed = "over"
     THEN Moves("terminate", "timeout")
     ELSE \/ Moves("terminate", "memory_limit")
          \/ Goto("poll")
          \/ May("rss") /\ Raises
  /\ UNCHANGED fileVars /\ Quiet /\ WorkerIdle

\* Variant: a result file is there, so the worker must have succeeded.
CollectedAsDone(file) == IF file = "none" THEN "worker_exit" ELSE "ok"

\* What _ResultFile.get makes of the file: a missing one is queue.Empty after
\* a second, one that does not parse raises json.JSONDecodeError.
Collected(file) ==
  CASE file = "none" -> "worker_exit"
    [] file \in {"empty", "part"} -> "raised"
    [] OTHER -> file

CollectResult ==
  /\ pc = "collect"
  /\ Returns(Collected(result))
  /\ UNCHANGED fileVars /\ Quiet /\ WorkerIdle

Interrupted ==
  /\ May("interrupt")
  /\ \/ pc \in Monitor
     \/ pc \in Killing /\ resume = "ensure_dead"
  /\ Raises
  /\ UNCHANGED fileVars /\ Quiet /\ WorkerIdle

-----------------------------------------------------------------------------
(***************************************************************************)
(* _terminate_worker, called by the monitor and by the finally block.      *)
(***************************************************************************)

\* Popen.terminate: a worker that already had SIGKILL is past caring.
SendTerm ==
  /\ pc = "terminate"
  /\ Goto("join")
  /\ signal' = IF Alive /\ signal = "none" THEN "term" ELSE signal
  /\ UNCHANGED <<fileVars, childVars, pipe, drain>> /\ Quiet

\* Variant: SIGTERM is enough, there is no kill().
JoinTerminatedNoKill ==
  /\ pc = "join" /\ Goto(resume)
  /\ UNCHANGED fileVars /\ Quiet /\ WorkerIdle

\* join(5) ends with the process, or after 5 s; then kill() if it is alive.
JoinTerminated ==
  /\ pc = "join"
  /\ IF Alive
     THEN Goto("join_killed") /\ signal' = "kill"
     ELSE Goto(resume) /\ UNCHANGED signal
  /\ UNCHANGED <<fileVars, childVars, pipe, drain>> /\ Quiet

\* A killed process is gone within the 5 s of this join, unless stubborn.
JoinKilled ==
  /\ pc = "join_killed"
  /\ \/ ~Alive /\ Goto(resume)
     \/ Alive /\ Blunders(resume, pending, "stubborn")
  /\ UNCHANGED fileVars /\ Quiet /\ WorkerIdle

-----------------------------------------------------------------------------
(***************************************************************************)
(* The finally block.  An OSError from the temp is swallowed; one from the *)
(* protocol files replaces the outcome and skips what is left to do.       *)
(***************************************************************************)
\* Variant: the finally block trusts the monitor to have ended the worker.
EnsureDeadUnchecked ==
  /\ pc = "ensure_dead" /\ Goto("drop_temp")
  /\ UNCHANGED fileVars /\ Quiet /\ WorkerIdle

EnsureDead ==
  /\ pc = "ensure_dead"
  /\ IF Held /\ Alive
     THEN pc' = "terminate" /\ resume' = "drop_temp" /\ UNCHANGED <<process, pending, mishaps>>
     ELSE Goto("drop_temp")
  /\ UNCHANGED fileVars /\ Quiet /\ WorkerIdle

DropTemp ==
  /\ pc = "drop_temp"
  /\ \/ Goto("drop_request") /\ temp' = IF Held THEN "none" ELSE temp
     \/ Held /\ CannotUnlink(temp, "drop_request", pending) /\ UNCHANGED temp
  /\ UNCHANGED <<request, result, output>> /\ Quiet /\ WorkerIdle

DropRequest ==
  /\ pc = "drop_request"
  /\ \/ Goto("remove_result") /\ request' = "none"
     \/ CannotUnlink(request, "done", "raised") /\ UNCHANGED request
  /\ UNCHANGED <<result, temp, output>> /\ Quiet /\ WorkerIdle

RemoveResult ==
  /\ pc = "remove_result"
  /\ \/ Goto("done") /\ result' = "none"
     \/ CannotUnlink(result, "done", "raised") /\ UNCHANGED result
  /\ UNCHANGED <<request, temp, output>> /\ Quiet /\ WorkerIdle

-----------------------------------------------------------------------------
(***************************************************************************)
(* The worker process: _worker_main and _asset_worker.                     *)
(***************************************************************************)
ParentIdle == UNCHANGED <<parentVars, signal, drain>> /\ Quiet

ChildGoto(from, to) == child = from /\ child' = to

\* The interpreter starts and reads the request; without a whole one it
\* exits with a traceback and no result.
ReadRequest ==
  /\ ChildGoto("boot", IF request = "full" THEN "parse" ELSE "dead")
  /\ UNCHANGED <<fileVars, verdict, toLog, pipe>> /\ ParentIdle

\* Worker logging writes to stderr, and blocks while the pipe is full.  That
\* is so without an adapter too: the interpreter keeps the Popen of a running
\* child, and with it the read end of the pipe, which nobody then drains.
LogLine ==
  /\ child = "parse" /\ toLog > 0 /\ pipe < PipeCap
  /\ toLog' = toLog - 1 /\ pipe' = pipe + 1
  /\ UNCHANGED <<child, verdict, fileVars>> /\ ParentIdle

\* parse_single renders the asset, or raises: except BaseException.
Parse ==
  /\ toLog = 0
  /\ \/ ChildGoto("parse", "open") /\ UNCHANGED verdict
     \/ ChildGoto("parse", "tidy") /\ verdict' = "fail"
  /\ UNCHANGED <<fileVars, toLog, pipe>> /\ ParentIdle

\* temporary_path.write_text opens the file and then fills it.
OpenTemp ==
  /\ \/ ChildGoto("open", "write") /\ temp' = "part" /\ UNCHANGED verdict
     \/ May("output") /\ ChildGoto("open", "tidy") /\ verdict' = "fail" /\ UNCHANGED temp
  /\ UNCHANGED <<request, result, output, toLog, pipe>> /\ ParentIdle

\* The parent may have removed the name under the open file.
Filled(file) == IF file = "none" THEN "none" ELSE "full"

\* Variant: a failed write goes unnoticed.
WriteTempSwallowed ==
  /\ ChildGoto("write", "replace") /\ UNCHANGED verdict
  /\ temp' = Filled(temp) \/ (May("output") /\ UNCHANGED temp)
  /\ UNCHANGED <<request, result, output, toLog, pipe>> /\ ParentIdle

WriteTemp ==
  /\ \/ ChildGoto("write", "replace") /\ temp' = Filled(temp) /\ UNCHANGED verdict
     \/ May("output") /\ ChildGoto("write", "tidy") /\ verdict' = "fail" /\ UNCHANGED temp
  /\ UNCHANGED <<request, result, output, toLog, pipe>> /\ ParentIdle

\* os.replace: the output is the temp, whatever it holds.
ReplaceOutput ==
  /\ \/ /\ ChildGoto("replace", "tidy") /\ temp # "none"
        /\ output' = IF temp = "full" THEN "new" ELSE "part"
        /\ temp' = "none" /\ verdict' = "ok"
     \/ /\ temp = "none" \/ May("output")
        /\ ChildGoto("replace", "tidy") /\ verdict' = "fail"
        /\ UNCHANGED <<temp, output>>
  /\ UNCHANGED <<request, result, toLog, pipe>> /\ ParentIdle

\* The finally block of _asset_worker, on success and on failure.
TidyTemp ==
  /\ ChildGoto("tidy", "answer")
  /\ temp' = "none" \/ (May("unlink") /\ UNCHANGED temp)
  /\ UNCHANGED <<request, result, output, verdict, toLog, pipe>> /\ ParentIdle

\* The result is written in place: opened (truncated), then filled.
OpenResult ==
  /\ \/ ChildGoto("answer", "finish") /\ result' = "part"
     \/ May("result") /\ ChildGoto("answer", "dead") /\ UNCHANGED result
  /\ UNCHANGED <<request, temp, output, verdict, toLog, pipe>> /\ ParentIdle

WriteResult ==
  /\ \/ ChildGoto("finish", "exit") /\ result' = IF result = "none" THEN "none" ELSE verdict
     \/ May("result") /\ ChildGoto("finish", "dead") /\ UNCHANGED result
  /\ UNCHANGED <<request, temp, output, verdict, toLog, pipe>> /\ ParentIdle

\* Between the result and the end of the process the parent still polls.
Exit ==
  /\ ChildGoto("exit", "dead")
  /\ UNCHANGED <<fileVars, verdict, toLog, pipe>> /\ ParentIdle

\* A signal takes effect between any two steps, and no finally block runs.
Dies ==
  /\ Alive /\ (signal # "none" \/ May("crash"))
  /\ child' = "dead"
  /\ UNCHANGED <<fileVars, verdict, toLog, pipe>> /\ ParentIdle

ChildNext ==
  \/ ReadRequest \/ LogLine \/ Parse \/ OpenTemp \/ WriteTemp \/ ReplaceOutput
  \/ TidyTemp \/ OpenResult \/ WriteResult \/ Exit

-----------------------------------------------------------------------------
(***************************************************************************)
(* _StderrDrain._drain_loop, and time.                                     *)
(***************************************************************************)
DrainIdle == UNCHANGED <<parentVars, fileVars, childVars, signal>> /\ Quiet

\* Variant: stderr is read once the worker has ended.
DrainLineAtExit ==
  /\ drain = "run" /\ pipe > 0 /\ ~Alive
  /\ pipe' = pipe - 1
  /\ UNCHANGED drain /\ DrainIdle

DrainLine ==
  /\ drain = "run" /\ pipe > 0
  /\ pipe' = pipe - 1
  /\ UNCHANGED drain /\ DrainIdle

\* End of file, or an exception that ends the loop and leaves the pipe open.
DrainEnds ==
  /\ drain = "run"
  /\ (~Alive /\ pipe = 0) \/ May("drain")
  /\ drain' = "done"
  /\ UNCHANGED pipe /\ DrainIdle

Deadline ==
  /\ pc \in {"poll", "limits"} /\ elapsed = "within"
  /\ elapsed' = "over"
  /\ UNCHANGED <<parentVars, option, fileVars, childVars, signal, pipe, drain>>

\* The call has returned and nothing it started still runs.
Settled ==
  /\ pc = "done" /\ ~Alive /\ drain # "run"
  /\ UNCHANGED vars

ParentNext ==
  \/ ReserveRequest \/ ReserveResult \/ DropResult \/ WriteRequest
  \/ Spawn \/ PollAlive \/ CheckLimits \/ CollectResult
  \/ SendTerm \/ JoinTerminated \/ JoinKilled
  \/ EnsureDead \/ DropTemp \/ DropRequest \/ RemoveResult

Next ==
  \/ ParentNext \/ Interrupted
  \/ ChildNext \/ Dies
  \/ DrainLine \/ DrainEnds
  \/ Deadline \/ Settled

WorkerSafety == Init /\ [][Next]_vars

\* The parent's thread is scheduled, its clock runs, and a signalled process
\* dies unless it is stubborn.  Nothing is assumed of the worker (it may hang
\* in the parser) or of the drain thread (it may die, or never be scheduled).
ParentFairness ==
  /\ WF_vars(ParentNext)
  /\ WF_vars(Deadline)
  /\ "stubborn" \notin Faults => WF_vars(Alive /\ signal # "none" /\ Dies)

\* The worker never hangs on its own, and the drain thread is scheduled.
WorkerFairness == WF_vars(ChildNext) /\ WF_vars(DrainLine)

Spec == WorkerSafety /\ ParentFairness
DrainedSpec == WorkerSafety /\ WorkerFairness

-----------------------------------------------------------------------------
(***************************************************************************)
(* What the call guarantees.                                               *)
(***************************************************************************)

Abandoned == "thread" \in mishaps \/ "stubborn" \in mishaps

\* A reader of the output path never finds a half-written document, whatever
\* fails and whenever the worker is killed (os.replace in _asset_worker).
OutputWhole == output # "part"

\* The answer tells the truth about the output, whatever fails: a success
\* means the new document is in place, a failure reported by the worker or
\* raised before the try block means the old one was not touched.  (A timeout
\* or a memory limit says neither: the worker may have published just before.)
AnswerMatchesOutput ==
  pc = "done" => /\ pending = "ok" => output = "new"
                 /\ pending \in {"fail", "refused"} => output = "old"

\* Once run_isolated_asset has got as far as its try block, it leaves no
\* live worker and no request, result or temp file behind, on every path out,
\* except after the failures it has no answer to.
NothingLeftBehind ==
  pc = "done" /\ pending # "refused" /\ ~Abandoned =>
    /\ ~Alive
    /\ "unlink" \notin mishaps => request = "none" /\ result = "none" /\ temp = "none"

\* No late publication: after the call has answered, no file changes, unless
\* a worker was abandoned alive.
QuietAfterReturn == [][pc = "done" /\ ~Abandoned => UNCHANGED fileVars]_vars

\* The call returns, even if the worker hangs and the drain thread has died:
\* the deadline, SIGTERM and SIGKILL bound it.
Return == <>(pc = "done")

\* The reason for the drain thread: a worker that logs more than the pipe
\* holds still finishes parsing, with no help from the deadline.  (It says
\* nothing of a call whose thread could not be started: see the cfg.)
DrainKeepsWorkerMoving == child = "parse" ~> child # "parse"

\* Every kind of option the batch API accepts can be sent to a worker.
OptionsReachWorker == pc = "done" => pending # "refused"

Promise == INSTANCE AtomicPublish WITH
  document <- output,
  answer <- IF pc # "done" THEN "pending"
            ELSE IF pending = "ok" THEN "published" ELSE "failed",
  worker <- IF Abandoned THEN "abandoned" ELSE "owned"

\* Seen through the output file and the answer, the call is AtomicPublish.
Publishes == Promise!PublishSafety

-----------------------------------------------------------------------------
(***************************************************************************)
(* Why the safety properties hold: the inductive invariant.                *)
(***************************************************************************)
Unspawned == PreTry \cup {"spawn"}
Undecided == {"none", "boot", "parse", "open", "write", "replace"}
Cleaning == {"drop_temp", "drop_request", "remove_result", "done"}

\* A worker exists only after Spawn, and the call knows it, or has lost it.
SpawnOnce ==
  /\ pc \in Unspawned => child = "none" /\ ~Held /\ mishaps = {} /\ pending = "none"
  /\ pending = "refused" => pc = "done" /\ child = "none" /\ ~Held /\ ~Abandoned
  /\ ~Held /\ ~Abandoned => child = "none"
  /\ pc \in Monitor \cup Killing => Held
  /\ child = "none" => temp = "none"

\* The temp is whole before it is renamed, and the worker's verdict, once
\* reached, is final and says whether the output was replaced.
VerdictIsOutput ==
  /\ OutputWhole
  /\ child = "replace" => temp # "part"
  /\ child \in Undecided => verdict = "none"
  /\ output = "new" <=> verdict = "ok"
  /\ result \in {"ok", "fail"} => result = verdict
  /\ pending \in {"ok", "fail"} => pending = verdict

\* The parent cleans up behind a dead worker, one file after the other.
CleanInOrder ==
  ~Abandoned /\ pc \in Cleaning =>
    /\ ~Alive
    /\ pending # "refused" /\ "unlink" \notin mishaps =>
         /\ pc # "drop_temp" => temp = "none"
         /\ pc \in {"remove_result", "done"} => request = "none"
         /\ pc = "done" => result = "none"

WorkerInv == TypeOK /\ SpawnOnce /\ VerdictIsOutput /\ CleanInOrder
=============================================================================
