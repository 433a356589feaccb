--------------------------- MODULE ProjectLogging ---------------------------
(***************************************************************************)
(* The process-wide log session (project_logging.py) under the calls of    *)
(* the Python API: threads that pass a log_config, and hold _scope_lock    *)
(* around their call, among threads that pass none and reconfigure the     *)
(* same logger.  What runs under _state_lock is one step; what is read     *)
(* after it is released is another.                                        *)
(***************************************************************************)
EXTENDS Naturals, FiniteSets

CONSTANTS
  Threads,   \* threads of the process that call the API
  Configs,   \* log_config arguments: "off", "plain" (LogConfig()), "own" (with a dir)
  Bodies,    \* what a call does inside: "linker", "package", "batch", "off"
  Failing,   \* steps of a configuration that may raise: "level", "directory", "open"
  MaxCalls   \* bound: calls per thread

ASSUME LoggingAssumption ==
  /\ "free" \notin Threads
  /\ Configs \subseteq {"off", "plain", "own"}
  /\ Bodies \subseteq {"linker", "package", "batch", "off"}
  /\ Failing \subseteq {"level", "directory", "open"}
  /\ MaxCalls \in Nat

VARIABLES
  configured, \* _configured_log_path, _run_id and _signature: a log or NoLog
  handlers,   \* the project's handlers attached to the package logger
  disabled,   \* _disabled_by_request
  logger,     \* level and propagate of the package logger: as found, or ours
  original,   \* _original_level and _original_propagate, "none" when unset
  runs,       \* run identifiers handed out so far
  scope,      \* the thread that holds _scope_lock, or "free"
  call,       \* call[t]: the step of t, its log_config ("none" without one), its
              \* body, the configuration the body asks for next, and its session
  calls       \* calls[t]: calls begun

shared == <<configured, handlers, disabled, logger, original>>
vars == <<shared, runs, scope, call, calls>>

\* The signature, cut down to the directory and the run_id asked for (0: None).
Request == [dir : {"default", "own"}, run : Nat]
Default == [dir |-> "default", run |-> 0]
Off == [dir |-> "off", run |-> 0]
\* A log, by the call that made its file.
NoLog == [dir |-> "none", asked |-> 0, run |-> 0, by |-> "none"]
Log == [dir : {"default", "own"}, asked : Nat, run : Nat \ {0}, by : Configs \cup {"none"}]
Idle == [pc |-> "idle", config |-> "none", body |-> "none", request |-> Default, session |-> "none"]

ToConfigureKwargs(c) ==
  CASE c = "off" -> Off [] c = "plain" -> Default [] c = "own" -> [dir |-> "own", run |-> 0]

Inside == {"configure", "session", "close", "release"}
Working == {"run", "body", "parse"}

TypeOK ==
  /\ configured \in Log \cup {NoLog} /\ handlers \subseteq Log
  /\ disabled \in {"yes", "no"}
  /\ logger \in {"found", "ours"} /\ original \in {"none", "found", "ours"}
  /\ runs \in Nat
  /\ scope \in Threads \cup {"free"}
  /\ call \in [Threads -> [pc : {"idle", "enter"} \cup Inside \cup Working,
                          config : Configs \cup {"none"}, body : Bodies \cup {"none"},
                          request : Request \cup {Off},
                          session : {"none", "opening", "file", "disabled"}]]
  /\ calls \in [Threads -> 0..MaxCalls]

Init ==
  /\ configured = NoLog /\ handlers = {} /\ disabled = "no"
  /\ logger = "found" /\ original = "none"
  /\ runs = 0 /\ scope = "free"
  /\ call = [t \in Threads |-> Idle] /\ calls = [t \in Threads |-> 0]

-----------------------------------------------------------------------------
(* configure_project_logging and shutdown, each under _state_lock           *)

Restored == IF original = "none" THEN logger ELSE original

\* _shutdown_locked
ShutDown ==
  /\ handlers' = {} /\ configured' = NoLog
  /\ logger' = Restored /\ original' = "none"

\* Variant: the level is saved each time.
SavedAlways == logger
Saved == IF original = "none" THEN logger ELSE original

TurnsOff(r) == r = Off /\ ShutDown /\ disabled' = "yes"
StaysOff(r) == r = Default /\ disabled = "yes" /\ UNCHANGED shared

Accepts(r) == r # Off /\ (r = Default => disabled = "no")
Same(r) == configured # NoLog /\ r = [dir |-> configured.dir, run |-> configured.asked]

Reuses(r) ==
  /\ Accepts(r) /\ Same(r)
  /\ disabled' = "no" /\ UNCHANGED <<configured, handlers, logger, original>>

\* Variant: _remove_project_handlers looks at nothing.
KeptHandlers == handlers
\* Handlers go only if a log is configured: one configured without a handler
\* is left behind when a later configuration raises.
RemovedHandlers == IF configured # NoLog THEN {} ELSE handlers

NewRun(r) == IF r.run # 0 THEN r.run ELSE runs + 1

Creates(c, r) ==
  LET log == [dir |-> r.dir, asked |-> r.run, run |-> NewRun(r), by |-> c] IN
  /\ Accepts(r) /\ ~Same(r)
  /\ disabled' = "no" /\ configured' = log
  /\ handlers' = RemovedHandlers \cup {log}
  /\ logger' = "ours" /\ original' = Saved
  /\ runs' = runs + (IF r.run = 0 THEN 1 ELSE 0)

\* An unknown level, a directory that cannot be made, a file that cannot be
\* opened: the exception leaves what the code did before it.
Raises(r) ==
  /\ Accepts(r) /\ disabled' = "no" /\ UNCHANGED configured
  /\ \/ "level" \in Failing /\ UNCHANGED <<handlers, logger, original>>
     \/ "directory" \in Failing /\ ~Same(r)
        /\ handlers' = RemovedHandlers /\ UNCHANGED <<logger, original>>
     \/ "open" \in Failing /\ ~Same(r)
        /\ handlers' = RemovedHandlers /\ logger' = "ours" /\ original' = Saved

\* configure_project_logging in a call with log_config c.
Configure(c, r, answer) ==
  \/ answer = "none" /\ (TurnsOff(r) \/ StaysOff(r)) /\ UNCHANGED runs
  \/ answer = "path" /\ (Creates(c, r) \/ (Reuses(r) /\ UNCHANGED runs))
  \/ answer = "raise" /\ Raises(r) /\ UNCHANGED runs

-----------------------------------------------------------------------------
(* The calls                                                                *)

At(t, step) == call[t].pc = step
Goto(t, step) == call' = [call EXCEPT ![t].pc = step]
Return(t) == call' = [call EXCEPT ![t] = Idle]

\* The call body: parse_package configures the default log, parse_batch a log
\* under a run identifier, log_enabled=False none; the linker path nothing.
Start(b) == CASE b = "linker" -> "parse" [] b = "batch" -> "run" [] OTHER -> "body"
FirstRequest(b) == IF b = "off" THEN Off ELSE Default
\* The body returns or raises, out of the session if there is one.
Leave(t) == IF call[t].config = "none" THEN Return(t) ELSE Goto(t, "close")

Begin(t) ==
  /\ At(t, "idle") /\ calls[t] < MaxCalls
  /\ \E c \in Configs \cup {"none"}, b \in Bodies :
       call' = [call EXCEPT ![t] =
                  [pc |-> IF c = "none" THEN Start(b) ELSE "enter", config |-> c, body |-> b,
                   request |-> FirstRequest(b), session |-> "none"]]
  /\ calls' = [calls EXCEPT ![t] = @ + 1]
  /\ UNCHANGED <<shared, runs, scope>>

\* Variant: the lock is taken from its holder.
EnterAnyway(t) ==
  /\ At(t, "enter") /\ scope' = t /\ Goto(t, "configure")
  /\ UNCHANGED <<shared, runs, calls>>

\* A second session is refused with RuntimeError; nothing waits.
Enter(t) ==
  /\ At(t, "enter")
  /\ \/ scope = "free" /\ scope' = t /\ Goto(t, "configure")
     \/ scope # "free" /\ UNCHANGED scope /\ Return(t)
  /\ UNCHANGED <<shared, runs, calls>>

\* Variant: the lock is kept when the configuration raises.
KeepHold == UNCHANGED scope
Abandon == scope' = "free"

OpenLog(t) ==
  LET c == call[t].config IN
  /\ At(t, "configure")
  /\ \/ Configure(c, ToConfigureKwargs(c), "raise") /\ Return(t) /\ Abandon
     \/ \E answer \in {"none", "path"} :
          /\ Configure(c, ToConfigureKwargs(c), answer) /\ UNCHANGED scope
          /\ call' = [call EXCEPT ![t].pc = "session",
                        ![t].session = IF answer = "none" THEN "disabled" ELSE "opening"]
  /\ UNCHANGED calls

\* _configured_run_id is read after _state_lock was released: a thread that
\* shut the log down meanwhile turns this session into a disabled one.
OpenSession(t) ==
  /\ At(t, "session")
  /\ call' = [call EXCEPT ![t].pc = Start(call[t].body), ![t].session =
                IF @ = "disabled" \/ configured = NoLog THEN "disabled" ELSE "file"]
  /\ UNCHANGED <<shared, runs, scope, calls>>

\* log_run_id or current_log_run_id() or new_log_run_id(), without a lock
ReadRun(t) ==
  LET current == IF configured # NoLog THEN configured.run ELSE runs + 1 IN
  /\ At(t, "run")
  /\ call' = [call EXCEPT ![t].pc = "body", ![t].request.run = current]
  /\ runs' = IF configured # NoLog THEN runs ELSE current
  /\ UNCHANGED <<shared, scope, calls>>

\* A batch that parses in process may go through parse_package afterwards.
ConfigureBody(t) ==
  LET r == call[t].request IN
  /\ At(t, "body")
  /\ \/ Configure(call[t].config, r, "raise") /\ Leave(t)
     \/ \E answer \in {"none", "path"} :
          /\ Configure(call[t].config, r, answer)
          /\ \/ Goto(t, "parse")
             \/ r.run # 0 /\ call' = [call EXCEPT ![t].request = Default]
  /\ UNCHANGED <<scope, calls>>

\* The parse itself, returning or raising.
Parse(t) == At(t, "parse") /\ Leave(t) /\ UNCHANGED <<shared, runs, scope, calls>>

\* ProjectLogSession.close shuts down whatever is configured by now;
\* _DisabledLogSession.close shuts down nothing.
Close(t) ==
  /\ At(t, "close") /\ Goto(t, "release")
  /\ IF call[t].session = "file" THEN ShutDown /\ UNCHANGED disabled ELSE UNCHANGED shared
  /\ UNCHANGED <<runs, scope, calls>>

\* Variant: the placeholder session forgets the lock it was given.
ReleaseFileOnly(t) ==
  /\ At(t, "release") /\ Return(t)
  /\ scope' = IF call[t].session = "file" THEN "free" ELSE scope
  /\ UNCHANGED <<shared, runs, calls>>

Release(t) ==
  /\ At(t, "release") /\ Return(t) /\ scope' = "free"
  /\ UNCHANGED <<shared, runs, calls>>

\* shutdown_project_logging is exported and takes no scope.
ShutdownProjectLogging(t) ==
  /\ At(t, "idle") /\ calls[t] < MaxCalls
  /\ ShutDown /\ calls' = [calls EXCEPT ![t] = @ + 1]
  /\ UNCHANGED <<disabled, runs, scope, call>>

Proceed(t) ==
  \/ Enter(t) \/ OpenLog(t) \/ OpenSession(t) \/ ReadRun(t)
  \/ ConfigureBody(t) \/ Parse(t) \/ Close(t) \/ Release(t)

Finished == (\A t \in Threads : At(t, "idle") /\ calls[t] = MaxCalls) /\ UNCHANGED vars

Next == (\E t \in Threads : Begin(t) \/ ShutdownProjectLogging(t) \/ Proceed(t)) \/ Finished

\* A thread inside a call runs on: no step of a call waits for another thread.
Fairness == \A t \in Threads : WF_vars(Proceed(t))
Spec == Init /\ [][Next]_vars /\ Fairness

-----------------------------------------------------------------------------
\* A record is written once: no handler of an earlier configuration stays
\* attached, whichever thread installed it (_remove_project_handlers).
HandlerIsConfigured == handlers \subseteq {configured}

\* After a request to disable logging nothing is attached until a request
\* that is not the default one.
DisabledIsSilent == disabled = "yes" => handlers = {}

\* The application gets its logger back as it was: what the code saved is
\* what it found, and with nothing saved the logger is as found.
LoggerRestored == original # "ours" /\ (original = "none" => logger = "found")

\* _scope_lock is held by the call that is inside a session, and by no call
\* that has returned or raised.
ScopeHeld ==
  \A t \in Threads :
    scope = t <=> call[t].pc \in Inside \/ (call[t].pc \in Working /\ call[t].config # "none")

\* While a session holds the scope, a call that asks for a session of its own
\* does not touch the session's log.
ScopeProtectsLog ==
  [][\A t, u \in Threads :
       scope = t /\ u # t /\ call'[u] # call[u] /\ call[u].config # "none"
         => configured' = configured /\ handlers' = handlers]_vars

\* A session is closed, and the scope free again for the next caller.
ScopeFreed == \A t \in Threads : scope = t ~> scope = "free"
=============================================================================
