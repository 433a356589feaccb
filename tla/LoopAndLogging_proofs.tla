------------------------ MODULE LoopAndLogging_proofs ------------------------
(***************************************************************************)
(* Two components of a parse that share no name: the loop over the         *)
(* properties of an export, and the log of the project.                    *)
(*                                                                         *)
(* The loop, for every file size, every extent of the export and every     *)
(* content: what an iteration does to the archive and to the values        *)
(* (Iteration), and the inductive invariant LoopInv that follows.          *)
(*                                                                         *)
(* The log session for any number of threads and calls: what a             *)
(* configuration keeps of the shared logger (Configured), what a step of   *)
(* one thread keeps of the scope lock (OneThread), and the inductive       *)
(* invariant LoggingInv that follows.                                      *)
(***************************************************************************)
EXTENDS PropertyLoop, ProjectLogging, TLAPS

\* An iteration moves the archive ahead unless it is the last one.
Went ==
  /\ UNCHANGED <<input, handled>> /\ count' = count + 1
  /\ pos' \in Places /\ pos' >= pos
  /\ pc' \in {"loop", "handler", "escaped"}
  /\ pc' = "loop" => pos' > pos

\* It records at most one damaged place, and that in tolerant mode only.
Lost ==
  /\ UNCHANGED values
  /\ \/ UNCHANGED damaged
     \/ Tolerant /\ \E d \in Places : damaged' = damaged \cup {d}

\* Or it records one value, between the old place and the new one.
Gained ==
  /\ UNCHANGED damaged
  /\ \E v, w \in Places :
       /\ pos <= v /\ v <= w /\ w <= pos' /\ w <= end
       /\ values' = values \cup {[from |-> v, to |-> w]}

\* Values lie behind the archive: this is why the next one is apart from them.
ValuesBehind == \A v \in values : v.to <= pos
Fresh == pc = "begin" => pos = 0 /\ count = 0
LoopInv == LoopTypeOK /\ BoundedWork /\ ValuesPlaced /\ ValuesBehind /\ StrictStops /\ Fresh

\* A damaged value is left by its size or by one unit.
LEMMA Skipped ==
  ASSUME LoopTypeOK, Reading, Tolerant,
         NEW start \in Places, start > pos, NEW size \in Int, SkipDamaged(start, size)
  PROVE  Went /\ Lost
<1>1. CASE size > 0 /\ start + size <= FileSize
  BY <1>1, PropertyAssumption
     DEF SkipDamaged, Continue, Went, Lost, Places, LoopTypeOK, Reading
<1>2. CASE size > 0 /\ ~(start + size <= FileSize)
  BY <1>2, PropertyAssumption
     DEF SkipDamaged, Escape, output, Went, Lost, Places, LoopTypeOK
<1>3. CASE ~(size > 0)
  <2>1. PICK p \in Ahead(start) : Continue(p)
    BY <1>3 DEF SkipDamaged
  <2>2. p \in Places /\ p >= start
    BY <2>1, PropertyAssumption DEF Ahead, Smaller, Places
  <2> QED
    BY <1>3, <2>1, <2>2, PropertyAssumption
       DEF SkipDamaged, Continue, Went, Lost, Places, LoopTypeOK, Reading
<1> QED
  BY <1>1, <1>2, <1>3

\* Where the size field ends, and where the value begins.
LEMMA SizeAhead ==
  ASSUME LoopTypeOK, NEW s \in SizeEnds
  PROVE  s \in Places /\ s > pos
BY PropertyAssumption DEF SizeEnds, Places, LoopTypeOK

LEMMA ValueAhead ==
  ASSUME LoopTypeOK, NEW s \in SizeEnds, NEW v \in ValueStarts(s)
  PROVE  v \in Places /\ v > pos
<1>1. s \in Places /\ s > pos
  BY SizeAhead
<1> QED
  BY <1>1, PropertyAssumption DEF ValueStarts, Places, LoopTypeOK

\* The scan for the next tag finds it ahead, or the archive moves one unit.
LEMMA ScanAhead ==
  ASSUME LoopTypeOK, Reading, NEW q \in Places, q >= pos, NEW p \in Candidates(q) \cup Ahead(q)
  PROVE  p \in Places /\ p > pos
<1>1. CASE p \in Candidates(q)
  BY <1>1, PropertyAssumption DEF Candidates, Places, LoopTypeOK
<1>2. CASE p \in Ahead(q)
  BY <1>2, PropertyAssumption
     DEF Ahead, Smaller, Places, LoopTypeOK, Reading, Boundary
<1> QED
  BY <1>1, <1>2

LEMMA TornStep ==
  ASSUME LoopTypeOK, TornTag
  PROVE  Went /\ Lost
<1>1. PICK q \in pos..FileSize :
        IF ~Tolerant THEN Escape /\ pos' = q /\ UNCHANGED output
        ELSE \/ ScanRaises(q) /\ Escape /\ pos' = q /\ UNCHANGED output
             \/ /\ \E p \in Candidates(q) \cup Ahead(q) : Continue(p)
                /\ damaged' = damaged \cup {q} /\ UNCHANGED values
  BY DEF TornTag
<1>2. q \in Places /\ q >= pos /\ Reading
  BY PropertyAssumption DEF LoopTypeOK, Places, TornTag
<1>3. CASE Escape /\ pos' = q /\ UNCHANGED output
  BY <1>2, <1>3 DEF Escape, output, Went, Lost
<1>4. CASE /\ Tolerant
           /\ \E p \in Candidates(q) \cup Ahead(q) : Continue(p)
           /\ damaged' = damaged \cup {q} /\ UNCHANGED values
  <2>1. PICK p \in Candidates(q) \cup Ahead(q) : Continue(p)
    BY <1>4
  <2>2. p \in Places /\ p > pos
    BY <1>2, <2>1, ScanAhead
  <2>3. p >= pos
    BY <2>2, PropertyAssumption DEF Places, LoopTypeOK
  <2> QED
    BY <1>2, <1>4, <2>1, <2>2, <2>3 DEF Continue, Went, Lost
<1> QED
  BY <1>1, <1>3, <1>4

LEMMA SizeStep ==
  ASSUME LoopTypeOK, SizeExceeded
  PROVE  Went /\ Lost
<1>1. PICK s \in SizeEnds, size \in Sizes :
        \/ ~Recovers /\ Escape /\ pos' = s /\ UNCHANGED output
        \/ /\ Recovers
           /\ \/ ScanRaises(s) /\ SkipDamaged(s, size)
              \/ \E c \in Candidates(s) : Continue(c) /\ UNCHANGED output
              \/ Continue(s) /\ damaged' = damaged \cup {s} /\ UNCHANGED values
  BY DEF SizeExceeded
<1>2. s \in Places /\ s > pos /\ s >= pos /\ size \in Int /\ Reading
  BY SizeAhead, PropertyAssumption DEF SizeExceeded, Places, LoopTypeOK
<1>3. CASE Escape /\ pos' = s /\ UNCHANGED output
  BY <1>2, <1>3 DEF Escape, output, Went, Lost
<1>4. CASE Recovers /\ SkipDamaged(s, size)
  BY <1>2, <1>4, Skipped DEF Recovers
<1>5. CASE \E c \in Candidates(s) : Continue(c) /\ UNCHANGED output
  <2>1. PICK c \in Candidates(s) : Continue(c) /\ UNCHANGED output
    BY <1>5
  <2>2. c \in Places /\ c > pos
    BY <1>2, <2>1, ScanAhead
  <2>3. c >= pos
    BY <2>2, PropertyAssumption DEF Places, LoopTypeOK
  <2> QED
    BY <2>1, <2>2, <2>3 DEF Continue, output, Went, Lost
<1>6. CASE Recovers /\ Continue(s) /\ damaged' = damaged \cup {s} /\ UNCHANGED values
  BY <1>2, <1>6 DEF Recovers, Continue, Went, Lost
<1> QED
  BY <1>1, <1>3, <1>4, <1>5, <1>6

LEMMA DamagedValueStep ==
  ASSUME LoopTypeOK, ValueOverruns \/ ValueRaises
  PROVE  Went /\ Lost
<1>1. PICK s \in SizeEnds, size \in Sizes : \E v \in ValueStarts(s) :
        IF Tolerant THEN SkipDamaged(v, size) ELSE Escape /\ pos' = v /\ UNCHANGED output
  BY DEF ValueOverruns, ValueRaises
<1>2. PICK v \in ValueStarts(s) :
        IF Tolerant THEN SkipDamaged(v, size) ELSE Escape /\ pos' = v /\ UNCHANGED output
  BY <1>1
<1>3. v \in Places /\ v > pos /\ v >= pos /\ size \in Int /\ Reading
  BY ValueAhead, PropertyAssumption DEF ValueOverruns, ValueRaises, Places, LoopTypeOK
<1>4. CASE Tolerant
  BY <1>2, <1>3, <1>4, Skipped
<1>5. CASE ~Tolerant
  BY <1>2, <1>3, <1>5 DEF Escape, output, Went, Lost
<1> QED
  BY <1>4, <1>5

LEMMA ValueStep ==
  ASSUME LoopTypeOK, ReadValue
  PROVE  Went /\ Gained
<1>1. PICK s \in SizeEnds, size \in Sizes : ~Exceeds(size, s) /\ \E v \in ValueStarts(s) :
        /\ Fits(v, size) /\ v + size <= FileSize
        /\ \E p \in FinalPos(v, size) : Continue(p)
        /\ values' = values \cup {[from |-> v, to |-> v + size]} /\ UNCHANGED damaged
  BY DEF ReadValue
<1>2. PICK v \in ValueStarts(s) :
        /\ Fits(v, size) /\ v + size <= FileSize
        /\ Continue(v + size)
        /\ values' = values \cup {[from |-> v, to |-> v + size]} /\ UNCHANGED damaged
  BY <1>1 DEF FinalPos
<1>3. v \in Places /\ v > pos /\ size \in Int /\ size >= 0
  BY <1>1, ValueAhead, PropertyAssumption DEF Exceeds, SizeEnds, Places
<1>4. v + size \in Places /\ v + size <= end /\ pos <= v /\ v <= v + size /\ v + size > pos
  BY <1>2, <1>3, PropertyAssumption DEF Fits, Places, LoopTypeOK
<1>5. Went
  BY <1>2, <1>4, PropertyAssumption DEF Continue, Went, Places, LoopTypeOK
<1>6. pos' = v + size
  BY <1>2 DEF Continue
<1> QED
  BY <1>2, <1>3, <1>4, <1>5, <1>6, PropertyAssumption DEF Gained, Places, LoopTypeOK

LEMMA EndStep ==
  ASSUME LoopTypeOK, EndOfData \/ ReadNone
  PROVE  Went /\ Lost
BY PropertyAssumption DEF EndOfData, ReadNone, Reading, output, Went, Lost, Places, LoopTypeOK

\* What an iteration that does not stop on the spot does.
LEMMA Iteration ==
  ASSUME LoopTypeOK, Loop
  PROVE  \/ \E how \in Ended : Stop(how)
         \/ count < MaxProperties /\ pc = "loop" /\ Went /\ (Lost \/ Gained)
<1>1. CASE LimitReached \/ UnexpectedError
  BY <1>1 DEF LimitReached, UnexpectedError, Ended
<1>2. CASE ~(LimitReached \/ UnexpectedError)
  <2>1. count < MaxProperties /\ pc = "loop"
    BY <1>2 DEF Loop, EndOfData, ReadNone, TornTag, SizeExceeded, ValueOverruns,
                ReadValue, ValueRaises, Reading
  <2> QED
    BY <1>2, <2>1, TornStep, SizeStep, DamagedValueStep, ValueStep, EndStep DEF Loop
<1> QED
  BY <1>1, <1>2

-----------------------------------------------------------------------------
LEMMA Counting ==
  ASSUME NEW n \in Int, NEW p \in Int, NEW q \in Int, n <= p, p <= q
  PROVE  n + 1 <= q + 1 /\ (p < q => n + 1 <= q)
OBVIOUS

\* One iteration keeps each part of the invariant.
LEMMA IterationKeepsTypes ==
  ASSUME LoopInv, count < MaxProperties, pc = "loop", Went, Lost \/ Gained
  PROVE  LoopTypeOK' /\ BoundedWork'
<1>1. values' \subseteq Extents
  BY DEF LoopInv, LoopTypeOK, Lost, Gained, Extents
<1>2. damaged' \subseteq Places
  BY DEF LoopInv, LoopTypeOK, Lost, Gained
<1>3. LoopTypeOK'
  BY <1>1, <1>2, PropertyAssumption DEF LoopInv, LoopTypeOK, Went, input, Ended, Places
<1>4. BoundedWork'
  <2>1. pos \in Int /\ count \in Int /\ pos' \in Int
    BY PropertyAssumption DEF LoopInv, LoopTypeOK, Went, Places
  <2>2. count <= pos /\ pos <= pos'
    BY <2>1 DEF LoopInv, BoundedWork, Went
  <2>3. count + 1 <= pos' + 1 /\ (pos < pos' => count + 1 <= pos')
    BY <2>1, <2>2, Counting
  <2>4. count' = count + 1 /\ (pc' = "loop" => pos < pos')
    BY <2>1 DEF Went
  <2> QED
    BY <2>3, <2>4, Zenon DEF BoundedWork
<1> QED
  BY <1>3, <1>4

LEMMA IterationKeepsValues ==
  ASSUME LoopInv, Went, Lost \/ Gained
  PROVE  ValuesPlaced' /\ ValuesBehind'
<1>1. end' = end /\ pos \in Int /\ pos' \in Int /\ pos' >= pos /\ end \in Int
  BY PropertyAssumption DEF Went, input, LoopInv, LoopTypeOK, Places
<1>2. \A v \in values : v.from \in Int /\ v.to \in Int
  BY PropertyAssumption DEF LoopInv, LoopTypeOK, Extents, Places
<1>3. \A v \in values : v.from <= v.to /\ v.to <= end /\ v.to <= pos
  BY DEF LoopInv, ValuesPlaced, ValuesBehind
<1>4. CASE Lost
  BY <1>1, <1>2, <1>3, <1>4 DEF Lost, LoopInv, ValuesPlaced, ValuesBehind, Before
<1>5. CASE Gained
  <2>1. PICK v, w \in Places :
          /\ pos <= v /\ v <= w /\ w <= pos' /\ w <= end
          /\ values' = values \cup {[from |-> v, to |-> w]}
    BY <1>5 DEF Gained
  <2>2. v \in Int /\ w \in Int
    BY PropertyAssumption DEF Places
  <2> DEFINE new == [from |-> v, to |-> w]
  <2>3. \A u \in values : Before(u, new)
    BY <1>1, <1>2, <1>3, <2>1, <2>2 DEF Before
  <2>4. \A u \in values' : u.from <= u.to /\ u.to <= end /\ u.to <= pos'
    BY <1>1, <1>2, <1>3, <2>1, <2>2
  <2>5. \A u, t \in values' : u = t \/ Before(u, t) \/ Before(t, u)
    BY <2>1, <2>3 DEF LoopInv, ValuesPlaced
  <2> QED
    BY <1>1, <2>4, <2>5 DEF ValuesPlaced, ValuesBehind, Before
<1> QED
  BY <1>4, <1>5

LEMMA IterationKeepsStrict ==
  ASSUME LoopInv, Went, Lost \/ Gained
  PROVE  StrictStops' /\ Fresh'
BY DEF LoopInv, StrictStops, Fresh, Tolerant, Went, input, Lost, Gained

\* Every other step leaves what has been recorded alone, and the archive is
\* moved by none but the one that begins.
LEMMA Unrecorded ==
  ASSUME LoopInv, UNCHANGED <<input, output>>,
         pos' \in Places, pos' >= pos,
         pc' \in {"loop", "handler"} \cup Ended \/ UNCHANGED loopVars, handled' \in 0..2,
         count' \in 0..MaxProperties, count' <= pos' + 1, pc' = "loop" => count' <= pos'
  PROVE  LoopInv'
<1>1. LoopTypeOK' /\ BoundedWork' /\ StrictStops' /\ Fresh'
  BY DEF LoopInv, LoopTypeOK, BoundedWork, StrictStops, Fresh, Tolerant, Ended, input, output, loopVars
<1>2. values' = values /\ end' = end
  BY DEF input, output
<1>3. ValuesPlaced'
  BY <1>2 DEF LoopInv, ValuesPlaced, Before
<1>4. ValuesBehind'
  <2>1. \A v \in values : v.to \in Int /\ v.to <= pos
    BY PropertyAssumption DEF LoopInv, LoopTypeOK, ValuesBehind, Extents, Places
  <2> QED
    BY <1>2, <2>1, PropertyAssumption DEF LoopInv, LoopTypeOK, ValuesBehind, Places
<1> QED
  BY <1>1, <1>3, <1>4 DEF LoopInv

LEMMA OtherSteps ==
  ASSUME LoopInv, BeginLoop \/ HandleAsset \/ (\E how \in Ended : Stop(how)) \/ UNCHANGED loopVars
  PROVE  LoopInv' /\ pos' >= pos /\ UNCHANGED values /\ (pc = "loop" /\ pc' = "loop" => UNCHANGED loopVars)
<1>1. /\ pos \in Places /\ pos \in Int /\ count \in 0..MaxProperties /\ handled \in 0..2
      /\ pc \in {"begin", "loop", "handler"} \cup Ended
      /\ count <= pos + 1 /\ (pc = "loop" => count <= pos)
  BY PropertyAssumption DEF LoopInv, LoopTypeOK, BoundedWork, Places
<1>2. CASE \E how \in Ended : Stop(how)
  BY <1>1, <1>2, Unrecorded DEF Stop, input, output, Ended
<1>3. CASE pc = "begin" /\ \E h \in 0..2 : h <= FileSize /\ pos' = h /\ pc' = "loop"
                           /\ UNCHANGED <<input, count, output, handled>>
  <2>1. pos = 0 /\ count = 0
    BY <1>3 DEF LoopInv, Fresh
  <2>2. pos' \in Places /\ pos' >= 0 /\ count' = 0 /\ pos' \in Int
    BY <1>3, <2>1, PropertyAssumption DEF Places
  <2> QED
    BY <1>1, <1>3, <2>1, <2>2, Unrecorded DEF input, output
<1>4. CASE pc = "handler" /\ handled < 2 /\ handled' = handled + 1
           /\ UNCHANGED <<input, pc, pos, count, output>>
  <2>1. handled' \in 0..2
    BY <1>1, <1>4
  <2> QED
    BY <1>1, <1>4, <2>1, Unrecorded DEF input, output
<1>5. CASE UNCHANGED loopVars
  BY <1>1, <1>5, Unrecorded DEF loopVars, input, output
<1> QED
  BY <1>2, <1>3, <1>4, <1>5 DEF BeginLoop, HandleAsset, Ended

LEMMA LoopStarts == LoopInit => LoopInv
BY PropertyAssumption
   DEF LoopInit, LoopInv, LoopTypeOK, BoundedWork, ValuesPlaced, ValuesBehind, StrictStops, Fresh, Places

\* A step is an iteration that moves on, or records nothing.
LEMMA LoopSteps ==
  ASSUME LoopInv, [LoopNext]_loopVars
  PROVE  /\ LoopInv'
         /\ pos' >= pos /\ values \subseteq values'
         /\ pc = "loop" /\ pc' = "loop" => pos' > pos \/ UNCHANGED loopVars
<1>1. CASE count < MaxProperties /\ pc = "loop" /\ Went /\ (Lost \/ Gained)
  <2>1. LoopInv'
    BY <1>1, IterationKeepsTypes, IterationKeepsValues, IterationKeepsStrict DEF LoopInv
  <2>2. values \subseteq values'
    BY <1>1 DEF Lost, Gained
  <2> QED
    BY <1>1, <2>1, <2>2 DEF Went
<1>2. CASE BeginLoop \/ HandleAsset \/ (\E how \in Ended : Stop(how)) \/ UNCHANGED loopVars
  BY <1>2, OtherSteps
<1> QED
  BY <1>1, <1>2, Iteration DEF LoopNext, Halted, LoopInv

-----------------------------------------------------------------------------
\* LoopInv holds throughout every call.
THEOREM LoopInvariance == LoopSpec => []LoopInv
<1>1. LoopInv /\ [LoopNext]_loopVars => LoopInv'
  BY LoopSteps
<1> QED
  BY <1>1, LoopStarts, PTL DEF LoopSpec

\* The variables have their types: above all, the archive stays in the file.
THEOREM LoopTypeCorrect == LoopSpec => []LoopTypeOK
<1>1. LoopInv => LoopTypeOK
  BY DEF LoopInv
<1> QED
  BY <1>1, LoopInvariance, PTL

\* An export of n bytes takes at most n + 1 iterations, whatever it holds.
THEOREM WorkIsBounded == LoopSpec => []BoundedWork
<1>1. LoopInv => BoundedWork
  BY DEF LoopInv
<1> QED
  BY <1>1, LoopInvariance, PTL

\* The values read lie in the export and share no byte, whatever was damaged.
THEOREM ValuesArePlaced == LoopSpec => []ValuesPlaced
<1>1. LoopInv => ValuesPlaced
  BY DEF LoopInv
<1> QED
  BY <1>1, LoopInvariance, PTL

\* Strict mode records no damage: it raises.
THEOREM StrictModeStops == LoopSpec => []StrictStops
<1>1. LoopInv => StrictStops
  BY DEF LoopInv
<1> QED
  BY <1>1, LoopInvariance, PTL

\* The archive moves ahead only, by every iteration that is not the last.
THEOREM AlwaysForward == LoopSpec => Forward
<1> DEFINE Onward == /\ pos' >= pos /\ values \subseteq values'
                     /\ pc = "loop" /\ pc' = "loop" => pos' > pos
<1>1. LoopInv /\ [LoopNext]_loopVars => [Onward]_loopVars
  BY LoopSteps
<1>2. LoopSpec => [][Onward]_loopVars
  BY <1>1, LoopInvariance, PTL DEF LoopSpec
<1> QED
  BY <1>2 DEF Forward

-----------------------------------------------------------------------------

Call == [pc : {"idle", "enter"} \cup Inside \cup Working,
         config : Configs \cup {"none"}, body : Bodies \cup {"none"},
         request : Request \cup {Off}, session : {"none", "opening", "file", "disabled"}]

\* Only the body of a batch asks for a run of its own, and never with Off;
\* a session is opened for a log_config only.
Fine(k) ==
  /\ k \in Call
  /\ k.body # "off" => k.request \in Request
  /\ k.pc = "run" => k.body = "batch"
  /\ k.pc \in Inside \cup {"enter"} => k.config # "none"
Holds(k) == k.pc \in Inside \/ (k.pc \in Working /\ k.config # "none")

SharedOK ==
  /\ configured \in Log \cup {NoLog} /\ handlers \subseteq Log
  /\ disabled \in {"yes", "no"}
  /\ logger \in {"found", "ours"} /\ original \in {"none", "found", "ours"}
  /\ HandlerIsConfigured /\ DisabledIsSilent /\ LoggerRestored

CallsOK ==
  /\ scope \in Threads \cup {"free"}
  /\ call \in [Threads -> Call] /\ \A t \in Threads : Fine(call[t])
  /\ \A t \in Threads : scope = t <=> Holds(call[t])

LoggingInv == SharedOK /\ runs \in Nat /\ calls \in [Threads -> 0..MaxCalls] /\ CallsOK

-----------------------------------------------------------------------------
(* The shared logger                                                        *)

LEMMA NoLogIsNone == NoLog \notin Log
BY DEF NoLog, Log

LEMMA ShutDownKeeps ==
  ASSUME SharedOK, ShutDown, disabled' \in {"yes", "no"}
  PROVE  SharedOK'
BY DEF SharedOK, ShutDown, Restored, HandlerIsConfigured, DisabledIsSilent, LoggerRestored

LEMMA UnchangedKeeps ==
  ASSUME SharedOK, UNCHANGED shared
  PROVE  SharedOK'
BY DEF SharedOK, shared, HandlerIsConfigured, DisabledIsSilent, LoggerRestored

\* What goes is all there was: a log that is not configured has no handler.
LEMMA NoneRemain == SharedOK => RemovedHandlers = {}
BY NoLogIsNone DEF SharedOK, RemovedHandlers, HandlerIsConfigured

LEMMA CreatesKeeps ==
  ASSUME SharedOK, runs \in Nat,
         NEW c \in Configs \cup {"none"}, NEW r \in Request \cup {Off}, Creates(c, r)
  PROVE  SharedOK' /\ runs' \in Nat
<1> DEFINE log == [dir |-> r.dir, asked |-> r.run, run |-> NewRun(r), by |-> c]
<1>1. r \in Request /\ r.dir \in {"default", "own"} /\ r.run \in Nat
  BY DEF Creates, Accepts, Request
<1>2. NewRun(r) \in Nat \ {0} /\ runs' \in Nat
  BY <1>1 DEF NewRun, Creates
<1>3. log \in Log
  BY <1>1, <1>2 DEF Log
<1>4. configured' = log /\ handlers' = {log} /\ disabled' = "no"
  BY NoneRemain DEF Creates
<1>5. logger' = "ours" /\ original' = Saved
  BY DEF Creates
<1>6. original' \in {"found", "ours"} /\ original' # "ours"
  BY <1>5 DEF Saved, SharedOK, LoggerRestored
<1> HIDE DEF log
<1> QED
  BY <1>2, <1>3, <1>4, <1>5, <1>6
     DEF SharedOK, HandlerIsConfigured, DisabledIsSilent, LoggerRestored

LEMMA RaisesKeeps ==
  ASSUME SharedOK, NEW r, Raises(r)
  PROVE  SharedOK'
BY NoneRemain
   DEF Raises, Saved, SharedOK, HandlerIsConfigured, DisabledIsSilent, LoggerRestored

\* Whatever a configuration answers, it keeps the logger in order.
LEMMA Configured ==
  ASSUME SharedOK, runs \in Nat, NEW answer,
         NEW c \in Configs \cup {"none"}, NEW r \in Request \cup {Off}, Configure(c, r, answer)
  PROVE  SharedOK' /\ runs' \in Nat
<1>1. CASE TurnsOff(r) /\ UNCHANGED runs
  BY <1>1, ShutDownKeeps DEF TurnsOff
<1>2. CASE StaysOff(r) /\ UNCHANGED runs
  BY <1>2, UnchangedKeeps DEF StaysOff
<1>3. CASE Creates(c, r)
  BY <1>3, CreatesKeeps
<1>4. CASE Reuses(r) /\ UNCHANGED runs
  BY <1>4 DEF Reuses, SharedOK, HandlerIsConfigured, DisabledIsSilent, LoggerRestored
<1>5. CASE Raises(r) /\ UNCHANGED runs
  BY <1>5, RaisesKeeps
<1> QED
  BY <1>1, <1>2, <1>3, <1>4, <1>5 DEF Configure

-----------------------------------------------------------------------------
(* The scope lock                                                           *)

\* A step of one thread: it keeps the lock, takes it, or gives it back.
LEMMA OneThread ==
  ASSUME CallsOK, NEW t \in Threads, NEW k, Fine(k), call' = [call EXCEPT ![t] = k],
         \/ scope' = scope /\ (Holds(k) <=> Holds(call[t]))
         \/ scope = "free" /\ scope' = t /\ Holds(k)
         \/ scope = t /\ scope' = "free" /\ ~Holds(k)
  PROVE  CallsOK'
<1>1. k \in Call /\ call' \in [Threads -> Call]
  BY DEF Fine, CallsOK
<1>2. call'[t] = k /\ \A u \in Threads : u # t => call'[u] = call[u]
  BY DEF CallsOK
<1>3. \A u \in Threads : Fine(call'[u])
  BY <1>2 DEF CallsOK
<1>4. \A u \in Threads : scope' = u <=> Holds(call'[u])
  BY <1>2, LoggingAssumption DEF CallsOK
<1>5. scope' \in Threads \cup {"free"}
  BY DEF CallsOK
<1>6. \A u \in Threads : Fine(call[u])' /\ (scope = u <=> Holds(call[u]))'
  BY <1>3, <1>4 DEF Fine, Holds
<1> QED
  BY <1>1, <1>5, <1>6 DEF CallsOK, Call, Inside, Working, Request, Off

\* The record of a call that goes on to another step.
LEMMA GoesTo ==
  ASSUME CallsOK, NEW t \in Threads, NEW s \in ({"idle", "enter"} \cup Inside \cup Working) \ {"run"},
         Goto(t, s), s \in Inside \cup {"enter"} => call[t].config # "none"
  PROVE  \E k : /\ Fine(k) /\ call' = [call EXCEPT ![t] = k]
                /\ k.pc = s /\ k.config = call[t].config
<1> DEFINE k == [call[t] EXCEPT !.pc = s]
<1>1. call[t] \in Call /\ Fine(call[t])
  BY DEF CallsOK
<1>2. k \in Call /\ k.pc = s /\ k.config = call[t].config /\ k.body = call[t].body
      /\ k.request = call[t].request
  BY <1>1 DEF Call
<1>3. Fine(k)
  BY <1>1, <1>2 DEF Fine
<1>4. call' = [call EXCEPT ![t] = k]
  BY DEF Goto
<1> QED
  BY <1>2, <1>3, <1>4

LEMMA IdleIsFine == Fine(Idle) /\ ~Holds(Idle)
BY DEF Fine, Holds, Idle, Call, Inside, Working, Default, Request

\* A thread returns: out of a call without a session, or giving the lock back.
LEMMA Returns ==
  ASSUME CallsOK, NEW t \in Threads, Return(t),
         \/ scope' = scope /\ ~Holds(call[t])
         \/ scope = t /\ scope' = "free"
  PROVE  CallsOK'
BY IdleIsFine, OneThread DEF Return

\* A thread goes on, outside a session or within it.
LEMMA Goes ==
  ASSUME CallsOK, NEW t \in Threads, NEW s \in ({"idle", "enter"} \cup Inside \cup Working) \ {"run"},
         Goto(t, s),
         \/ scope' = scope /\ Holds(call[t]) /\ s \in Inside
         \/ scope' = scope /\ call[t].pc \in Working /\ s \in Working
         \/ scope = "free" /\ scope' = t /\ call[t].pc = "enter" /\ s \in Inside
  PROVE  CallsOK'
<1>0. s \in Inside \cup {"enter"} => call[t].config # "none"
  BY DEF CallsOK, Fine, Holds, Inside, Working
<1>1. PICK k : Fine(k) /\ call' = [call EXCEPT ![t] = k] /\ k.pc = s /\ k.config = call[t].config
  BY <1>0, GoesTo
<1> QED
  BY <1>1, OneThread DEF Holds, Inside, Working

\* The end of a body, in a call with a session and in one without.
LEMMA Leaves ==
  ASSUME CallsOK, NEW t \in Threads, Leave(t), UNCHANGED scope, call[t].pc \in Working
  PROVE  CallsOK'
<1>1. CASE call[t].config = "none"
  <2>1. Return(t) /\ ~Holds(call[t])
    BY <1>1 DEF Leave, Holds, Inside, Working
  <2> QED
    BY <2>1, Returns
<1>2. CASE call[t].config # "none"
  <2>1. Goto(t, "close") /\ Holds(call[t])
    BY <1>2 DEF Leave, Holds
  <2> QED
    BY <2>1, Goes DEF Inside
<1> QED
  BY <1>1, <1>2

-----------------------------------------------------------------------------
(* The steps of a call, one lemma per action that touches both              *)

LEMMA BeginKeeps ==
  ASSUME CallsOK, NEW t \in Threads, Begin(t)
  PROVE  CallsOK'
<1>1. PICK c \in Configs \cup {"none"}, b \in Bodies :
        call' = [call EXCEPT ![t] =
                   [pc |-> IF c = "none" THEN Start(b) ELSE "enter", config |-> c, body |-> b,
                    request |-> FirstRequest(b), session |-> "none"]]
  BY DEF Begin
<1> DEFINE k == [pc |-> IF c = "none" THEN Start(b) ELSE "enter", config |-> c, body |-> b,
                 request |-> FirstRequest(b), session |-> "none"]
<1>2. b \in {"linker", "package", "batch", "off"}
  BY LoggingAssumption
<1>3. Start(b) \in Working /\ (Start(b) = "run" => b = "batch")
  BY <1>2 DEF Start, Working
<1>4. FirstRequest(b) \in Request \cup {Off} /\ (b # "off" => FirstRequest(b) \in Request)
  BY DEF FirstRequest, Default, Request
<1>5. Fine(k)
  BY <1>3, <1>4 DEF Fine, Call, Inside, Working
<1>6. ~Holds(k)
  BY <1>3 DEF Holds, Inside, Working
<1>7. ~Holds(call[t]) /\ scope' = scope
  BY DEF Begin, At, Holds, Inside, Working
<1> QED
  BY <1>1, <1>5, <1>6, <1>7, OneThread

LEMMA OpenLogKeeps ==
  ASSUME LoggingInv, NEW t \in Threads, OpenLog(t)
  PROVE  SharedOK' /\ runs' \in Nat /\ CallsOK'
<1> DEFINE c == call[t].config
           r == ToConfigureKwargs(c)
<1>1. /\ CallsOK /\ call[t] \in Call /\ Fine(call[t]) /\ call[t].pc = "configure"
      /\ Holds(call[t]) /\ scope = t
  BY DEF LoggingInv, CallsOK, OpenLog, At, Holds, Inside
<1>2. c \in {"off", "plain", "own"} /\ c \in Configs
  BY <1>1, LoggingAssumption DEF Call, Fine, Inside
<1>3. r \in Request \cup {Off}
  BY <1>2 DEF ToConfigureKwargs, Request, Default
<1>4. \E answer : Configure(c, r, answer)
  BY DEF OpenLog
<1>5. SharedOK' /\ runs' \in Nat
  <2> HIDE DEF c, r
  <2> QED  BY <1>2, <1>3, <1>4, Configured DEF LoggingInv
<1>6. CASE Return(t) /\ Abandon
  BY <1>1, <1>5, <1>6, Returns DEF Abandon
<1>7. CASE /\ UNCHANGED scope
           /\ \E answer \in {"none", "path"} :
                call' = [call EXCEPT ![t].pc = "session",
                           ![t].session = IF answer = "none" THEN "disabled" ELSE "opening"]
  <2>1. PICK answer \in {"none", "path"} :
          call' = [call EXCEPT ![t].pc = "session",
                     ![t].session = IF answer = "none" THEN "disabled" ELSE "opening"]
    BY <1>7
  <2> DEFINE k == [call[t] EXCEPT !.pc = "session",
                     !.session = IF answer = "none" THEN "disabled" ELSE "opening"]
  <2>2. call' = [call EXCEPT ![t] = k]
    BY <2>1
  <2>3. /\ k \in Call /\ k.pc = "session" /\ k.config = c /\ k.body = call[t].body
        /\ k.request = call[t].request
    BY <1>1 DEF Call, Inside
  <2>4. Fine(k) /\ Holds(k)
    BY <1>1, <2>3 DEF Fine, Holds, Inside
  <2> QED
    BY <1>1, <1>5, <1>7, <2>2, <2>4, OneThread
<1> QED
  BY <1>5, <1>6, <1>7 DEF OpenLog

LEMMA OpenSessionKeeps ==
  ASSUME CallsOK, NEW t \in Threads, OpenSession(t)
  PROVE  CallsOK'
<1> DEFINE k == [call[t] EXCEPT !.pc = Start(call[t].body), !.session =
                   IF @ = "disabled" \/ configured = NoLog THEN "disabled" ELSE "file"]
<1>1. /\ call[t] \in Call /\ Fine(call[t]) /\ call[t].pc = "session"
      /\ call[t].config # "none" /\ Holds(call[t])
  BY DEF CallsOK, OpenSession, At, Fine, Holds, Inside
<1>2. Start(call[t].body) \in Working /\ (Start(call[t].body) = "run" => call[t].body = "batch")
  BY DEF Start, Working
<1>3. /\ k \in Call /\ k.pc = Start(call[t].body) /\ k.config = call[t].config
      /\ k.body = call[t].body /\ k.request = call[t].request
  BY <1>1, <1>2 DEF Call
<1>4. Fine(k) /\ Holds(k)
  BY <1>1, <1>2, <1>3 DEF Fine, Holds
<1>5. call' = [call EXCEPT ![t] = k] /\ scope' = scope
  BY DEF OpenSession
<1> QED
  BY <1>1, <1>4, <1>5, OneThread

LEMMA ReadRunKeeps ==
  ASSUME LoggingInv, NEW t \in Threads, ReadRun(t)
  PROVE  runs' \in Nat /\ CallsOK'
<1> DEFINE current == IF configured # NoLog THEN configured.run ELSE runs + 1
           k == [call[t] EXCEPT !.pc = "body", !.request.run = current]
<1>1. current \in Nat
  BY DEF LoggingInv, SharedOK, Log
<1>2. runs' \in Nat
  BY <1>1 DEF ReadRun, LoggingInv
<1>3. /\ CallsOK /\ call[t] \in Call /\ Fine(call[t]) /\ call[t].pc = "run"
      /\ call[t].body = "batch" /\ call[t].request \in Request
  BY DEF LoggingInv, CallsOK, ReadRun, At, Fine
<1>4. call' = [call EXCEPT ![t] = k] /\ scope' = scope
  BY DEF ReadRun
<1> HIDE DEF current
<1>5. [call[t].request EXCEPT !.run = current] \in Request
  BY <1>1, <1>3 DEF Request
<1>6. /\ k \in Call /\ k.pc = "body" /\ k.config = call[t].config
      /\ k.body = call[t].body /\ k.request \in Request
  BY <1>3, <1>5 DEF Call, Working
<1>7. Fine(k) /\ (Holds(k) <=> Holds(call[t]))
  BY <1>3, <1>6 DEF Fine, Holds, Inside, Working
<1> QED
  BY <1>2, <1>3, <1>4, <1>7, OneThread

LEMMA ConfigureBodyKeeps ==
  ASSUME LoggingInv, NEW t \in Threads, ConfigureBody(t)
  PROVE  SharedOK' /\ runs' \in Nat /\ CallsOK'
<1>1. /\ CallsOK /\ call[t] \in Call /\ Fine(call[t]) /\ call[t].pc = "body"
      /\ call[t].pc \in Working /\ scope' = scope
  BY DEF LoggingInv, CallsOK, ConfigureBody, At, Working
<1>2. call[t].config \in Configs \cup {"none"} /\ call[t].request \in Request \cup {Off}
  BY <1>1 DEF Call
<1>3. \E answer : Configure(call[t].config, call[t].request, answer)
  BY DEF ConfigureBody
<1>4. SharedOK' /\ runs' \in Nat
  BY <1>2, <1>3, Configured DEF LoggingInv
<1>5. CASE Leave(t)
  BY <1>1, <1>4, <1>5, Leaves
<1>6. CASE Goto(t, "parse")
  BY <1>1, <1>4, <1>6, Goes DEF Working
<1>7. CASE call' = [call EXCEPT ![t].request = Default]
  <2> DEFINE k == [call[t] EXCEPT !.request = Default]
  <2>1. /\ k \in Call /\ k.pc = call[t].pc /\ k.config = call[t].config
        /\ k.body = call[t].body /\ k.request \in Request
    BY <1>1 DEF Call, Default, Request
  <2>2. Fine(k) /\ (Holds(k) <=> Holds(call[t]))
    BY <1>1, <2>1 DEF Fine, Holds
  <2>3. call' = [call EXCEPT ![t] = k]
    BY <1>7
  <2> QED
    BY <1>1, <1>4, <2>2, <2>3, OneThread
<1> QED
  BY <1>4, <1>5, <1>6, <1>7 DEF ConfigureBody

LEMMA EnterKeeps ==
  ASSUME CallsOK, NEW t \in Threads, Enter(t)
  PROVE  CallsOK'
<1>1. call[t].pc = "enter" /\ ~Holds(call[t])
  BY DEF Enter, At, Holds, Inside, Working
<1>2. CASE scope = "free" /\ scope' = t /\ Goto(t, "configure")
  BY <1>1, <1>2, Goes DEF Inside
<1>3. CASE scope' = scope /\ Return(t)
  BY <1>1, <1>3, Returns
<1> QED
  BY <1>2, <1>3 DEF Enter

LEMMA ReleaseKeeps ==
  ASSUME CallsOK, NEW t \in Threads, Release(t)
  PROVE  CallsOK'
<1>1. scope = t
  BY DEF CallsOK, Release, At, Holds, Inside
<1> QED
  BY <1>1, Returns DEF Release

LEMMA CloseKeeps ==
  ASSUME LoggingInv, NEW t \in Threads, Close(t)
  PROVE  SharedOK' /\ CallsOK'
<1>1. CallsOK /\ Goto(t, "release") /\ scope' = scope /\ Holds(call[t])
  BY DEF LoggingInv, Close, At, Holds, Inside
<1>2. CallsOK'
  BY <1>1, Goes DEF Inside
<1>3. SharedOK'
  BY ShutDownKeeps, UnchangedKeeps DEF LoggingInv, Close, SharedOK
<1> QED
  BY <1>2, <1>3

LEMMA Untouched ==
  ASSUME CallsOK, UNCHANGED <<call, scope>>
  PROVE  CallsOK'
BY DEF CallsOK, Call, Fine, Holds, Inside, Working, Request, Off

-----------------------------------------------------------------------------
(* The invariant                                                            *)

LEMMA AtFirst == Init => LoggingInv
<1> SUFFICES ASSUME Init PROVE LoggingInv
  OBVIOUS
<1>1. SharedOK
  BY DEF Init, SharedOK, HandlerIsConfigured, DisabledIsSilent, LoggerRestored
<1>2. CallsOK
  BY IdleIsFine, LoggingAssumption DEF Init, CallsOK, Fine
<1> QED
  BY <1>1, <1>2, LoggingAssumption DEF Init, LoggingInv

LEMMA EachStep == LoggingInv /\ [Next]_vars => LoggingInv'
<1> SUFFICES ASSUME LoggingInv, [Next]_vars PROVE LoggingInv'
  OBVIOUS
<1>0. CallsOK /\ SharedOK /\ runs \in Nat /\ calls \in [Threads -> 0..MaxCalls]
  BY DEF LoggingInv
<1>1. ASSUME NEW t \in Threads, Begin(t) PROVE LoggingInv'
  <2>1. calls' \in [Threads -> 0..MaxCalls]
    BY <1>0, <1>1, LoggingAssumption DEF Begin
  <2> QED
    BY <1>0, <1>1, <2>1, BeginKeeps, UnchangedKeeps DEF Begin, LoggingInv
<1>2. ASSUME NEW t \in Threads, ShutdownProjectLogging(t) PROVE LoggingInv'
  <2>1. calls' \in [Threads -> 0..MaxCalls]
    BY <1>0, <1>2, LoggingAssumption DEF ShutdownProjectLogging
  <2>2. SharedOK'
    BY <1>0, <1>2, ShutDownKeeps DEF ShutdownProjectLogging, SharedOK
  <2>3. CallsOK'
    BY <1>0, <1>2, Untouched DEF ShutdownProjectLogging
  <2> QED
    BY <1>0, <1>2, <2>1, <2>2, <2>3 DEF ShutdownProjectLogging, LoggingInv
<1>3. ASSUME NEW t \in Threads, Proceed(t) PROVE LoggingInv'
  <2>1. calls' = calls
    BY <1>3 DEF Proceed, Enter, OpenLog, OpenSession, ReadRun, ConfigureBody, Parse, Close, Release
  <2>2. CASE OpenLog(t)
    BY <1>0, <2>1, <2>2, OpenLogKeeps DEF LoggingInv
  <2>3. CASE ConfigureBody(t)
    BY <1>0, <2>1, <2>3, ConfigureBodyKeeps DEF LoggingInv
  <2>4. CASE ReadRun(t)
    BY <1>0, <2>1, <2>4, ReadRunKeeps, UnchangedKeeps DEF LoggingInv, ReadRun
  <2>5. CASE Close(t)
    BY <1>0, <2>1, <2>5, CloseKeeps DEF LoggingInv, Close
  <2>6. CASE Enter(t)
    BY <1>0, <2>1, <2>6, EnterKeeps, UnchangedKeeps DEF LoggingInv, Enter
  <2>7. CASE OpenSession(t)
    BY <1>0, <2>1, <2>7, OpenSessionKeeps, UnchangedKeeps DEF LoggingInv, OpenSession
  <2>8. CASE Parse(t)
    <3>1. call[t].pc \in Working /\ Leave(t) /\ UNCHANGED <<shared, runs, scope>>
      BY <2>8 DEF Parse, At, Working
    <3> QED
      BY <1>0, <2>1, <3>1, Leaves, UnchangedKeeps DEF LoggingInv
  <2>9. CASE Release(t)
    BY <1>0, <2>1, <2>9, ReleaseKeeps, UnchangedKeeps DEF LoggingInv, Release
  <2> QED
    BY <1>3, <2>2, <2>3, <2>4, <2>5, <2>6, <2>7, <2>8, <2>9 DEF Proceed
<1>4. CASE UNCHANGED vars
  BY <1>0, <1>4, Untouched, UnchangedKeeps DEF LoggingInv, vars
<1> QED
  BY <1>1, <1>2, <1>3, <1>4 DEF Next, Finished

\* LoggingInv holds throughout, for any number of threads.
THEOREM Invariance == Spec => []LoggingInv
BY AtFirst, EachStep, PTL DEF Spec

\* The variables have their types, for any threads, calls and failures.
THEOREM TypeCorrect == Spec => []TypeOK
<1>1. LoggingInv => TypeOK
  BY DEF LoggingInv, SharedOK, CallsOK, TypeOK, Call
<1> QED
  BY <1>1, Invariance, PTL

\* A record is written once: only the configured log has a handler.
THEOREM OneHandler == Spec => []HandlerIsConfigured
<1>1. LoggingInv => HandlerIsConfigured
  BY DEF LoggingInv, SharedOK
<1> QED
  BY <1>1, Invariance, PTL

\* Logging that was disabled on request stays silent.
THEOREM SilentWhenDisabled == Spec => []DisabledIsSilent
<1>1. LoggingInv => DisabledIsSilent
  BY DEF LoggingInv, SharedOK
<1> QED
  BY <1>1, Invariance, PTL

\* The application's level and propagation are never lost.
THEOREM LoggerGivenBack == Spec => []LoggerRestored
<1>1. LoggingInv => LoggerRestored
  BY DEF LoggingInv, SharedOK
<1> QED
  BY <1>1, Invariance, PTL

\* The scope lock is held by the call inside a session and by no other.
THEOREM LockIsHeld == Spec => []ScopeHeld
<1>1. LoggingInv => ScopeHeld
  BY DEF LoggingInv, CallsOK, Holds, ScopeHeld
<1> QED
  BY <1>1, Invariance, PTL

\* A thread writes its own record only.
LEMMA OwnRecord ==
  ASSUME call \in [Threads -> Call], NEW t \in Threads, Begin(t) \/ Proceed(t),
         NEW u \in Threads, u # t
  PROVE  call'[u] = call[u]
<1>1. CASE Begin(t)
  BY <1>1 DEF Begin
<1>2. CASE \/ \E s : Goto(t, s)
           \/ Return(t)
           \/ Leave(t)
           \/ \E answer, name : call' = [call EXCEPT ![t].pc = name, ![t].session = answer]
           \/ \E name, run : call' = [call EXCEPT ![t].pc = name, ![t].request.run = run]
           \/ call' = [call EXCEPT ![t].request = Default]
  BY <1>2 DEF Goto, Return, Leave
<1>3. CASE Proceed(t)
  <2>1. CASE Enter(t) \/ ConfigureBody(t) \/ Parse(t) \/ Close(t) \/ Release(t)
    BY <1>2, <2>1 DEF Enter, ConfigureBody, Parse, Close, Release
  <2>2. CASE OpenLog(t)
    BY <1>2, <2>2 DEF OpenLog
  <2>3. CASE OpenSession(t) \/ ReadRun(t)
    BY <1>2, <2>3 DEF OpenSession, ReadRun
  <2> QED
    BY <1>3, <2>1, <2>2, <2>3 DEF Proceed
<1> QED
  BY <1>1, <1>3

\* A call that asks for a session does not touch the log of another's.
THEOREM SessionIsProtected == Spec => ScopeProtectsLog
<1> DEFINE Protected ==
      \A t, u \in Threads :
        scope = t /\ u # t /\ call'[u] # call[u] /\ call[u].config # "none"
          => configured' = configured /\ handlers' = handlers
<1>1. LoggingInv /\ [Next]_vars => [Protected]_vars
  <2> SUFFICES ASSUME LoggingInv, Next,
                      NEW t \in Threads, NEW u \in Threads, scope = t, u # t,
                      call'[u] # call[u], call[u].config # "none"
               PROVE  configured' = configured /\ handlers' = handlers
    BY DEF vars
  <2>1. call \in [Threads -> Call] /\ call[u] \in Call /\ ~Holds(call[u])
    BY DEF LoggingInv, CallsOK
  <2>2. call[u].pc \in {"idle", "enter"}
    BY <2>1 DEF Call, Holds
  <2>3. Begin(u) \/ Proceed(u)
    BY <2>1, OwnRecord DEF Next, ShutdownProjectLogging, Finished, vars
  <2>4. Begin(u) \/ Enter(u)
    BY <2>2, <2>3 DEF Proceed, OpenLog, OpenSession, ReadRun, ConfigureBody, Parse, Close, Release, At
  <2> QED
    BY <2>4 DEF Begin, Enter, shared
<1>2. Spec => [][Protected]_vars
  BY <1>1, Invariance, PTL DEF Spec
<1> QED
  BY <1>2 DEF ScopeProtectsLog
=============================================================================
