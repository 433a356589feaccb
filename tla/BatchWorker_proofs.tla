------------------------ MODULE BatchWorker_proofs ------------------------
(***************************************************************************)
(* Proofs about run_isolated_asset, for every pipe capacity, every amount  *)
(* of logging, every kind of option and every set of failures.             *)
(***************************************************************************)
EXTENDS BatchWorker, TLAPS

USE DEF PreTry, Monitor, Killing,
        Finally, ParentStates, Working, Held, Alive, ChildStates, Failures, Outcomes

LEMMA InitInv == Init => WorkerInv
<1> SUFFICES ASSUME Init PROVE WorkerInv
  OBVIOUS
<1> USE WorkerAssumption DEF Init, WorkerAssumption
<1>1. TypeOK
  BY DEF TypeOK
<1>2. SpawnOnce
  BY DEF SpawnOnce, Unspawned, Abandoned
<1>3. VerdictIsOutput
  BY DEF VerdictIsOutput, OutputWhole, Undecided
<1>4. CleanInOrder
  BY DEF CleanInOrder, Cleaning
<1> QED
  BY <1>1, <1>2, <1>3, <1>4 DEF WorkerInv

\* Each variable keeps its type.
LEMMA TypeStep == TypeOK /\ [Next]_vars => TypeOK'
<1> SUFFICES ASSUME TypeOK, [Next]_vars PROVE TypeOK'
  OBVIOUS
<1> USE WorkerAssumption
<1> USE DEF TypeOK, vars, parentVars, fileVars, childVars, Quiet, WorkerIdle,
            ParentIdle, DrainIdle, Blunders, Moves, Goto, Escapes, Returns, Raises,
            May, CannotUnlink, ChildGoto
<1>a. /\ mishaps \cup {"thread"} \subseteq Mishaps
      /\ mishaps \cup {"stubborn"} \subseteq Mishaps
      /\ mishaps \cup {"unlink"} \subseteq Mishaps
  BY DEF Mishaps
<1>1. CASE ParentNext
  <2>1. CASE ReserveRequest BY <2>1 DEF ReserveRequest
  <2>2. CASE ReserveResult BY <2>2 DEF ReserveResult
  <2>3. CASE DropResult BY <1>a, <2>3 DEF DropResult
  <2>4. CASE WriteRequest BY <2>4 DEF WriteRequest, Encodable
  <2>5. CASE Spawn BY <1>a, <2>5 DEF Spawn
  <2>6. CASE PollAlive BY <2>6 DEF PollAlive
  <2>7. CASE CheckLimits BY <2>7 DEF CheckLimits
  <2>8. CASE CollectResult BY <2>8 DEF CollectResult, Collected
  <2>9. CASE SendTerm BY <2>9 DEF SendTerm
  <2>10. CASE JoinTerminated BY <2>10 DEF JoinTerminated
  <2>11. CASE JoinKilled BY <1>a, <2>11 DEF JoinKilled
  <2>12. CASE EnsureDead BY <2>12 DEF EnsureDead
  <2>13. CASE DropTemp BY <1>a, <2>13 DEF DropTemp
  <2>14. CASE DropRequest BY <1>a, <2>14 DEF DropRequest
  <2>15. CASE RemoveResult BY <1>a, <2>15 DEF RemoveResult
  <2> QED
    BY <1>1, <2>1, <2>2, <2>3, <2>4, <2>5, <2>6, <2>7, <2>8, <2>9, <2>10,
       <2>11, <2>12, <2>13, <2>14, <2>15 DEF ParentNext
<1>2. CASE Interrupted BY <1>2 DEF Interrupted
<1>3. CASE ChildNext
  <2>1. CASE ReadRequest BY <2>1 DEF ReadRequest
  <2>2. CASE LogLine BY <2>2 DEF LogLine
  <2>3. CASE Parse BY <2>3 DEF Parse
  <2>4. CASE OpenTemp BY <2>4 DEF OpenTemp
  <2>5. CASE WriteTemp BY <2>5 DEF WriteTemp, Filled
  <2>6. CASE ReplaceOutput BY <2>6 DEF ReplaceOutput
  <2>7. CASE TidyTemp BY <2>7 DEF TidyTemp
  <2>8. CASE OpenResult BY <2>8 DEF OpenResult
  <2>9. CASE WriteResult BY <2>9 DEF WriteResult
  <2>10. CASE Exit BY <2>10 DEF Exit
  <2> QED
    BY <1>3, <2>1, <2>2, <2>3, <2>4, <2>5, <2>6, <2>7, <2>8, <2>9, <2>10
    DEF ChildNext
<1>4. CASE Dies BY <1>4 DEF Dies
<1>5. CASE DrainLine BY <1>5 DEF DrainLine
<1>6. CASE DrainEnds BY <1>6 DEF DrainEnds
<1>7. CASE Deadline BY <1>7 DEF Deadline
<1>8. CASE UNCHANGED vars BY <1>8
<1> QED
  BY <1>1, <1>2, <1>3, <1>4, <1>5, <1>6, <1>7, <1>8 DEF Next, Settled

\* A worker appears in Spawn and nowhere else.
LEMMA SpawnOnceStep == WorkerInv /\ [Next]_vars => SpawnOnce'
<1> SUFFICES ASSUME TypeOK, SpawnOnce, [Next]_vars PROVE SpawnOnce'
  BY DEF WorkerInv
<1> USE DEF SpawnOnce, Unspawned, Abandoned, vars, parentVars, fileVars,
            childVars, Quiet, WorkerIdle, ParentIdle, DrainIdle, Blunders,
            Moves, Goto, Escapes, Returns, Raises, CannotUnlink, ChildGoto
<1> /\ resume \in {"ensure_dead", "drop_temp"}
    /\ result \in {"none", "empty", "part", "ok", "fail"}
    /\ temp \in {"none", "part", "full"}
  BY DEF TypeOK
<1>1. CASE ParentNext
  <2>1. CASE ReserveRequest BY <2>1 DEF ReserveRequest
  <2>2. CASE ReserveResult BY <2>2 DEF ReserveResult
  <2>3. CASE DropResult BY <2>3 DEF DropResult
  <2>4. CASE WriteRequest BY <2>4 DEF WriteRequest, Encodable
  <2>5. CASE Spawn BY <2>5 DEF Spawn
  <2>6. CASE PollAlive BY <2>6 DEF PollAlive
  <2>7. CASE CheckLimits BY <2>7 DEF CheckLimits
  <2>8. CASE CollectResult BY <2>8 DEF CollectResult, Collected
  <2>9. CASE SendTerm BY <2>9 DEF SendTerm
  <2>10. CASE JoinTerminated BY <2>10 DEF JoinTerminated
  <2>11. CASE JoinKilled BY <2>11 DEF JoinKilled
  <2>12. CASE EnsureDead BY <2>12 DEF EnsureDead
  <2>13. CASE DropTemp BY <2>13 DEF DropTemp
  <2>14. CASE DropRequest BY <2>14 DEF DropRequest
  <2>15. CASE RemoveResult BY <2>15 DEF RemoveResult
  <2> QED
    BY <1>1, <2>1, <2>2, <2>3, <2>4, <2>5, <2>6, <2>7, <2>8, <2>9, <2>10,
       <2>11, <2>12, <2>13, <2>14, <2>15
    DEF ParentNext
<1>2. CASE Interrupted BY <1>2 DEF Interrupted
<1>3. CASE ChildNext
  <2>1. CASE ReadRequest BY <2>1 DEF ReadRequest
  <2>2. CASE LogLine BY <2>2 DEF LogLine
  <2>3. CASE Parse BY <2>3 DEF Parse
  <2>4. CASE OpenTemp BY <2>4 DEF OpenTemp
  <2>5. CASE WriteTemp BY <2>5 DEF WriteTemp, Filled
  <2>6. CASE ReplaceOutput BY <2>6 DEF ReplaceOutput
  <2>7. CASE TidyTemp BY <2>7 DEF TidyTemp
  <2>8. CASE OpenResult BY <2>8 DEF OpenResult
  <2>9. CASE WriteResult BY <2>9 DEF WriteResult
  <2>10. CASE Exit BY <2>10 DEF Exit
  <2> QED
    BY <1>3, <2>1, <2>2, <2>3, <2>4, <2>5, <2>6, <2>7, <2>8, <2>9, <2>10
    DEF ChildNext
<1>4. CASE Dies BY <1>4 DEF Dies
<1>5. CASE DrainLine BY <1>5 DEF DrainLine
<1>6. CASE DrainEnds BY <1>6 DEF DrainEnds
<1>7. CASE Deadline BY <1>7 DEF Deadline
<1>8. CASE UNCHANGED vars BY <1>8
<1> QED
  BY <1>1, <1>2, <1>3, <1>4, <1>5, <1>6, <1>7, <1>8 DEF Next, Settled

\* The output and the verdict change together, in ReplaceOutput.
LEMMA VerdictStep == WorkerInv /\ [Next]_vars => VerdictIsOutput'
<1> SUFFICES ASSUME TypeOK, SpawnOnce, VerdictIsOutput, [Next]_vars PROVE VerdictIsOutput'
  BY DEF WorkerInv
<1> USE DEF SpawnOnce, Unspawned, VerdictIsOutput, OutputWhole, Undecided,
            vars, parentVars, fileVars, childVars, Quiet, WorkerIdle,
            ParentIdle, DrainIdle, Blunders, Moves, Goto, Escapes, Returns,
            Raises, CannotUnlink, ChildGoto
<1> /\ resume \in {"ensure_dead", "drop_temp"}
    /\ result \in {"none", "empty", "part", "ok", "fail"}
    /\ temp \in {"none", "part", "full"}
  BY DEF TypeOK
<1>1. CASE ParentNext
  <2>1. CASE ReserveRequest BY <2>1 DEF ReserveRequest
  <2>2. CASE ReserveResult BY <2>2 DEF ReserveResult
  <2>3. CASE DropResult BY <2>3 DEF DropResult
  <2>4. CASE WriteRequest BY <2>4 DEF WriteRequest, Encodable
  <2>5. CASE Spawn BY <2>5 DEF Spawn
  <2>6. CASE PollAlive BY <2>6 DEF PollAlive
  <2>7. CASE CheckLimits BY <2>7 DEF CheckLimits
  <2>8. CASE CollectResult BY <2>8 DEF CollectResult, Collected
  <2>9. CASE SendTerm BY <2>9 DEF SendTerm
  <2>10. CASE JoinTerminated BY <2>10 DEF JoinTerminated
  <2>11. CASE JoinKilled BY <2>11 DEF JoinKilled
  <2>12. CASE EnsureDead BY <2>12 DEF EnsureDead
  <2>13. CASE DropTemp BY <2>13 DEF DropTemp
  <2>14. CASE DropRequest BY <2>14 DEF DropRequest
  <2>15. CASE RemoveResult BY <2>15 DEF RemoveResult
  <2> QED
    BY <1>1, <2>1, <2>2, <2>3, <2>4, <2>5, <2>6, <2>7, <2>8, <2>9, <2>10,
       <2>11, <2>12, <2>13, <2>14, <2>15
    DEF ParentNext
<1>2. CASE Interrupted BY <1>2 DEF Interrupted
<1>3. CASE ChildNext
  <2>1. CASE ReadRequest BY <2>1 DEF ReadRequest
  <2>2. CASE LogLine BY <2>2 DEF LogLine
  <2>3. CASE Parse BY <2>3 DEF Parse
  <2>4. CASE OpenTemp BY <2>4 DEF OpenTemp
  <2>5. CASE WriteTemp BY <2>5 DEF WriteTemp, Filled
  <2>6. CASE ReplaceOutput BY <2>6 DEF ReplaceOutput
  <2>7. CASE TidyTemp BY <2>7 DEF TidyTemp
  <2>8. CASE OpenResult BY <2>8 DEF OpenResult
  <2>9. CASE WriteResult BY <2>9 DEF WriteResult
  <2>10. CASE Exit BY <2>10 DEF Exit
  <2> QED
    BY <1>3, <2>1, <2>2, <2>3, <2>4, <2>5, <2>6, <2>7, <2>8, <2>9, <2>10
    DEF ChildNext
<1>4. CASE Dies BY <1>4 DEF Dies
<1>5. CASE DrainLine BY <1>5 DEF DrainLine
<1>6. CASE DrainEnds BY <1>6 DEF DrainEnds
<1>7. CASE Deadline BY <1>7 DEF Deadline
<1>8. CASE UNCHANGED vars BY <1>8
<1> QED
  BY <1>1, <1>2, <1>3, <1>4, <1>5, <1>6, <1>7, <1>8 DEF Next, Settled

\* Cleaning starts behind a dead worker and undoes nothing.
LEMMA CleanStep == WorkerInv /\ [Next]_vars => CleanInOrder'
<1> SUFFICES ASSUME TypeOK, SpawnOnce, CleanInOrder, [Next]_vars PROVE CleanInOrder'
  BY DEF WorkerInv
<1> USE DEF SpawnOnce, Unspawned, CleanInOrder, Cleaning, Abandoned, vars,
            parentVars, fileVars, childVars, Quiet, WorkerIdle, ParentIdle,
            DrainIdle, Blunders, Moves, Goto, Escapes, Returns, Raises,
            CannotUnlink, ChildGoto
<1> /\ resume \in {"ensure_dead", "drop_temp"}
    /\ result \in {"none", "empty", "part", "ok", "fail"}
    /\ temp \in {"none", "part", "full"}
  BY DEF TypeOK
<1>1. CASE ParentNext
  <2>1. CASE ReserveRequest BY <2>1 DEF ReserveRequest
  <2>2. CASE ReserveResult BY <2>2 DEF ReserveResult
  <2>3. CASE DropResult BY <2>3 DEF DropResult
  <2>4. CASE WriteRequest BY <2>4 DEF WriteRequest, Encodable
  <2>5. CASE Spawn BY <2>5 DEF Spawn
  <2>6. CASE PollAlive BY <2>6 DEF PollAlive
  <2>7. CASE CheckLimits BY <2>7 DEF CheckLimits
  <2>8. CASE CollectResult BY <2>8 DEF CollectResult, Collected
  <2>9. CASE SendTerm BY <2>9 DEF SendTerm
  <2>10. CASE JoinTerminated BY <2>10 DEF JoinTerminated
  <2>11. CASE JoinKilled BY <2>11 DEF JoinKilled
  <2>12. CASE EnsureDead BY <2>12 DEF EnsureDead
  <2>13. CASE DropTemp BY <2>13 DEF DropTemp
  <2>14. CASE DropRequest BY <2>14 DEF DropRequest
  <2>15. CASE RemoveResult BY <2>15 DEF RemoveResult
  <2> QED
    BY <1>1, <2>1, <2>2, <2>3, <2>4, <2>5, <2>6, <2>7, <2>8, <2>9, <2>10,
       <2>11, <2>12, <2>13, <2>14, <2>15
    DEF ParentNext
<1>2. CASE Interrupted BY <1>2 DEF Interrupted
<1>3. CASE ChildNext
  <2>1. CASE ReadRequest BY <2>1 DEF ReadRequest
  <2>2. CASE LogLine BY <2>2 DEF LogLine
  <2>3. CASE Parse BY <2>3 DEF Parse
  <2>4. CASE OpenTemp BY <2>4 DEF OpenTemp
  <2>5. CASE WriteTemp BY <2>5 DEF WriteTemp, Filled
  <2>6. CASE ReplaceOutput BY <2>6 DEF ReplaceOutput
  <2>7. CASE TidyTemp BY <2>7 DEF TidyTemp
  <2>8. CASE OpenResult BY <2>8 DEF OpenResult
  <2>9. CASE WriteResult BY <2>9 DEF WriteResult
  <2>10. CASE Exit BY <2>10 DEF Exit
  <2> QED
    BY <1>3, <2>1, <2>2, <2>3, <2>4, <2>5, <2>6, <2>7, <2>8, <2>9, <2>10
    DEF ChildNext
<1>4. CASE Dies BY <1>4 DEF Dies
<1>5. CASE DrainLine BY <1>5 DEF DrainLine
<1>6. CASE DrainEnds BY <1>6 DEF DrainEnds
<1>7. CASE Deadline BY <1>7 DEF Deadline
<1>8. CASE UNCHANGED vars BY <1>8
<1> QED
  BY <1>1, <1>2, <1>3, <1>4, <1>5, <1>6, <1>7, <1>8 DEF Next, Settled

LEMMA InvStep == WorkerInv /\ [Next]_vars => WorkerInv'
<1> SUFFICES ASSUME WorkerInv, [Next]_vars PROVE WorkerInv'
  OBVIOUS
<1>1. TypeOK'
  BY TypeStep DEF WorkerInv
<1> QED
  BY <1>1, SpawnOnceStep, VerdictStep, CleanStep DEF WorkerInv

\* The inductive invariant holds of every call, with or without fairness.
THEOREM Invariance == WorkerSafety => []WorkerInv
BY InitInv, InvStep, PTL DEF WorkerSafety

\* Types, and the three safety properties of the call.
THEOREM TypeCorrect == WorkerSafety => []TypeOK
<1>1. WorkerInv => TypeOK
  BY DEF WorkerInv
<1> QED
  BY <1>1, Invariance, PTL

THEOREM NeverHalfWritten == WorkerSafety => []OutputWhole
<1>1. WorkerInv => OutputWhole
  BY DEF WorkerInv, VerdictIsOutput
<1> QED
  BY <1>1, Invariance, PTL

\* The answer tells the truth about the output.
THEOREM AnswerIsTrue == WorkerSafety => []AnswerMatchesOutput
<1>1. WorkerInv => AnswerMatchesOutput
  <2> SUFFICES ASSUME WorkerInv PROVE AnswerMatchesOutput
    OBVIOUS
  <2> USE DEF WorkerInv, VerdictIsOutput, OutputWhole
  <2>1. output \in {"old", "part", "new"}
    BY DEF TypeOK
  <2>2. pending = "ok" => output = "new"
    OBVIOUS
  <2>3. pending = "fail" => output = "old"
    BY <2>1
  <2>4. pending = "refused" => output = "old"
    BY <2>1 DEF SpawnOnce, Undecided
  <2> QED
    BY <2>2, <2>3, <2>4 DEF AnswerMatchesOutput
<1> QED
  BY <1>1, Invariance, PTL

\* Nothing the call started or wrote for itself outlives it.
THEOREM NothingLeft == WorkerSafety => []NothingLeftBehind
<1>1. WorkerInv => NothingLeftBehind
  BY DEF WorkerInv, CleanInOrder, Cleaning, NothingLeftBehind
<1> QED
  BY <1>1, Invariance, PTL

\* After the answer no action of the parent is left, and no worker lives.
THEOREM NoLateChange == WorkerSafety => QuietAfterReturn
<1>1. ASSUME WorkerInv, [Next]_vars, pc = "done", ~Abandoned
      PROVE  UNCHANGED fileVars
  <2>1. ~Alive
    BY <1>1 DEF WorkerInv, CleanInOrder, Cleaning
  <2>2. ~ParentNext /\ ~Interrupted /\ ~Deadline
    BY <1>1 DEF ParentNext, ReserveRequest, ReserveResult, DropResult, WriteRequest,
       Spawn, PollAlive, CheckLimits, CollectResult, SendTerm, JoinTerminated,
       JoinKilled, EnsureDead, DropTemp, DropRequest, RemoveResult, Interrupted,
       Deadline
  <2>3. ~ChildNext /\ ~Dies
    BY <2>1 DEF ChildNext, ReadRequest, LogLine, Parse, OpenTemp, WriteTemp,
       ReplaceOutput, TidyTemp, OpenResult, WriteResult, Exit, Dies, ChildGoto
  <2>4. DrainLine \/ DrainEnds \/ Settled \/ UNCHANGED vars
    BY <1>1, <2>2, <2>3 DEF Next
  <2> QED
    BY <2>4 DEF DrainLine, DrainEnds, Settled, DrainIdle, vars
<1>2. WorkerInv /\ [Next]_vars
        => [pc = "done" /\ ~Abandoned => UNCHANGED fileVars]_vars
  BY <1>1
<1> QED
  BY <1>2, Invariance, PTL DEF WorkerSafety, QuietAfterReturn

-----------------------------------------------------------------------------
(***************************************************************************)
(* The call implements AtomicPublish.  An action of the call is one of     *)
(* four kinds: it changes nothing a caller sees, it publishes, it loses    *)
(* the worker, or it answers.                                              *)
(***************************************************************************)
Unseen == UNCHANGED <<output, mishaps>> /\ pc # "done" /\ pc' # "done"
Later == UNCHANGED <<output, mishaps, pc, pending>>
Loses ==
  /\ UNCHANGED output /\ pc # "done" /\ pc' # "done"
  /\ Abandoned => Abandoned'
Answering ==
  /\ UNCHANGED output /\ pc # "done" /\ pc' = "done"
  /\ Abandoned' <=> Abandoned

LEMMA ParentKinds == WorkerInv /\ ParentNext => Unseen \/ Loses \/ Answering
<1> SUFFICES ASSUME WorkerInv, ParentNext PROVE Unseen \/ Loses \/ Answering
  OBVIOUS
<1> USE DEF Unseen, Loses, Answering, Abandoned, Moves, Goto, Escapes, Returns,
            Raises, Blunders, CannotUnlink, fileVars, WorkerIdle, Quiet
<1> /\ resume \in {"ensure_dead", "drop_temp"}
  BY DEF WorkerInv, TypeOK
<1>1. CASE ReserveRequest BY <1>1 DEF ReserveRequest
<1>2. CASE ReserveResult BY <1>2 DEF ReserveResult
<1>3. CASE DropResult BY <1>3 DEF DropResult
<1>4. CASE WriteRequest BY <1>4 DEF WriteRequest
<1>5. CASE Spawn BY <1>5 DEF Spawn
<1>6. CASE PollAlive BY <1>6 DEF PollAlive
<1>7. CASE CheckLimits BY <1>7 DEF CheckLimits
<1>8. CASE CollectResult BY <1>8 DEF CollectResult
<1>9. CASE SendTerm BY <1>9 DEF SendTerm
<1>10. CASE JoinTerminated BY <1>10 DEF JoinTerminated
<1>11. CASE JoinKilled BY <1>11 DEF JoinKilled
<1>12. CASE EnsureDead BY <1>12 DEF EnsureDead
<1>13. CASE DropTemp BY <1>13 DEF DropTemp
<1>14. CASE DropRequest BY <1>14 DEF DropRequest
<1>15. CASE RemoveResult BY <1>15 DEF RemoveResult
<1> QED
  BY <1>1, <1>2, <1>3, <1>4, <1>5, <1>6, <1>7, <1>8, <1>9, <1>10, <1>11,
     <1>12, <1>13, <1>14, <1>15 DEF ParentNext

LEMMA OtherKinds ==
  Interrupted \/ (ChildNext /\ ~ReplaceOutput) \/ Dies \/ DrainLine \/ DrainEnds
    \/ Deadline \/ Settled \/ UNCHANGED vars
  => Unseen \/ Later
<1> USE DEF Unseen, Later, vars, parentVars, fileVars, childVars, Quiet, WorkerIdle,
            ParentIdle, DrainIdle, Moves, Returns, Raises
<1>1. Interrupted => Unseen
  BY DEF Interrupted
<1>2. ChildNext /\ ~ReplaceOutput => Later
  BY DEF ChildNext, ReadRequest, LogLine, Parse, OpenTemp, WriteTemp, TidyTemp,
     OpenResult, WriteResult, Exit
<1>3. Dies \/ DrainLine \/ DrainEnds \/ Deadline \/ Settled \/ UNCHANGED vars => Later
  BY DEF Dies, DrainLine, DrainEnds, Deadline, Settled
<1> QED
  BY <1>1, <1>2, <1>3

\* What the abstract state is in terms of the call's.
LEMMA SimulateStep == WorkerInv /\ WorkerInv' /\ [Next]_vars => [Promise!PublishNext]_Promise!pvars
<1> SUFFICES ASSUME WorkerInv, WorkerInv', [Next]_vars
             PROVE  Promise!PublishNext \/ UNCHANGED Promise!pvars
  OBVIOUS
<1> USE DEF Promise!PublishNext, Promise!pvars, Promise!Publish, Promise!Abandon,
            Promise!AnswerPublished, Promise!AnswerFailed
<1>1. ASSUME Unseen \/ Later PROVE UNCHANGED Promise!pvars
  BY <1>1 DEF Unseen, Later, Abandoned
<1>2. ASSUME Loses PROVE Promise!Abandon \/ UNCHANGED Promise!pvars
  BY <1>2 DEF Loses
<1>3. ASSUME Answering PROVE Promise!AnswerPublished \/ Promise!AnswerFailed
  <2>1. pending' = "ok" => output' = "new"
    BY DEF WorkerInv, VerdictIsOutput
  <2> QED
    BY <1>3, <2>1 DEF Answering
<1>4. ASSUME ReplaceOutput PROVE Promise!Publish \/ UNCHANGED Promise!pvars
  <2>1. UNCHANGED <<pc, pending, mishaps>>
    BY <1>4 DEF ReplaceOutput, ParentIdle, parentVars
  <2>2. pc = "done" => Abandoned
    BY <1>4 DEF ReplaceOutput, ChildGoto, WorkerInv, CleanInOrder, Cleaning
  <2>3. output = "old"
    BY <1>4 DEF ReplaceOutput, ChildGoto, WorkerInv, TypeOK, VerdictIsOutput,
       OutputWhole, Undecided
  <2>4. output' = "new" \/ output' = output
    BY <1>4 DEF ReplaceOutput, WorkerInv, VerdictIsOutput, OutputWhole
  <2> QED
    BY <2>1, <2>2, <2>3, <2>4 DEF Abandoned
<1> QED
  BY <1>1, <1>2, <1>3, <1>4, ParentKinds, OtherKinds DEF Next

\* Every behaviour of the call, seen through the output file and the answer,
\* is a behaviour of AtomicPublish.
THEOREM Implements == WorkerSafety => Publishes
<1>1. Init => Promise!PublishInit
  BY DEF Init, Promise!PublishInit, Abandoned
<1> QED
  BY <1>1, SimulateStep, Invariance, PTL
  DEF WorkerSafety, Publishes, Promise!PublishSafety
=============================================================================
