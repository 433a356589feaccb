-------------------------- MODULE BatchDriver_proofs --------------------------
(***************************************************************************)
(* parse_batch for any list of assets, any names and sizes and any subset  *)
(* of the failures: what a step of the loop does to the lists and to the   *)
(* documents is said by three lemmas, one for each way an iteration goes   *)
(* on (Stays, Failed, Succeeded), and the actions are instances of them.   *)
(***************************************************************************)
EXTENDS BatchDriver, DataInduction

Alone(p) == \A q \in Sources \ {p} : OutputName[q] # OutputName[p]

\* An iteration is of an asset of the list, and in this process where no asset
\* is isolated.
Reached == pc \notin {"gate", "done", "aborted"} => i <= Len(Paths)
InProcess == mode = "false" => pc # "worker"

\* What SuccessStands says of the end, for the assets behind the loop.
Standing ==
  \A k \in 1..Len(Paths) :
    k < i /\ ~Contains(failed, Paths[k]) /\ Alone(Paths[k])
      => document[OutputName[Paths[k]]] = Paths[k]

\* The loop returns with nothing ahead but what the gate skipped.
RestSkipped == pc = "done" => \A k \in 1..Len(Paths) : k >= i => Contains(skipped, Paths[k])

Listed ==
  /\ success \in Seq(Outputs) /\ failed \in Seq(Sources) /\ skipped \in Seq(Sources)
  /\ document \in [Outputs -> Sources \cup {"previous"}]

\* Until the gate skips the rest, every asset behind the loop is on one list.
Counted == skipped = <<>> /\ Len(success) + Len(failed) = i - 1

\* Until the batch is interrupted, an output not yet listed is the previous one.
PreviousKept ==
  mode = "false" => \A o \in Outputs :
    o \notin {success[k] : k \in DOMAIN success} => document[o] = "previous"

\* The part of the invariant that lists and documents share.
Books == Listed /\ Counted /\ Standing /\ PreviousKept

Running == pc \notin {"done", "aborted"}

\* What the report says of the assets behind the loop: each is failed or its
\* output is listed, in order; the partial ones are among them, or at hand.
Tried == {Paths[k] : k \in 1..(i - 1)}
Kept == {p \in Tried : ~Contains(failed, p)}
SuccessesListed == success = OutputsOf(Kept)[Len(Paths)]
FailuresListed == IsInjective(failed) /\ \A k \in DOMAIN failed : failed[k] \in Tried
PartialsListed ==
  /\ IsInjective(partial)
  /\ \A k \in DOMAIN partial :
       partial[k] \in Tried
       \/ /\ i <= Len(Paths) /\ partial[k] = path
          /\ pc \in {"mkstemp", "fdopen", "write", "replace", "aborted"}
RestListed == pc = "done" => skipped = SubSeq(Paths, i, Len(Paths))

Accounts == SuccessesListed /\ FailuresListed /\ PartialsListed /\ RestListed

BatchInv ==
  /\ TypeOK /\ Reached /\ InProcess /\ RestSkipped
  /\ pc # "done" => Counted
  /\ SkippedIsTail /\ Standing /\ InProcessFailureKeepsDocument

-----------------------------------------------------------------------------
LEMMA ElementsOfAppend ==
  ASSUME NEW S, NEW s \in Seq(S), NEW e \in S
  PROVE  /\ Append(s, e) \in Seq(S)
         /\ Len(Append(s, e)) = Len(s) + 1
         /\ Contains(Append(s, e), e)
         /\ \A d : Contains(s, d) => Contains(Append(s, e), d)
         /\ e \in {Append(s, e)[k] : k \in DOMAIN Append(s, e)}
         /\ \A d \in {s[k] : k \in DOMAIN s} : d \in {Append(s, e)[k] : k \in DOMAIN Append(s, e)}
<1>1. /\ Append(s, e) \in Seq(S)
      /\ Len(Append(s, e)) = Len(s) + 1
      /\ Append(s, e)[Len(s) + 1] = e
      /\ \A k \in 1..Len(s) : Append(s, e)[k] = s[k]
      /\ DOMAIN Append(s, e) = 1..Len(s) + 1
      /\ DOMAIN s = 1..Len(s)
      /\ Len(s) \in Nat
  OBVIOUS
<1>2. Contains(Append(s, e), e)
  <2>1. Len(s) + 1 \in 1..Len(Append(s, e))
    BY <1>1
  <2> QED
    BY <1>1, <2>1 DEF Contains
<1>3. \A d : Contains(s, d) => Contains(Append(s, e), d)
  <2>1. \A k \in 1..Len(s) : k \in 1..Len(Append(s, e))
    BY <1>1
  <2> QED
    BY <1>1, <2>1 DEF Contains
<1>4. e \in {Append(s, e)[k] : k \in DOMAIN Append(s, e)}
  <2>1. Len(s) + 1 \in DOMAIN Append(s, e)
    BY <1>1
  <2> QED
    BY <1>1, <2>1
<1>5. \A d \in {s[k] : k \in DOMAIN s} : d \in {Append(s, e)[k] : k \in DOMAIN Append(s, e)}
  <2>1. \A k \in 1..Len(s) : k \in DOMAIN Append(s, e)
    BY <1>1
  <2> QED
    BY <1>1, <2>1
<1> QED
  BY <1>1, <1>2, <1>3, <1>4, <1>5

LEMMA ElementsOfConcatenation ==
  ASSUME NEW S, NEW s \in Seq(S), NEW t \in Seq(S)
  PROVE  /\ s \o t \in Seq(S)
         /\ Len(s \o t) = Len(s) + Len(t)
         /\ \A k \in 1..Len(t) : (s \o t)[Len(s) + k] = t[k]
<1>1. s \o t \in Seq(S) /\ Len(s \o t) = Len(s) + Len(t)
  OBVIOUS
<1>2. ASSUME NEW k \in 1..Len(t)
      PROVE  (s \o t)[Len(s) + k] = t[k]
  <2>1. Len(s) \in Nat /\ Len(t) \in Nat
    OBVIOUS
  <2>2. Len(s) + k \in 1..(Len(s) + Len(t)) /\ Len(s) + k > Len(s)
    BY <2>1
  <2>3. (s \o t)[Len(s) + k] = t[Len(s) + k - Len(s)]
    BY <2>1, <2>2
  <2> QED
    BY <2>1, <2>3
<1> QED
  BY <1>1, <1>2

LEMMA TailIsSuffix ==
  ASSUME NEW S, NEW t \in Seq(S), NEW m \in 1..Len(t)
  PROVE  IsSuffix(SubSeq(t, m, Len(t)), t)
<1> DEFINE s == SubSeq(t, m, Len(t))
<1>1. /\ Len(t) \in Nat /\ s \in Seq(S) /\ Len(s) = Len(t) - m + 1
      /\ \A k \in 1..Len(s) : s[k] = t[m + k - 1]
  OBVIOUS
<1> HIDE DEF s
<1>2. /\ Reverse(s) = [k \in 1..Len(s) |-> s[(Len(s) - k) + 1]]
      /\ Reverse(t) = [k \in 1..Len(t) |-> t[(Len(t) - k) + 1]]
  BY DEF Reverse
<1>3. /\ Reverse(s) \in Seq(S) /\ Len(Reverse(s)) = Len(s)
      /\ Reverse(t) \in Seq(S) /\ Len(Reverse(t)) = Len(t)
  <2>1. \A k \in 1..Len(s) : (Len(s) - k) + 1 \in 1..Len(s)
    BY <1>1
  <2>2. \A k \in 1..Len(t) : (Len(t) - k) + 1 \in 1..Len(t)
    BY <1>1
  <2>3. \A k \in 1..Len(s) : s[k] \in S
    BY <1>1
  <2>4. \A k \in 1..Len(t) : t[k] \in S
    OBVIOUS
  <2> QED
    BY <1>1, <1>2, <2>1, <2>2, <2>3, <2>4
<1>4. ASSUME NEW k \in 1..Len(s)
      PROVE  Reverse(s)[k] = Reverse(t)[k]
  <2>1. (Len(s) - k) + 1 \in 1..Len(s) /\ k \in 1..Len(t)
    BY <1>1
  <2>2. s[(Len(s) - k) + 1] = t[m + ((Len(s) - k) + 1) - 1]
    BY <1>1, <2>1
  <2>3. m + ((Len(s) - k) + 1) - 1 = (Len(t) - k) + 1
    BY <1>1, <2>1
  <2> QED
    BY <1>2, <2>1, <2>2, <2>3
<1>5. SubSeq(Reverse(s), 1, Len(s)) = SubSeq(Reverse(t), 1, Len(s))
  BY <1>1, <1>3, <1>4
<1> QED
  BY <1>1, <1>3, <1>5 DEF IsSuffix, IsPrefix, s

LEMMA PathIsKnown ==
  /\ Paths \in Seq(Sources) /\ Len(Paths) \in Nat /\ DOMAIN Paths = 1..Len(Paths)
  /\ \A k \in 1..Len(Paths) : Paths[k] \in Sources /\ OutputName[Paths[k]] \in Outputs
  /\ \A k, l \in 1..Len(Paths) : k # l => Paths[k] # Paths[l]
<1>1. Paths \in Seq(Sources) /\ Len(Paths) \in Nat /\ DOMAIN Paths = 1..Len(Paths)
  BY DriverAssumption
<1>2. \A k \in 1..Len(Paths) : Paths[k] \in Sources
  BY <1>1 DEF Sources
<1>3. \A k \in 1..Len(Paths) : OutputName[Paths[k]] \in Outputs
  BY <1>2 DEF Outputs
<1>4. \A k, l \in 1..Len(Paths) : k # l => Paths[k] # Paths[l]
  BY <1>1, DriverAssumption DEF IsInjective
<1> QED
  BY <1>1, <1>2, <1>3, <1>4

LEMMA CurrentIsKnown ==
  ASSUME TypeOK, i <= Len(Paths)
  PROVE  i \in 1..Len(Paths) /\ path = Paths[i] /\ path \in Sources /\ output \in Outputs
<1>1. i \in 1..Len(Paths)
  BY PathIsKnown DEF TypeOK
<1> QED
  BY <1>1, PathIsKnown DEF path, output

\* The document of the asset at hand is no document of an asset alone with its
\* name that came before.
LEMMA OthersStand ==
  ASSUME BatchInv, i <= Len(Paths), Written, NEW k \in 1..Len(Paths), k < i,
         ~Contains(failed, Paths[k]), Alone(Paths[k])
  PROVE  document'[OutputName[Paths[k]]] = Paths[k]
<1>1. Paths[k] # path /\ path \in Sources /\ Paths[k] \in Sources
  BY CurrentIsKnown, PathIsKnown DEF BatchInv, TypeOK
<1>2. OutputName[path] # OutputName[Paths[k]]
  BY <1>1 DEF Alone
<1>3. document[OutputName[Paths[k]]] = Paths[k]
  BY DEF BatchInv, Standing
<1>4. document' = [document EXCEPT ![OutputName[path]] = path]
  BY DEF Written, output
<1>5. OutputName[Paths[k]] \in Outputs /\ document \in [Outputs -> Sources \cup {"previous"}]
  BY PathIsKnown DEF BatchInv, TypeOK
<1> QED
  BY <1>2, <1>3, <1>4, <1>5

LEMMA WrittenIsTyped ==
  ASSUME TypeOK, i <= Len(Paths), Written
  PROVE  /\ document' \in [Outputs -> Sources \cup {"previous"}]
         /\ document'[output] = path
         /\ \A o \in Outputs : o # output => document'[o] = document[o]
<1>1. path \in Sources /\ output \in Outputs
  BY CurrentIsKnown
<1> QED
  BY <1>1 DEF Written, TypeOK

-----------------------------------------------------------------------------
LEMMA WhileRunning ==
  /\ InProcessFailureKeepsDocument /\ Running => PreviousKept
  /\ PreviousKept => InProcessFailureKeepsDocument
BY DEF InProcessFailureKeepsDocument, PreviousKept, Running

LEMMA KeptNext == PreviousKept' => InProcessFailureKeepsDocument'
BY DEF InProcessFailureKeepsDocument, PreviousKept

\* A step within an iteration: what was counted stays.
LEMMA Stays ==
  ASSUME BatchInv, Running, UNCHANGED <<i, success, failed, skipped, document, mode>>
  PROVE  Books'
<1>1. PreviousKept
  BY WhileRunning DEF BatchInv
<1> QED
  BY <1>1 DEF BatchInv, Running, TypeOK, Books, Listed, Counted, Standing, PreviousKept

\* The asset failed: it is on the list, and its document is the old one unless
\* a worker had replaced it.
LEMMA Failed ==
  ASSUME BatchInv, Running, i <= Len(Paths), Fails, mode' = mode,
         document' = document \/ (Written /\ mode # "false")
  PROVE  Books' /\ i' \in 1..(Len(Paths) + 1) /\ pc' = "gate"
<1>1. /\ i' = i + 1 /\ pc' = "gate" /\ failed' = Append(failed, path)
      /\ success' = success /\ skipped' = skipped
  BY DEF Fails, NextAsset
<1>2. i \in 1..Len(Paths) /\ path = Paths[i] /\ path \in Sources
  BY CurrentIsKnown DEF BatchInv
<1>3. /\ failed' \in Seq(Sources) /\ Len(failed') = Len(failed) + 1
      /\ Contains(failed', path)
      /\ \A d : Contains(failed, d) => Contains(failed', d)
  BY <1>1, <1>2, ElementsOfAppend DEF BatchInv, TypeOK
<1>4. document' \in [Outputs -> Sources \cup {"previous"}]
  BY WrittenIsTyped DEF BatchInv, TypeOK
<1>5. Listed'
  BY <1>1, <1>3, <1>4 DEF Listed, BatchInv, TypeOK
<1>6. ASSUME NEW k \in 1..Len(Paths), k < i', ~Contains(failed', Paths[k]), Alone(Paths[k])
      PROVE  document'[OutputName[Paths[k]]] = Paths[k]
  <2>1. k # i /\ ~Contains(failed, Paths[k])
    BY <1>2, <1>3, <1>6
  <2>2. k < i
    BY <2>1, <1>1, <1>2, <1>6
  <2>3. CASE document' = document
    BY <2>1, <2>2, <2>3, <1>6 DEF BatchInv, Standing
  <2>4. CASE Written
    BY <2>1, <2>2, <2>4, <1>6, OthersStand
  <2> QED
    BY <2>3, <2>4
<1>7. Standing'
  BY <1>6 DEF Standing, Alone
<1>8. PreviousKept'
  BY <1>1, WhileRunning DEF PreviousKept, BatchInv
<1>9. i' \in 1..(Len(Paths) + 1)
  BY <1>1, <1>2
<1>10. Counted'
  <2>1. Len(success) \in Nat /\ Len(failed) \in Nat
    BY DEF BatchInv, TypeOK
  <2> QED
    BY <2>1, <1>1, <1>2, <1>3 DEF BatchInv, Counted, Running
<1> QED
  BY <1>1, <1>5, <1>7, <1>8, <1>9, <1>10 DEF Books

\* The asset succeeded: its document is on disk and its output on the list.
LEMMA Succeeded ==
  ASSUME BatchInv, Running, i <= Len(Paths), Succeeds, Written, mode' = mode
  PROVE  Books' /\ i' \in 1..(Len(Paths) + 1) /\ pc' = "gate"
<1>1. /\ i' = i + 1 /\ pc' = "gate" /\ success' = Append(success, output)
      /\ failed' = failed /\ skipped' = skipped
  BY DEF Succeeds, NextAsset
<1>2. i \in 1..Len(Paths) /\ path = Paths[i] /\ path \in Sources /\ output \in Outputs
  BY CurrentIsKnown DEF BatchInv
<1>3. /\ success' \in Seq(Outputs) /\ Len(success') = Len(success) + 1
      /\ output \in {success'[k] : k \in DOMAIN success'}
      /\ \A d \in {success[k] : k \in DOMAIN success} : d \in {success'[k] : k \in DOMAIN success'}
  <2>1. success \in Seq(Outputs) /\ output \in Outputs
    BY <1>2 DEF BatchInv, TypeOK
  <2>2. /\ Append(success, output) \in Seq(Outputs)
        /\ Len(Append(success, output)) = Len(success) + 1
        /\ output \in {Append(success, output)[k] : k \in DOMAIN Append(success, output)}
        /\ \A d \in {success[k] : k \in DOMAIN success} :
             d \in {Append(success, output)[k] : k \in DOMAIN Append(success, output)}
    BY <2>1, ElementsOfAppend
  <2> QED
    BY <1>1, <2>2
<1>4. /\ document' \in [Outputs -> Sources \cup {"previous"}]
      /\ document'[output] = path
      /\ \A o \in Outputs : o # output => document'[o] = document[o]
  BY WrittenIsTyped DEF BatchInv
<1>5. Listed'
  BY <1>1, <1>3, <1>4 DEF Listed, BatchInv, TypeOK
<1>6. ASSUME NEW k \in 1..Len(Paths), k < i', ~Contains(failed', Paths[k]), Alone(Paths[k])
      PROVE  document'[OutputName[Paths[k]]] = Paths[k]
  <2>1. CASE k = i
    BY <2>1, <1>2, <1>4 DEF output
  <2>2. CASE k # i
    <3>1. k < i /\ ~Contains(failed, Paths[k])
      BY <2>2, <1>1, <1>2, <1>6
    <3> QED
      BY <3>1, <1>6, OthersStand
  <2> QED
    BY <2>1, <2>2
<1>7. Standing'
  BY <1>6 DEF Standing, Alone
<1>8. ASSUME mode' = "false", NEW o \in Outputs, o \notin {success'[k] : k \in DOMAIN success'}
      PROVE  document'[o] = "previous"
  <2>1. o # output /\ o \notin {success[k] : k \in DOMAIN success}
    BY <1>3, <1>8
  <2>2. document[o] = "previous"
    BY <2>1, <1>8, WhileRunning DEF BatchInv, PreviousKept
  <2> QED
    BY <2>1, <2>2, <1>4
<1>9. PreviousKept'
  BY <1>8 DEF PreviousKept
<1>10. i' \in 1..(Len(Paths) + 1)
  BY <1>1, <1>2
<1>11. Counted'
  <2>1. Len(success) \in Nat /\ Len(failed) \in Nat
    BY DEF BatchInv, TypeOK
  <2> QED
    BY <2>1, <1>1, <1>2, <1>3 DEF BatchInv, Counted, Running
<1> QED
  BY <1>1, <1>5, <1>7, <1>9, <1>10, <1>11 DEF Books

-----------------------------------------------------------------------------
LEMMA InitHolds == Init => BatchInv
<1> SUFFICES ASSUME Init PROVE BatchInv
  OBVIOUS
<1>1. /\ pc = "gate" /\ mode \in Modes /\ i = 1
      /\ success = <<>> /\ failed = <<>> /\ skipped = <<>> /\ partial = <<>>
      /\ document = [o \in Outputs |-> "previous"]
      /\ temps = {}
  BY DEF Init
<1>2. TypeOK
  <2>1. i \in 1..(Len(Paths) + 1)
    BY <1>1, PathIsKnown
  <2>2. <<>> \in Seq(Outputs) /\ <<>> \in Seq(Sources)
    OBVIOUS
  <2>3. document \in [Outputs -> Sources \cup {"previous"}]
    BY <1>1
  <2> QED
    BY <1>1, <2>1, <2>2, <2>3 DEF TypeOK, Steps
<1>3. InProcessFailureKeepsDocument
  BY <1>1 DEF InProcessFailureKeepsDocument
<1>4. Standing
  BY <1>1, PathIsKnown DEF Standing
<1>5. Counted /\ SkippedIsTail
  BY <1>1 DEF Counted, SkippedIsTail
<1> QED
  BY <1>1, <1>2, <1>3, <1>4, <1>5 DEF BatchInv, Reached, InProcess, RestSkipped

\* The memory gate lists what is left of the assets.
LEMMA TailIsSkipped ==
  ASSUME BatchInv, SkipRest
  PROVE  BatchInv'
<1>1. /\ i <= Len(Paths) /\ pc' = "done" /\ skipped' = skipped \o SubSeq(Paths, i, Len(Paths))
      /\ UNCHANGED <<mode, i, success, failed, partial, document, temps>>
  BY DEF SkipRest
<1>2. i \in 1..Len(Paths) /\ Paths \in Seq(Sources) /\ skipped \in Seq(Sources)
  BY <1>1, CurrentIsKnown, PathIsKnown DEF BatchInv, TypeOK
<1> DEFINE tail == SubSeq(Paths, i, Len(Paths))
<1>3. /\ tail \in Seq(Sources) /\ Len(tail) = Len(Paths) - i + 1
      /\ \A k \in 1..Len(tail) : tail[k] = Paths[i + k - 1]
  BY <1>2
<1> HIDE DEF tail
<1>4. /\ skipped \o tail \in Seq(Sources) /\ Len(skipped \o tail) = Len(skipped) + Len(tail)
      /\ \A k \in 1..Len(tail) : (skipped \o tail)[Len(skipped) + k] = tail[k]
  <2>1. skipped \in Seq(Sources) /\ tail \in Seq(Sources)
    BY <1>2, <1>3
  <2> QED
    BY ONLY <2>1, ElementsOfConcatenation
<1>5. ASSUME NEW k \in 1..Len(Paths), k >= i
      PROVE  Contains(skipped', Paths[k])
  <2>1. k - i + 1 \in 1..Len(tail)
    BY <1>2, <1>3, <1>5
  <2>2. tail[k - i + 1] = Paths[k]
    BY <1>2, <1>3, <2>1
  <2>3. Len(skipped) + (k - i + 1) \in 1..Len(skipped \o tail)
    BY <1>2, <1>4, <2>1
  <2>4. (skipped \o tail)[Len(skipped) + (k - i + 1)] = Paths[k]
    BY <1>4, <2>1, <2>2
  <2> QED
    BY <1>1, <2>3, <2>4 DEF Contains, tail
<1>6. RestSkipped'
  BY <1>1, <1>5 DEF RestSkipped
<1>7. TypeOK'
  BY <1>1, <1>4 DEF BatchInv, TypeOK, tail
<1>8. Standing' /\ InProcessFailureKeepsDocument'
  <2>1. PreviousKept
    BY WhileRunning DEF BatchInv, SkipRest, Running
  <2>2. PreviousKept'
    BY <1>1, <2>1 DEF PreviousKept
  <2> QED
    BY <1>1, <2>2, KeptNext DEF BatchInv, Standing
<1>9. SkippedIsTail'
  <2>1. skipped = <<>> /\ Len(success) + Len(failed) = i - 1
    BY DEF SkipRest, BatchInv, Counted
  <2>2. skipped' = tail
    BY <1>1, <1>3, <2>1 DEF tail
  <2>3. IsSuffix(tail, Paths)
    BY <1>2, TailIsSuffix DEF tail
  <2>4. Len(success) \in Nat /\ Len(failed) \in Nat
    BY DEF BatchInv, TypeOK
  <2>5. Len(success') + Len(failed') + Len(skipped') = Len(Paths)
    BY <1>1, <1>2, <1>3, <2>1, <2>2, <2>4
  <2>6. IsSuffix(skipped', Paths)
    BY <2>2, <2>3
  <2> QED
    BY <2>5, <2>6 DEF SkippedIsTail
<1> QED
  BY <1>1, <1>6, <1>7, <1>8, <1>9 DEF BatchInv, Reached, InProcess

\* A step inside an iteration: lists and documents stay, one step follows.
LEMMA GoesOn ==
  ASSUME BatchInv, Running, UNCHANGED <<i, success, failed, skipped, document, mode>>,
         partial' \in Seq(Sources), temps' \subseteq Sources, i <= Len(Paths),
         pc' \in Steps \cup {"aborted"}, mode = "false" => pc' # "worker"
  PROVE  BatchInv'
<1>1. Books'
  BY Stays
<1>2. SkippedIsTail'
  BY <1>1 DEF Books, Counted, SkippedIsTail
<1> QED
  BY <1>1, <1>2, KeptNext DEF Books, Listed, BatchInv, TypeOK, Reached, InProcess, RestSkipped, Steps

\* The end of an iteration.
LEMMA GoesToNext ==
  ASSUME BatchInv, Books', i' \in 1..(Len(Paths) + 1), pc' = "gate", mode' = mode,
         partial' \in Seq(Sources), temps' \subseteq Sources
  PROVE  BatchInv'
<1>1. SkippedIsTail'
  BY DEF Books, Counted, SkippedIsTail
<1> QED
  BY <1>1, KeptNext DEF Books, Listed, BatchInv, TypeOK, Reached, InProcess, RestSkipped, Steps

LEMMA StepHolds == BatchInv /\ [Next]_vars => BatchInv'
<1> SUFFICES ASSUME BatchInv, [Next]_vars PROVE BatchInv'
  OBVIOUS
<1>1. /\ partial \in Seq(Sources) /\ temps \subseteq Sources /\ mode \in Modes
      /\ pc \in {"worker", "parse", "mkstemp", "fdopen", "write", "replace"} => i <= Len(Paths)
      /\ pc = "worker" => mode # "false"
      /\ Iterate \/ Interrupt => Running
  BY DEF Iterate, SkipRest, Admit, Finish, RunWorker, ParseInProcess, MakeTemp, OpenTemp,
         WriteTemp, ReplaceOutput, Interrupt, Running, BatchInv, TypeOK, Reached, InProcess
<1>2. i <= Len(Paths) => path \in Sources
  BY CurrentIsKnown DEF BatchInv
<1>a. Iterate => Running
  BY <1>1
<1>3. CASE SkipRest
  BY <1>3, TailIsSkipped
<1>4. CASE Admit
  <2>1. pc' = "worker" => mode # "false"
    BY <1>4 DEF Admit, Goto, Isolates
  <2> QED
    BY <1>1, <1>4, <2>1, GoesOn DEF Iterate, Admit, Goto, lists, Steps
<1>5. CASE Finish
  <2>1. i > Len(Paths) /\ pc' = "done" /\ UNCHANGED <<i, success, failed, skipped, mode, partial, document, temps>>
    BY <1>5 DEF Finish, Goto, lists
  <2>2. Books'
    BY <1>a, <1>5, <2>1, Stays DEF Iterate
  <2>3. RestSkipped'
    BY <2>1, PathIsKnown DEF RestSkipped, BatchInv, TypeOK
  <2>4. SkippedIsTail'
    BY <2>2 DEF Books, Counted, SkippedIsTail
  <2> QED
    BY <2>1, <2>2, <2>3, <2>4, KeptNext DEF Books, Listed, BatchInv, TypeOK, Reached, InProcess
<1>6. CASE RunWorker
  <2>1. Running /\ pc = "worker" /\ i <= Len(Paths) /\ mode # "false" /\ UNCHANGED <<mode, partial, temps>>
    BY <1>1, <1>6 DEF Iterate, RunWorker
  <2>2. CASE Succeeds /\ Written
    BY <1>1, <2>1, <2>2, Succeeded, GoesToNext
  <2>3. CASE Fails /\ (Written \/ UNCHANGED document)
    BY <1>1, <2>1, <2>3, Failed, GoesToNext
  <2> QED
    BY <1>6, <2>2, <2>3 DEF RunWorker
<1>7. CASE ParseInProcess
  <2>1. Running /\ pc = "parse" /\ i <= Len(Paths) /\ UNCHANGED <<mode, document, temps>>
    BY <1>1, <1>7 DEF Iterate, ParseInProcess
  <2>2. CASE Goto("mkstemp") /\ (UNCHANGED partial \/ partial' = Append(partial, path))
    <3>1. partial' \in Seq(Sources)
      BY <1>1, <1>2, <2>1, <2>2, ElementsOfAppend
    <3> QED
      BY <1>1, <2>1, <2>2, <3>1, GoesOn DEF Goto, lists, Steps
  <2>3. CASE Fails /\ UNCHANGED partial
    BY <1>1, <2>1, <2>3, Failed, GoesToNext
  <2> QED
    BY <1>7, <2>2, <2>3 DEF ParseInProcess
<1>8. CASE MakeTemp
  <2>1. Running /\ pc = "mkstemp" /\ i <= Len(Paths) /\ UNCHANGED <<mode, partial, document>>
    BY <1>1, <1>8 DEF Iterate, MakeTemp
  <2>2. CASE Goto("fdopen") /\ temps' = temps \cup {path}
    BY <1>1, <1>2, <2>1, <2>2, GoesOn DEF Goto, lists, Steps
  <2>3. CASE Fails /\ UNCHANGED temps
    BY <1>1, <2>1, <2>3, Failed, GoesToNext
  <2> QED
    BY <1>8, <2>2, <2>3 DEF MakeTemp
<1>9. CASE OpenTemp
  BY <1>1, <1>9, GoesOn DEF Iterate, OpenTemp, Goto, lists, Steps
<1>10. CASE WriteTemp
  <2>1. Running /\ pc = "write" /\ i <= Len(Paths) /\ UNCHANGED <<mode, partial, document, temps>>
    BY <1>1, <1>10 DEF Iterate, WriteTemp
  <2>2. CASE Goto("replace")
    BY <1>1, <2>1, <2>2, GoesOn DEF Goto, lists, Steps
  <2>3. CASE Fails
    BY <1>1, <2>1, <2>3, Failed, GoesToNext
  <2> QED
    BY <1>10, <2>2, <2>3 DEF WriteTemp
<1>11. CASE ReplaceOutput
  <2>1. Running /\ pc = "replace" /\ i <= Len(Paths) /\ temps' \subseteq Sources /\ UNCHANGED <<mode, partial>>
    BY <1>1, <1>11 DEF Iterate, ReplaceOutput
  <2>2. CASE Written /\ Succeeds
    BY <1>1, <2>1, <2>2, Succeeded, GoesToNext
  <2>3. CASE Fails /\ UNCHANGED document
    BY <1>1, <2>1, <2>3, Failed, GoesToNext
  <2> QED
    BY <1>11, <2>2, <2>3 DEF ReplaceOutput
<1>12. CASE Interrupt
  <2>1. /\ i <= Len(Paths) /\ pc' = "aborted" /\ temps' \subseteq Sources
        /\ UNCHANGED <<mode, i, success, failed, skipped, partial>>
    BY <1>1, <1>12 DEF Interrupt, reports, lists
  <2>2. CASE UNCHANGED document
    BY <1>1, <1>12, <2>1, <2>2, GoesOn
  <2>3. CASE Written /\ pc \in {"worker", "replace"}
    <3>1. document' \in [Outputs -> Sources \cup {"previous"}]
      BY <2>1, <2>3, WrittenIsTyped DEF BatchInv
    <3>2. \A k \in 1..Len(Paths) : k < i /\ ~Contains(failed, Paths[k]) /\ Alone(Paths[k])
            => document'[OutputName[Paths[k]]] = Paths[k]
      BY <2>1, <2>3, OthersStand
    <3>3. Standing'
      BY <2>1, <3>2 DEF Standing, Alone
    <3>a. /\ document'[output] = path /\ output' = output /\ path' = path
          /\ \A o \in Outputs : o # output => document'[o] = document[o]
      BY <2>1, <2>3, WrittenIsTyped DEF BatchInv, output, path
    <3>b. PreviousKept
      BY <1>1, <1>12, WhileRunning DEF BatchInv
    <3>4. InProcessFailureKeepsDocument'
      BY <2>1, <3>a, <3>b DEF InProcessFailureKeepsDocument, PreviousKept
    <3>5. SkippedIsTail' /\ Counted'
      BY <2>1, <2>3 DEF BatchInv, Counted, SkippedIsTail
    <3> QED
      BY <2>1, <3>1, <3>3, <3>4, <3>5 DEF BatchInv, TypeOK, Reached, InProcess, RestSkipped
  <2> QED
    BY <1>12, <2>2, <2>3 DEF Interrupt
<1>13. CASE UNCHANGED vars
  BY <1>13 DEF vars, reports, lists, BatchInv, TypeOK, Reached, InProcess, RestSkipped,
               Counted, SkippedIsTail, Standing, InProcessFailureKeepsDocument, output, path
<1> QED
  BY <1>3, <1>4, <1>5, <1>6, <1>7, <1>8, <1>9, <1>10, <1>11, <1>12, <1>13
     DEF Next, Iterate, Returned

LEMMA BatchInvariant == Spec => []BatchInv
<1> QED
  BY InitHolds, StepHolds, PTL DEF Spec

-----------------------------------------------------------------------------
(* What the report says: the list of successes as a recursive function of   *)
(* the assets kept.                                                         *)
LEMMA OutputsRecursion ==
  ASSUME NEW K
  PROVE  /\ OutputsOf(K)[0] = <<>>
         /\ \A n \in 1..Len(Paths) :
              OutputsOf(K)[n] = IF Paths[n] \in K
                                THEN Append(OutputsOf(K)[n - 1], OutputName[Paths[n]])
                                ELSE OutputsOf(K)[n - 1]
         /\ \A n \in 0..Len(Paths) : OutputsOf(K)[n] \in Seq(Outputs)
<1> DEFINE N == Len(Paths)
           V == Seq(Outputs)
           Next1(n, s) == IF Paths[n] \in K THEN Append(s, OutputName[Paths[n]]) ELSE s
           Is(g) == g = [n \in 0..N |-> IF n = 0 THEN <<>>
                                        ELSE IF Paths[n] \in K
                                             THEN Append(g[n - 1], OutputName[Paths[n]])
                                             ELSE g[n - 1]]
<1>1. N \in Nat /\ <<>> \in V
  BY PathIsKnown
<1>2. ASSUME NEW n \in 1..N, NEW s \in V PROVE Next1(n, s) \in V
  BY PathIsKnown
<1>3. PICK h : h = [x \in (1..N) \X V |-> Next1(x[1], x[2])]
  OBVIOUS
<1>4. h \in [(1..N) \X V -> V]
  BY <1>2, <1>3
<1>5. PICK f \in [0..N -> V] : f[0] = <<>> /\ \A n \in 1..N : f[n] = h[<<n, f[n - 1]>>]
  <2> HIDE DEF N, V
  <2>1. HasRecursion(V, <<>>, N, h)
    BY <1>1, <1>4, RecursiveFunction
  <2> QED
    BY <2>1 DEF HasRecursion
<1>6. ASSUME NEW n \in 1..N PROVE f[n] = Next1(n, f[n - 1])
  <2>1. n - 1 \in 0..N
    BY <1>1
  <2>2. f[n - 1] \in V
    BY <1>5, <2>1
  <2>3. <<n, f[n - 1]>> \in (1..N) \X V
    BY <2>2
  <2> QED
    BY <1>3, <1>5, <2>3
<1>7. Is(f)
  <2>1. \A n \in 0..N : n # 0 => n \in 1..N
    BY <1>1
  <2>2. \A n \in 0..N : f[n] = IF n = 0 THEN <<>> ELSE Next1(n, f[n - 1])
    BY <1>5, <1>6, <2>1
  <2> QED
    BY <1>5, <2>2
<1>8. OutputsOf(K) = CHOOSE g : Is(g)
  BY Zenon DEF OutputsOf
<1>9. PICK g : g = OutputsOf(K) /\ Is(g)
  BY <1>7, <1>8
<1>10. /\ g[0] = <<>>
       /\ \A n \in 1..N : g[n] = Next1(n, g[n - 1])
  <2>1. 0 \in 0..N /\ \A n \in 1..N : n \in 0..N /\ n # 0
    BY <1>1
  <2> QED
    BY <1>9, <2>1
<1> DEFINE P == {n \in Nat : n <= N => g[n] \in V}
<1>11. 0 \in P
  BY <1>1, <1>10
<1>12. ASSUME NEW n \in P PROVE n + 1 \in P
  <2> SUFFICES ASSUME n + 1 <= N PROVE g[n + 1] \in V
    OBVIOUS
  <2>1. n + 1 \in 1..N /\ n + 1 - 1 = n /\ g[n] \in V
    BY <1>1
  <2>2. g[n + 1] = Next1(n + 1, g[n])
    BY <1>10, <2>1
  <2> HIDE DEF Next1
  <2> QED
    BY <1>2, <2>1, <2>2
<1> HIDE DEF P
<1>13. P = Nat
  BY <1>11, <1>12, NaturalsByInduction DEF P
<1>14. \A n \in 0..N : g[n] \in V
  BY <1>13 DEF P
<1> QED
  BY <1>9, <1>10, <1>14

\* One asset more, behind those that were kept, is one output more at the end.
LEMMA OutputsGrow ==
  ASSUME NEW j \in 1..Len(Paths), NEW K \in SUBSET {Paths[k] : k \in 1..(j - 1)}
  PROVE  OutputsOf(K \cup {Paths[j]})[Len(Paths)] =
           Append(OutputsOf(K)[Len(Paths)], OutputName[Paths[j]])
<1> DEFINE N == Len(Paths)
           L == K \cup {Paths[j]}
           f == OutputsOf(K)
           g == OutputsOf(L)
           o == OutputName[Paths[j]]
           P == {n \in Nat : n <= N => IF n < j THEN g[n] = f[n] ELSE g[n] = Append(f[n], o)}
<1>1. N \in Nat /\ \A k, l \in 1..N : k # l => Paths[k] # Paths[l]
  BY PathIsKnown
<1>2. ASSUME NEW n \in 1..N
      PROVE  /\ Paths[n] \in K => n < j
             /\ n # j => (Paths[n] \in L <=> Paths[n] \in K)
             /\ Paths[j] \in L
  <2>1. ASSUME Paths[n] \in K PROVE n < j
    <3>1. PICK k \in 1..(j - 1) : Paths[n] = Paths[k]
      BY <2>1
    <3>2. k \in 1..N
      BY <1>1
    <3> QED
      BY <1>1, <3>1, <3>2
  <2> QED
    BY <1>1, <2>1
<1>3. /\ f[0] = <<>>
      /\ \A n \in 1..N : f[n] = IF Paths[n] \in K THEN Append(f[n - 1], OutputName[Paths[n]]) ELSE f[n - 1]
      /\ g[0] = <<>>
      /\ \A n \in 1..N : g[n] = IF Paths[n] \in L THEN Append(g[n - 1], OutputName[Paths[n]]) ELSE g[n - 1]
  BY OutputsRecursion
<1> HIDE DEF f, g, L, N, o
<1>4. 0 \in P
  BY <1>1, <1>3
<1>5. ASSUME NEW n \in P PROVE n + 1 \in P
  <2> SUFFICES ASSUME n + 1 <= N
               PROVE  IF n + 1 < j THEN g[n + 1] = f[n + 1] ELSE g[n + 1] = Append(f[n + 1], o)
    OBVIOUS
  <2>1. n \in Nat /\ n + 1 \in 1..N /\ n + 1 - 1 = n /\ j \in Nat
        /\ IF n < j THEN g[n] = f[n] ELSE g[n] = Append(f[n], o)
    BY <1>1
  <2>2. CASE n + 1 < j
    BY <1>2, <1>3, <2>1, <2>2
  <2>3. CASE n + 1 = j
    <3>1. Paths[n + 1] \notin K /\ Paths[n + 1] \in L
      BY <1>1, <1>2, <2>1, <2>3
    <3>2. g[n + 1] = Append(g[n], OutputName[Paths[n + 1]]) /\ f[n + 1] = f[n]
      <4>1. PICK m : m = n + 1 /\ m \in 1..N /\ m - 1 = n
        BY <2>1
      <4>2. g[m] = Append(g[m - 1], OutputName[Paths[m]]) /\ f[m] = f[m - 1]
        BY <1>3, <3>1, <4>1
      <4> QED
        BY <4>1, <4>2
    <3>3. g[n + 1] = Append(g[n], o)
      BY <2>3, <3>2 DEF o
    <3> QED
      BY <2>1, <2>3, <3>2, <3>3
  <2>4. CASE n + 1 > j
    <3>1. Paths[n + 1] \notin K /\ Paths[n + 1] \notin L
      BY <1>2, <2>1, <2>4
    <3>2. g[n + 1] = g[n] /\ f[n + 1] = f[n]
      BY <1>3, <2>1, <3>1
    <3> QED
      BY <2>1, <2>4, <3>2
  <2> QED
    BY <2>1, <2>2, <2>3, <2>4
<1> HIDE DEF P
<1>6. P = Nat
  BY <1>4, <1>5, NaturalsByInduction DEF P
<1>7. g[N] = Append(f[N], o)
  <2>1. N \in P /\ ~(N < j)
    BY <1>1, <1>6 DEF N
  <2> QED
    BY <1>1, <2>1 DEF P
<1> QED
  BY <1>7 DEF f, g, L, N, o

LEMMA InitAccounts == Init => Accounts
<1> SUFFICES ASSUME Init PROVE Accounts
  OBVIOUS
<1>1. i = 1 /\ pc = "gate" /\ success = <<>> /\ failed = <<>> /\ partial = <<>>
  BY DEF Init
<1>2. Tried = {} /\ Kept = {}
  BY <1>1 DEF Tried, Kept
<1>3. OutputsOf({})[Len(Paths)] = <<>>
  <2> DEFINE f == OutputsOf({})
             P == {n \in Nat : n <= Len(Paths) => f[n] = <<>>}
  <2>1. f[0] = <<>> /\ \A n \in 1..Len(Paths) : f[n] = f[n - 1]
    BY OutputsRecursion
  <2> HIDE DEF f
  <2>2. 0 \in P
    BY <2>1
  <2>3. ASSUME NEW n \in P PROVE n + 1 \in P
    <3> SUFFICES ASSUME n + 1 <= Len(Paths) PROVE f[n + 1] = <<>>
      OBVIOUS
    <3>1. n + 1 \in 1..Len(Paths) /\ n + 1 - 1 = n /\ f[n] = <<>>
      BY PathIsKnown
    <3> QED
      BY <2>1, <3>1
  <2> HIDE DEF P
  <2>4. P = Nat
    BY <2>2, <2>3, NaturalsByInduction DEF P
  <2> QED
    BY <2>4, PathIsKnown DEF P, f
<1> QED
  BY <1>1, <1>2, <1>3 DEF Accounts, SuccessesListed, FailuresListed, PartialsListed,
                          RestListed, IsInjective

\* Behind the loop there is one asset more, which no list has named.
LEMMA TriedGrows ==
  ASSUME BatchInv, i <= Len(Paths), i' = i + 1
  PROVE  Tried' = Tried \cup {path} /\ path \notin Tried
<1>1. i \in 1..Len(Paths) /\ path = Paths[i]
  BY CurrentIsKnown DEF BatchInv
<1>2. 1..(i' - 1) = (1..(i - 1)) \cup {i}
  BY <1>1
<1>3. \A k \in 1..(i - 1) : k \in 1..Len(Paths) /\ k # i
  BY <1>1, PathIsKnown
<1> QED
  BY <1>1, <1>2, <1>3, PathIsKnown DEF Tried

LEMMA InjectiveAppend ==
  ASSUME NEW S, NEW s \in Seq(S), NEW e \in S, IsInjective(s), \A k \in DOMAIN s : s[k] # e
  PROVE  IsInjective(Append(s, e))
<1>1. /\ DOMAIN s = 1..Len(s) /\ Len(s) \in Nat
      /\ DOMAIN Append(s, e) = 1..(Len(s) + 1)
      /\ Append(s, e)[Len(s) + 1] = e
      /\ \A k \in 1..Len(s) : Append(s, e)[k] = s[k]
  OBVIOUS
<1>2. \A k \in 1..(Len(s) + 1) : k \in 1..Len(s) \/ k = Len(s) + 1
  BY <1>1
<1> QED
  BY <1>1, <1>2 DEF IsInjective

\* The next iteration starts with the partial assets among those tried.
LEMMA PartialsBehind ==
  ASSUME BatchInv, Accounts, i <= Len(Paths), i' = i + 1, pc' = "gate", UNCHANGED partial
  PROVE  PartialsListed' /\ RestListed'
<1>1. Tried' = Tried \cup {path}
  BY TriedGrows
<1>2. IsInjective(partial') /\ \A k \in DOMAIN partial' : partial'[k] \in Tried'
  BY <1>1 DEF Accounts, PartialsListed
<1> QED
  BY <1>2 DEF PartialsListed, RestListed

LEMMA AccountsMove ==
  ASSUME Accounts, UNCHANGED <<i, success, failed>>, PartialsListed', RestListed'
  PROVE  Accounts'
<1>1. Tried' = Tried /\ Kept' = Kept
  BY DEF Tried, Kept
<1> QED
  BY <1>1 DEF Accounts, SuccessesListed, FailuresListed

\* A failure: the assets kept stay, as the current one was not listed yet.
LEMMA AccountsFail ==
  ASSUME BatchInv, Accounts, i <= Len(Paths), Fails, UNCHANGED partial
  PROVE  Accounts'
<1>1. /\ i' = i + 1 /\ pc' = "gate" /\ failed' = Append(failed, path) /\ success' = success
  BY DEF Fails, NextAsset
<1>2. Tried' = Tried \cup {path} /\ path \notin Tried
  BY <1>1, TriedGrows
<1>3. failed \in Seq(Sources) /\ path \in Sources
  BY CurrentIsKnown DEF BatchInv, TypeOK
<1>4. /\ DOMAIN failed = 1..Len(failed) /\ Len(failed) \in Nat
      /\ DOMAIN failed' = 1..(Len(failed) + 1) /\ Len(failed') = Len(failed) + 1
      /\ failed'[Len(failed) + 1] = path
      /\ \A k \in 1..Len(failed) : failed'[k] = failed[k]
  BY <1>1, <1>3
<1>5. \A k \in 1..(Len(failed) + 1) : k \in 1..Len(failed) \/ k = Len(failed) + 1
  BY <1>4
<1>6. FailuresListed'
  <2>1. \A k \in DOMAIN failed : failed[k] \in Tried
    BY DEF Accounts, FailuresListed
  <2>2. IsInjective(failed')
    <3>1. \A k \in DOMAIN failed : failed[k] # path
      BY <2>1, <1>2
    <3>2. IsInjective(failed)
      BY DEF Accounts, FailuresListed
    <3> QED
      BY <1>1, <1>3, <3>1, <3>2, InjectiveAppend
  <2> QED
    BY <2>1, <2>2, <1>2, <1>4, <1>5 DEF FailuresListed
<1>7. \A p : Contains(failed', p) <=> Contains(failed, p) \/ p = path
  <2>1. \A p : Contains(failed', p) <=> \E k \in 1..(Len(failed) + 1) : failed'[k] = p
    BY <1>4 DEF Contains
  <2>2. \A p : Contains(failed, p) <=> \E k \in 1..Len(failed) : failed[k] = p
    BY <1>4 DEF Contains
  <2>3. \A k \in 1..Len(failed) : k \in 1..(Len(failed) + 1)
    BY <1>4
  <2>4. Len(failed) + 1 \in 1..(Len(failed) + 1)
    BY <1>4
  <2> QED
    BY <2>1, <2>2, <2>3, <2>4, <1>4, <1>5
<1>8. Kept' = Kept
  BY <1>2, <1>7 DEF Kept
<1>9. SuccessesListed'
  BY <1>1, <1>8 DEF Accounts, SuccessesListed
<1> QED
  BY <1>1, <1>6, <1>9, PartialsBehind DEF Accounts

LEMMA AccountsSucceed ==
  ASSUME BatchInv, Accounts, i <= Len(Paths), Succeeds, UNCHANGED partial
  PROVE  Accounts'
<1>1. /\ i' = i + 1 /\ pc' = "gate" /\ failed' = failed /\ success' = Append(success, output)
  BY DEF Succeeds, NextAsset
<1>2. Tried' = Tried \cup {path} /\ path \notin Tried
  BY <1>1, TriedGrows
<1>3. i \in 1..Len(Paths) /\ path = Paths[i] /\ output = OutputName[Paths[i]]
  BY CurrentIsKnown DEF BatchInv, output
<1>4. ~Contains(failed, path)
  BY <1>2 DEF Accounts, FailuresListed, Contains
<1>5. Kept' = Kept \cup {Paths[i]}
  BY <1>1, <1>2, <1>3, <1>4 DEF Kept
<1>6. Kept \in SUBSET {Paths[k] : k \in 1..(i - 1)}
  BY DEF Kept, Tried
<1>7. OutputsOf(Kept')[Len(Paths)] = Append(OutputsOf(Kept)[Len(Paths)], output)
  BY <1>3, <1>5, <1>6, OutputsGrow
<1>8. SuccessesListed'
  BY <1>1, <1>7 DEF Accounts, SuccessesListed
<1>9. FailuresListed'
  BY <1>1, <1>2 DEF Accounts, FailuresListed
<1> QED
  BY <1>1, <1>8, <1>9, PartialsBehind DEF Accounts

LEMMA StepAccounts == BatchInv /\ Accounts /\ [Next]_vars => Accounts'
<1> SUFFICES ASSUME BatchInv, Accounts, [Next]_vars PROVE Accounts'
  OBVIOUS
<1>1. /\ partial \in Seq(Sources)
      /\ pc \in {"worker", "parse", "mkstemp", "fdopen", "write", "replace"} => i <= Len(Paths)
      /\ i <= Len(Paths) => path \in Sources /\ path \notin Tried
  <2>1. i <= Len(Paths) => path \in Sources /\ path = Paths[i] /\ i \in 1..Len(Paths)
    BY CurrentIsKnown DEF BatchInv
  <2>2. i <= Len(Paths) => path \notin Tried
    BY <2>1, PathIsKnown DEF Tried
  <2> QED
    BY <2>1, <2>2 DEF BatchInv, TypeOK, Reached
\* A step inside an iteration that leaves the lists alone.
<1>2. ASSUME UNCHANGED <<i, success, failed, partial>>, pc' # "done",
             pc \in {"mkstemp", "fdopen", "write", "replace"} =>
               pc' \in {"mkstemp", "fdopen", "write", "replace", "aborted"},
             pc # "aborted"
      PROVE  Accounts'
  <2>1. PartialsListed' /\ RestListed'
    BY <1>2 DEF Accounts, PartialsListed, RestListed, Tried, path
  <2> QED
    BY <1>2, <2>1, AccountsMove
<1>3. CASE SkipRest
  <2>1. /\ skipped' = SubSeq(Paths, i, Len(Paths)) /\ pc = "gate"
        /\ UNCHANGED <<i, success, failed, partial>>
    <3>1. skipped = <<>> /\ i \in 1..Len(Paths)
      BY <1>3, CurrentIsKnown DEF SkipRest, BatchInv, Counted
    <3>2. SubSeq(Paths, i, Len(Paths)) \in Seq(Sources)
      BY <3>1, PathIsKnown
    <3> QED
      BY <1>3, <3>1, <3>2 DEF SkipRest
  <2>2. PartialsListed' /\ RestListed'
    BY <2>1 DEF Accounts, PartialsListed, RestListed, Tried
  <2> QED
    BY <2>1, <2>2, AccountsMove
<1>4. CASE Admit
  BY <1>2, <1>4 DEF Admit, Goto, lists
<1>5. CASE Finish
  <2>1. /\ pc = "gate" /\ pc' = "done" /\ i > Len(Paths) /\ skipped' = skipped
        /\ UNCHANGED <<i, success, failed, partial>>
    BY <1>5 DEF Finish, Goto, lists
  <2>2. skipped = <<>> /\ SubSeq(Paths, i, Len(Paths)) = <<>>
    BY <2>1, PathIsKnown DEF BatchInv, Counted, TypeOK
  <2>3. PartialsListed' /\ RestListed'
    BY <2>1, <2>2 DEF Accounts, PartialsListed, RestListed, Tried
  <2> QED
    BY <2>1, <2>3, AccountsMove
<1>6. CASE RunWorker
  BY <1>1, <1>6, AccountsSucceed, AccountsFail DEF RunWorker
<1>7. CASE ParseInProcess
  <2>1. pc = "parse" /\ i <= Len(Paths)
    BY <1>1, <1>7 DEF ParseInProcess
  <2>2. CASE Goto("mkstemp") /\ UNCHANGED partial
    BY <1>2, <2>1, <2>2 DEF Goto, lists
  <2>3. CASE Goto("mkstemp") /\ partial' = Append(partial, path)
    <3>1. IsInjective(partial) /\ \A k \in DOMAIN partial : partial[k] \in Tried
      BY <2>1 DEF Accounts, PartialsListed
    <3>2. IsInjective(partial')
      <4>1. \A k \in DOMAIN partial : partial[k] # path
        BY <1>1, <2>1, <3>1
      <4> QED
        BY <1>1, <2>1, <2>3, <3>1, <4>1, InjectiveAppend
    <3>3. \A k \in DOMAIN partial' : partial'[k] \in Tried \/ partial'[k] = path
      BY <1>1, <2>1, <2>3, <3>1
    <3>4. UNCHANGED <<i, success, failed>> /\ pc' = "mkstemp" /\ Tried' = Tried /\ path' = path
      BY <2>3 DEF Goto, lists, Tried, path
    <3>5. PartialsListed' /\ RestListed'
      BY <2>1, <3>2, <3>3, <3>4 DEF PartialsListed, RestListed
    <3> QED
      BY <3>4, <3>5, AccountsMove
  <2>4. CASE Fails /\ UNCHANGED partial
    BY <2>1, <2>4, AccountsFail
  <2> QED
    BY <1>7, <2>2, <2>3, <2>4 DEF ParseInProcess
<1>8. CASE MakeTemp
  BY <1>1, <1>2, <1>8, AccountsFail DEF MakeTemp, Goto, lists
<1>9. CASE OpenTemp
  BY <1>2, <1>9 DEF OpenTemp, Goto, lists
<1>10. CASE WriteTemp
  BY <1>1, <1>2, <1>10, AccountsFail DEF WriteTemp, Goto, lists
<1>11. CASE ReplaceOutput
  BY <1>1, <1>11, AccountsFail, AccountsSucceed DEF ReplaceOutput
<1>12. CASE Interrupt
  <2>1. pc # "aborted" /\ pc' = "aborted" /\ UNCHANGED <<i, success, failed, partial>>
    BY <1>12 DEF Interrupt, reports, lists
  <2> QED
    BY <1>2, <2>1
<1>13. CASE UNCHANGED vars
  BY <1>13 DEF vars, reports, lists, Accounts, SuccessesListed, FailuresListed, PartialsListed,
               RestListed, Tried, Kept, path
<1> QED
  BY <1>3, <1>4, <1>5, <1>6, <1>7, <1>8, <1>9, <1>10, <1>11, <1>12, <1>13
     DEF Next, Iterate, Returned

LEMMA AccountsInvariant == Spec => []Accounts
<1> QED
  BY BatchInvariant, InitAccounts, StepAccounts, PTL DEF Spec

-----------------------------------------------------------------------------
\* Lists are of assets and outputs, for every batch (parse_batch).
THEOREM TypeCorrect == Spec => []TypeOK
<1>1. BatchInv => TypeOK
  BY DEF BatchInv
<1> QED
  BY <1>1, BatchInvariant, PTL

\* However long the list is and whatever fails, the document of an asset that
\* is neither failed nor skipped is on disk when the batch returns, unless
\* another asset has the same output name.
THEOREM SuccessesStand == Spec => []SuccessStands
<1>1. BatchInv => SuccessStands
  <2> SUFFICES ASSUME BatchInv, pc = "done", NEW p \in Sources, Unreported(p), Alone(p)
               PROVE  document[OutputName[p]] = p
    BY DEF SuccessStands, Alone
  <2>1. PICK k \in 1..Len(Paths) : Paths[k] = p
    BY PathIsKnown DEF Sources
  <2>2. ~Contains(failed, p) /\ ~Contains(skipped, p)
    BY DEF Unreported
  <2>3. k < i
    <3>1. ~(k >= i)
      BY <2>1, <2>2 DEF BatchInv, RestSkipped
    <3> QED
      BY <3>1 DEF BatchInv, TypeOK
  <2> QED
    BY <2>1, <2>2, <2>3 DEF BatchInv, Standing
<1> QED
  BY <1>1, BatchInvariant, PTL

\* The gate skips a tail of the list, and the assets before it are each on one
\* of the other two lists.
THEOREM TailIsSkippedWhole == Spec => []SkippedIsTail
<1>1. BatchInv => SkippedIsTail
  BY DEF BatchInv
<1> QED
  BY <1>1, BatchInvariant, PTL

\* In process, an output that is not reported as written still holds the
\* document of before, for any names that assets share (_write_output_atomic).
THEOREM FailuresKeepDocuments == Spec => []InProcessFailureKeepsDocument
<1>1. BatchInv => InProcessFailureKeepsDocument
  BY DEF BatchInv
<1> QED
  BY <1>1, BatchInvariant, PTL

\* When the batch returns, every asset is on one list: the successes are the
\* outputs of those neither failed nor skipped, in the order of the loop, no
\* asset is reported twice, and none is partial that was not tried.
THEOREM EveryAssetIsAccounted == Spec => []EveryAssetAccounted
<1>1. BatchInv /\ Accounts => EveryAssetAccounted
  <2> SUFFICES ASSUME BatchInv, Accounts, pc = "done"
               PROVE  /\ success = OutputsOf({p \in Sources : Unreported(p)})[Len(Paths)]
                      /\ IsInjective(failed \o skipped)
                      /\ IsInjective(partial)
                      /\ \A k \in DOMAIN partial : ~Contains(skipped, partial[k])
    BY DEF EveryAssetAccounted
  <2>1. /\ Len(Paths) \in Nat /\ i \in 1..(Len(Paths) + 1)
        /\ failed \in Seq(Sources)
        /\ skipped \in Seq(Sources) /\ skipped = SubSeq(Paths, i, Len(Paths))
    BY PathIsKnown DEF BatchInv, TypeOK, Accounts, RestListed
  <2>2. /\ DOMAIN skipped = 1..(Len(Paths) - i + 1) /\ Len(skipped) = Len(Paths) - i + 1
        /\ \A k \in 1..(Len(Paths) - i + 1) : skipped[k] = Paths[i + k - 1]
    BY <2>1, PathIsKnown
  <2>3. \A k \in DOMAIN skipped : i + k - 1 \in 1..Len(Paths) /\ i + k - 1 >= i
    BY <2>1, <2>2
  <2>4. \A k \in DOMAIN skipped : skipped[k] \notin Tried
    <3>1. \A l \in 1..(i - 1) : l \in 1..Len(Paths) /\ l < i
      BY <2>1
    <3>2. ASSUME NEW k \in DOMAIN skipped, NEW l \in 1..(i - 1) PROVE skipped[k] # Paths[l]
      <4>1. i + k - 1 # l
        BY <2>1, <2>2, <2>3, <3>1
      <4> QED
        BY <2>2, <2>3, <3>1, <4>1, PathIsKnown
    <3> QED
      BY <3>2 DEF Tried
  <2>5. \A p \in Tried : ~Contains(skipped, p)
    <3>1. \A k \in 1..Len(skipped) : skipped[k] \notin Tried
      BY <2>2, <2>4
    <3> QED
      BY ONLY <3>1 DEF Contains
  <2>6. IsInjective(skipped)
    <3>1. ASSUME NEW k \in DOMAIN skipped, NEW l \in DOMAIN skipped, k # l
          PROVE  skipped[k] # skipped[l]
      <4>1. i + k - 1 # i + l - 1
        BY <2>1, <2>2, <3>1
      <4> QED
        BY <2>2, <2>3, <4>1, PathIsKnown
    <3> QED
      BY <3>1 DEF IsInjective
  <2>7. IsInjective(failed) /\ \A k \in DOMAIN failed : failed[k] \in Tried
    BY DEF Accounts, FailuresListed
  <2>8. IsInjective(partial) /\ \A k \in DOMAIN partial : partial[k] \in Tried
    BY DEF Accounts, PartialsListed
  <2>9. \A k \in DOMAIN partial : ~Contains(skipped, partial[k])
    BY <2>8, <2>5
  <2>10. IsInjective(failed \o skipped)
    <3> DEFINE both == failed \o skipped
               m == Len(failed)
    <3>1. /\ m \in Nat /\ DOMAIN both = 1..(m + Len(skipped))
          /\ \A k \in 1..m : both[k] = failed[k] /\ k \in DOMAIN failed
          /\ \A k \in (m + 1)..(m + Len(skipped)) :
               both[k] = skipped[k - m] /\ k - m \in DOMAIN skipped
      BY <2>1, <2>2
    <3>2. \A k \in DOMAIN both : k \in 1..m \/ k \in (m + 1)..(m + Len(skipped))
      BY <2>1, <3>1
    <3> HIDE DEF both, m
    <3>3. ASSUME NEW k \in DOMAIN both, NEW l \in DOMAIN both, both[k] = both[l]
          PROVE  k = l
      <4>1. CASE k \in 1..m /\ l \in 1..m
        BY <2>7, <3>1, <3>3, <4>1 DEF IsInjective
      <4>2. CASE k \in 1..m /\ l \in (m + 1)..(m + Len(skipped))
        BY <2>4, <2>7, <3>1, <3>3, <4>2
      <4>3. CASE k \in (m + 1)..(m + Len(skipped)) /\ l \in 1..m
        BY <2>4, <2>7, <3>1, <3>3, <4>3
      <4>4. CASE k \in (m + 1)..(m + Len(skipped)) /\ l \in (m + 1)..(m + Len(skipped))
        <5>1. k - m = l - m
          BY <2>6, <3>1, <3>3, <4>4 DEF IsInjective
        <5> QED
          BY <3>1, <4>4, <5>1
      <4> QED
        BY <3>2, <4>1, <4>2, <4>3, <4>4
    <3> QED
      BY <3>3 DEF IsInjective, both
  <2>11. Kept = {p \in Sources : Unreported(p)}
    <3>1. ASSUME NEW p \in Kept PROVE p \in Sources /\ Unreported(p)
      <4>1. p \in Tried /\ ~Contains(failed, p)
        BY DEF Kept
      <4>2. p \in Sources
        BY <2>1, <4>1, PathIsKnown DEF Tried
      <4>3. ~Contains(skipped, p)
        BY <2>5, <4>1
      <4> QED
        BY <4>1, <4>2, <4>3 DEF Unreported
    <3>2. ASSUME NEW p \in Sources, Unreported(p) PROVE p \in Kept
      <4>1. PICK k \in 1..Len(Paths) : Paths[k] = p
        BY PathIsKnown DEF Sources
      <4>2. ~Contains(skipped, p) /\ ~Contains(failed, p)
        BY <3>2 DEF Unreported
      <4>3. ~(k >= i)
        BY <4>1, <4>2 DEF BatchInv, RestSkipped
      <4>4. k \in 1..(i - 1)
        BY <2>1, <4>3
      <4> QED
        BY <4>1, <4>2, <4>4 DEF Kept, Tried
    <3> QED
      BY <3>1, <3>2
  <2>12. success = OutputsOf(Kept)[Len(Paths)]
    BY DEF Accounts, SuccessesListed
  <2>13. success = OutputsOf({p \in Sources : Unreported(p)})[Len(Paths)]
    BY <2>11, <2>12, Zenon
  <2> QED
    BY <2>8, <2>9, <2>10, <2>13
<1> QED
  BY <1>1, BatchInvariant, AccountsInvariant, PTL
=============================================================================
