---------------------------- MODULE ResourceGuards ----------------------------
(***************************************************************************)
(* The two limits every part of a parse shares: BoundedEventBuffer, which  *)
(* drops what does not fit, and ResourceBudget, which raises.              *)
(***************************************************************************)
EXTENDS Integers, SequencesExt

CONSTANTS MaxEntries, MaxBytes,        \* of the buffer
          MaxSingle, MaxTotal,         \* max_single_read_bytes (the block's limit is larger), max_total_decompressed_bytes
          MaxWork,                     \* _max_work_units
          Sizes,                       \* of entries, reservations and units of work
          MaxDropped, MaxStack, MaxCounted   \* bounds of the model: drops, checkpoints, and what counters reach

VARIABLES entries, bytes, dropped,     \* the buffer: the sizes of its entries
          total, checkpoints, work,    \* the budget
          held                         \* what was granted and is not rolled back, as a sequence

buffer == <<entries, bytes, dropped>>
budget == <<total, checkpoints, work, held>>

Sum(s) == FoldSeq(LAMBDA x, y : x + y, 0, s)

Init ==
  /\ entries = <<>> /\ bytes = 0 /\ dropped = 0
  /\ total = 0 /\ checkpoints = <<>> /\ work = 0 /\ held = <<>>

AppendEntry(n) ==
  /\ IF Len(entries) >= MaxEntries \/ bytes + n > MaxBytes
     THEN dropped < MaxDropped /\ dropped' = dropped + 1 /\ UNCHANGED <<entries, bytes>>
     ELSE entries' = Append(entries, n) /\ bytes' = bytes + n /\ UNCHANGED dropped
  /\ UNCHANGED budget

Clear == entries' = <<>> /\ bytes' = 0 /\ dropped' = 0 /\ UNCHANGED budget

\* Variant: what was there before is tested, not what is asked for.
ReserveLate(n) ==
  /\ n <= MaxSingle /\ total < MaxCounted
  /\ total' = total + n
  /\ held' = IF total > MaxTotal THEN held ELSE Append(held, n)
  /\ UNCHANGED <<checkpoints, work, buffer>>

\* A reservation over the limit of one is refused before anything; one over
\* the limit of all is refused after it was added, and stays in the total.
Reserve(n) ==
  /\ n <= MaxSingle /\ total < MaxCounted
  /\ total' = total + n
  /\ held' = IF total' > MaxTotal THEN held ELSE Append(held, n)
  /\ UNCHANGED <<checkpoints, work, buffer>>

Checkpoint ==
  /\ Len(checkpoints) < MaxStack
  /\ checkpoints' = Append(checkpoints, [total |-> total, held |-> held])
  /\ UNCHANGED <<total, work, held, buffer>>

Rollback ==
  /\ checkpoints # <<>>
  /\ total' = Last(checkpoints).total
  /\ held' = Last(checkpoints).held
  /\ checkpoints' = Front(checkpoints)
  /\ UNCHANGED <<work, buffer>>

\* Work is counted past its limit too, and no rollback returns it.
ConsumeWork(n) ==
  /\ work <= MaxWork
  /\ work' = work + n
  /\ UNCHANGED <<total, checkpoints, held, buffer>>

Next == \/ \E n \in Sizes : AppendEntry(n) \/ Reserve(n) \/ ConsumeWork(n)
        \/ Clear \/ Checkpoint \/ Rollback

-----------------------------------------------------------------------------
\* The buffer never holds more entries or bytes than its limits, and its count
\* of bytes is that of its entries: a drop in between moves neither.
BufferBounded ==
  /\ Len(entries) <= MaxEntries
  /\ bytes = Sum(entries) /\ bytes <= MaxBytes

\* What was granted and not rolled back stays within the limit, and within the
\* total that later reservations are tested against, however refusals,
\* checkpoints and rollbacks to a total with a refusal in it alternate.
GrantedWithinLimit == Sum(held) <= total /\ Sum(held) <= MaxTotal
=============================================================================
