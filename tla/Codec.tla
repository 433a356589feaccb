-------------------------------- MODULE Codec --------------------------------
(***************************************************************************)
(* What the container readers share: reads of a stream that are short at   *)
(* its end, the decompression of one block, and the cipher, a library the  *)
(* code calls for whole units.  A reader answers [err, val].               *)
(***************************************************************************)
EXTENDS Integers, Sequences, FiniteSetsExt

CONSTANTS MaxRatio,   \* MAX_COMPRESSION_RATIO
          Align       \* 16, the unit of the cipher

Fine(val) == [err |-> FALSE, val |-> val]
Fail == [err |-> TRUE, val |-> <<>>]
Slice(s, from, n) == SubSeq(s, from + 1, Min({from + n, Len(s)}))
EndsWith(end, s) == Len(end) <= Len(s) /\ SubSeq(s, Len(s) - Len(end) + 1, Len(s)) = end
\* Sequences one behind the other.
Joined(seqs) ==
  LET all[k \in 0..Len(seqs)] == IF k = 0 THEN <<>> ELSE all[k - 1] \o seqs[k]
  IN all[Len(seqs)]
Aligned(n) == ((n + Align - 1) \div Align) * Align

\* decompress_block: the ratio of what is declared, then the method, cut at
\* the declared size.  Method 0 is "None"; 1 stands for any codec and doubles
\* each byte.
Doubled(s) == [k \in 1..(2 * Len(s)) |-> s[(k + 1) \div 2]]
Decompress(raw, size, method) ==
  IF size > 0 /\ Len(raw) > 0 /\ size > MaxRatio * Len(raw) THEN Fail
  ELSE Fine(Slice(IF method = 0 THEN raw ELSE Doubled(raw), 0, size))

\* The cipher works on units that lie at multiples of Align: what is cut out
\* of one, or padded with nulls to one, becomes Garbled.
Garbled == -1
DecryptAesEcb(at, raw) ==
  LET Whole(k) == at % Align = 0 /\ ((k - 1) \div Align + 1) * Align <= Len(raw)
  IN [k \in DOMAIN raw |-> IF Whole(k) THEN raw[k] ELSE Garbled]
=============================================================================
