--------------------- MODULE ContainersAndBodies_proofs ---------------------
(***************************************************************************)
(* The IoStore container for every table, index, partition and block (the  *)
(* range of a chunk's content, the walk of the directory index), and the   *)
(* bodies of a Blueprint function for every script.  A loop of the code is *)
(* a function of the number of its rounds (LoopExists), an invariant of it *)
(* is a set of pairs (LoopInvariant).  What a walk has left is a measure   *)
(* that a call takes from: the references of the directory index that were *)
(* not followed, the blocks of the flow graph that were not seen.          *)
(***************************************************************************)
EXTENDS ReaderCases_proofs

-----------------------------------------------------------------------------
(* Partitions, read one after the other.                                    *)

StoreBlock == [at : Nat, size : Nat, full : Nat, method : Nat]
Container ==
  [ids : Seq(Seq(Byte)), seeds : Seq({s \in Int : s < Modulus}), without : Seq(Int), chunks : Seq(Nat \X Nat),
   partitions : Seq(Seq(Nat)), partSize : Nat, blockSize : Nat, blocks : Seq(StoreBlock), methods : Nat, encrypted : BOOLEAN]

\* A range while it is put together: what was read, what is left.
Reading == [err : BOOLEAN, at : Nat, left : Nat, val : Seq(Int)]
IsReading(all, offset, length, s) ==
  /\ s \in Reading /\ ~s.err
  /\ StandsAt(s.val, all, offset) /\ Len(s.val) + s.left = length

\* The next of the parts, q, is entered where the range goes on.
Enters(m, q, offset, s) ==
  s.left > 0 => /\ PartPlace(m, q, s.at) = offset + Len(s.val)
                /\ IF m = 0 THEN q = 1 ELSE s.at < m

\* Units are not cut.
InUnits(t, s) == t.encrypted => s.at % Align = 0 /\ s.left % Align = 0

\* The bytes that follow, and the range with n of them.
Follow(all, offset, length, s, n, bytes) ==
  /\ offset \in Nat /\ length \in Nat /\ IsReading(all, offset, length, s)
  /\ n \in Nat /\ n <= s.left /\ StandsAt(bytes, all, offset + Len(s.val)) /\ Len(bytes) = n
Longer(all, offset, length, s, n, r) ==
  IsReading(all, offset, length, r) /\ r.at = 0 /\ r.left = s.left - n /\ Len(r.val) = Len(s.val) + n

LEMMA MoreIsReading ==
  ASSUME NEW all, NEW offset, NEW length, NEW s, NEW n, NEW bytes, Follow(all, offset, length, s, n, bytes)
  PROVE  Longer(all, offset, length, s, n, Io!More(s, n, bytes))
<1> SUFFICES ASSUME offset \in Nat, length \in Nat, IsReading(all, offset, length, s),
                    n \in Nat, n <= s.left, StandsAt(bytes, all, offset + Len(s.val)), Len(bytes) = n
             PROVE  Longer(all, offset, length, s, n, Io!More(s, n, bytes))
  BY DEF Follow
<1>1. s \in Reading /\ ~s.err /\ StandsAt(s.val, all, offset) /\ Len(s.val) + s.left = length
  BY DEF IsReading
<1>2. s.at \in Nat /\ s.left \in Nat /\ s.val \in Seq(Int) /\ Len(s.val) \in Nat /\ s.err \in BOOLEAN
  BY <1>1 DEF Reading
<1>3. PICK more : more = s.val \o bytes
  OBVIOUS
<1>4. StandsAt(more, all, offset) /\ Len(more) = Len(s.val) + n
  <2>1. StandsAt(s.val, all, offset) /\ StandsAt(bytes, all, offset + Len(s.val)) /\ offset \in Nat
    BY <1>1
  <2>2. StandsAt(s.val \o bytes, all, offset) /\ Len(s.val \o bytes) = Len(s.val) + Len(bytes)
    BY ONLY <2>1, MoreIsRead
  <2> QED
    BY <1>3, <2>2
<1>5. more \in Seq(Int)
  BY <1>4 DEF StandsAt
<1>6. Io!More(s, n, bytes) = [err |-> s.err, at |-> 0, left |-> s.left - n, val |-> more]
  <2>1. Io!More(s, n, bytes) = [s EXCEPT !.at = 0, !.left = s.left - n, !.val = more]
    BY <1>3 DEF Io!More
  <2>2. s \in Reading
    BY <1>1
  <2> QED
    BY ONLY <2>1, <2>2, ZenonT(30) DEF Reading
<1>7. s.left - n \in Nat /\ Len(more) + (s.left - n) = length
  BY <1>1, <1>2, <1>4
<1>8. [err |-> s.err, at |-> 0, left |-> s.left - n, val |-> more] \in Reading
  BY <1>2, <1>5, <1>7 DEF Reading
<1> QED
  BY <1>1, <1>4, <1>6, <1>7, <1>8, SMTT(30) DEF IsReading, Longer

LEMMA PartitionsAreParts ==
  ASSUME NEW t \in Container, Io!WellFormed(t)
  PROVE  Parts(t.partitions, t.partSize) /\ t.partitions \in Seq(Seq(Nat)) /\ t.partSize \in Nat
<1>1. t.partitions \in Seq(Seq(Nat)) /\ t.partSize \in Nat
  BY DEF Container
<1>2. t.partitions \in Seq(Seq(Int)) /\ Len(t.partitions) \in Nat /\ DOMAIN t.partitions = 1..Len(t.partitions)
  <2>1. \A x \in Seq(Nat) : x \in Seq(Int)
    OBVIOUS
  <2> QED
    BY <1>1, <2>1
<1>3. \A p \in 1..Len(t.partitions) :
        IF t.partSize = 0 THEN p = 1
        ELSE Len(t.partitions[p]) <= t.partSize /\ (p < Len(t.partitions) => Len(t.partitions[p]) = t.partSize)
  BY <1>2 DEF Io!WellFormed
<1>4. CASE t.partSize = 0
  <2>1. Len(t.partitions) <= 1
    <3>1. Len(t.partitions) > 1 => 2 \in 1..Len(t.partitions)
      BY <1>2
    <3> QED
      BY <1>2, <1>3, <1>4, <3>1
  <2>2. AllButLast(t.partitions, Len(t.partitions), t.partSize)
    BY <1>2, <2>1 DEF AllButLast
  <2> QED
    BY <1>1, <1>2, <1>4, <2>1, <2>2 DEF Parts
<1>5. CASE t.partSize # 0
  <2>1. AllButLast(t.partitions, Len(t.partitions), t.partSize)
    <3>1. \A i \in 1..(Len(t.partitions) - 1) : i \in 1..Len(t.partitions) /\ i < Len(t.partitions)
      BY <1>2
    <3> QED
      BY <1>3, <1>5, <3>1 DEF AllButLast
  <2> QED
    BY <1>1, <1>2, <1>3, <1>5, <2>1 DEF Parts
<1> QED
  BY <1>4, <1>5

LEMMA NextPartitionIsRead ==
  ASSUME NEW t \in Container, Io!WellFormed(t), NEW all, all = Io!Joined(t.partitions),
         NEW offset \in Nat, NEW length \in Nat, offset + length <= Len(all),
         NEW q \in Nat \ {0}, NEW s, IsReading(all, offset, length, s), Enters(t.partSize, q, offset, s), InUnits(t, s)
  PROVE  LET r == Io!NextPartition(t, q, s)
         IN IsReading(all, offset, length, r) /\ Enters(t.partSize, q + 1, offset, r) /\ InUnits(t, r)
<1> DEFINE m == t.partSize
           n == IF m > 0 THEN Io!Min({s.left, m - s.at}) ELSE s.left
           raw == Io!Slice(t.partitions[q], s.at, n)
           r == Io!NextPartition(t, q, s)
<1>1. Parts(t.partitions, m) /\ t.partitions \in Seq(Seq(Nat)) /\ m \in Nat
  BY PartitionsAreParts
<1>2. /\ s.at \in Nat /\ s.left \in Nat /\ s.val \in Seq(Int) /\ Len(s.val) \in Nat /\ s.err = FALSE
      /\ Len(s.val) + s.left = length
  BY DEF IsReading, Reading
<1>3. CASE s.left = 0
  <2>1. r = s
    BY <1>2, <1>3 DEF Io!NextPartition
  <2> QED
    BY <1>2, <1>3, <2>1 DEF Enters
<1>4. CASE s.left # 0
  <2>20. PartPlace(m, q, s.at) = offset + Len(s.val)
    BY <1>2, <1>4 DEF Enters
  <2>1. IF m = 0 THEN q = 1 ELSE s.at < m
    BY <1>2, <1>4 DEF Enters
  <2>0. n = IF m = 0 THEN s.left ELSE IF s.left <= m - s.at THEN s.left ELSE m - s.at
    <3>1. s.left \in Int /\ m - s.at \in Int
      BY <1>1, <1>2, SMTT(30)
    <3>2. Io!Min({s.left, m - s.at}) = IF s.left <= m - s.at THEN s.left ELSE m - s.at
      BY ONLY <3>1, LowerOfTwo
    <3> QED
      BY <1>1, <3>2
  <2> HIDE DEF n, m
  <2>2. /\ n \in Nat /\ n <= s.left /\ (m # 0 => s.at + n <= m)
        /\ n = s.left \/ (m # 0 /\ n = m - s.at)
    BY <1>1, <1>2, <2>0, <2>1, SMTT(30)
  <2>3. PICK pos \in Nat : pos = offset + Len(s.val)
    BY <1>2
  <2>4. pos + s.left <= Len(all)
    BY <1>2, <2>3, SMTT(30)
  <2>5. /\ q <= Len(t.partitions) /\ t.partitions[q] \in Seq(Int) /\ s.at + n <= Len(t.partitions[q])
        /\ \A j \in 1..n : t.partitions[q][s.at + j] = all[pos + j]
    <3>0. PICK seqs : seqs = t.partitions
      OBVIOUS
    <3>1. PICK at \in Nat, left \in Nat \ {0} : seqs = t.partitions /\ at = s.at /\ left = s.left
      BY <1>2, <1>4, <3>0
    <3>5. PICK k \in Nat, w \in Nat : k = n /\ w = m
      BY <1>1, <2>2
    <3>2. Parts(seqs, w) /\ all = Io!Joined(seqs) /\ PartPlace(w, q, at) = pos /\ pos + left <= Len(all)
      BY <1>1, <2>20, <2>3, <2>4, <3>1, <3>5
    <3>3. k <= left /\ (w # 0 => at + k <= w) /\ (w = 0 => q = 1)
      BY <2>1, <2>2, <3>1, <3>5
    <3>4. /\ q <= Len(seqs) /\ seqs[q] \in Seq(Int) /\ at + k <= Len(seqs[q])
          /\ \A j \in 1..k : seqs[q][at + j] = all[pos + j]
      <4>1. GoesOn(seqs, w, all, q, at, left, pos, k)
        BY <3>2, <3>3 DEF GoesOn
      <4>2. IsThere(seqs, all, q, at, pos, k)
        BY ONLY <4>1, PartIsThere
      <4> QED
        BY <4>2 DEF IsThere
    <3> QED
      BY <3>1, <3>4, <3>5
  <2>6. t.partitions[q] \in Seq(Nat)
    BY <1>1, <2>5
  <2>7. raw \in Seq(Nat) /\ Len(raw) = n /\ \A j \in 1..n : raw[j] = t.partitions[q][s.at + j]
    <3>1. s.at \in Nat /\ n \in Nat /\ s.at + n <= Len(t.partitions[q])
      BY <1>2, <2>2, <2>5
    <3> QED
      <4>1. Fits(Nat, t.partitions[q], s.at, n)
        BY <2>6, <3>1 DEF Fits
      <4>2. IsCut(Nat, raw, t.partitions[q], s.at, n)
        BY ONLY <4>1, PartIsCut DEF raw
      <4> QED
        BY <4>2 DEF IsCut
  <2> HIDE DEF raw
  <2>8. t.encrypted => m % Align = 0 /\ n % Align = 0
    <3> SUFFICES ASSUME t.encrypted PROVE m % Align = 0 /\ n % Align = 0
      OBVIOUS
    <3>1. m % Align = 0 /\ s.at % Align = 0 /\ s.left % Align = 0
      BY DEF InUnits, Io!WellFormed, m
    <3>2. CASE n = s.left
      BY <3>1, <3>2
    <3>3. CASE m # 0 /\ n = m - s.at
      <4>1. UnitsOf(m) /\ UnitsOf(s.at)
        BY <1>1, <1>2, <3>1, UnitsByRest
      <4>2. UnitsOf(m - s.at)
        <5>1. m \in Int /\ s.at \in Int
          BY <1>1, <1>2
        <5> QED
          BY ONLY <4>1, <5>1, UnitsAddUp
      <4>3. UnitsOf(n)
        BY <3>3, <4>2
      <4> QED
        BY <2>2, <3>1, <4>3, UnitsByRest
    <3> QED
      BY <2>2, <3>2, <3>3
  <2>9. Io!Decrypt(t, s.at, raw) = raw
    <3>1. t.encrypted => Io!DecryptAesEcb(s.at, raw) = raw
      BY <1>2, <2>7, <2>8, WholeUnitsAreRead DEF InUnits
    <3> QED
      BY <3>1 DEF Io!Decrypt
  <2>10. r = Io!More(s, n, raw)
    <3>1. ~(q > Len(t.partitions)) /\ ~(Len(raw) < n)
      BY <1>1, <2>2, <2>5, <2>7
    <3> QED
      BY <1>2, <1>4, <2>9, <3>1 DEF Io!NextPartition, n, raw, m
  <2>11. StandsAt(raw, all, offset + Len(s.val))
    <3>1. raw \in Seq(Int) /\ \A j \in 1..Len(raw) : raw[j] = all[pos + j]
      <4>1. \A y \in Seq(Nat) : y \in Seq(Int)
        OBVIOUS
      <4>2. \A j \in 1..Len(raw) : raw[j] = all[pos + j]
        BY <2>5, <2>7
      <4> QED
        BY <2>7, <4>1, <4>2
    <3> QED
      BY <2>3, <3>1 DEF StandsAt
  <2> HIDE DEF r
  <2>12. IsReading(all, offset, length, r) /\ r.at = 0 /\ r.left = s.left - n /\ Len(r.val) = Len(s.val) + n
    <3>1. n \in Nat /\ n <= s.left /\ Len(raw) = n /\ IsReading(all, offset, length, s)
      BY <2>2, <2>7
    <3> QED
      <4>1. Follow(all, offset, length, s, n, raw)
        BY <2>11, <3>1 DEF Follow
      <4>2. Longer(all, offset, length, s, n, r)
        BY <2>10, <4>1, MoreIsReading
      <4> QED
        BY <4>2 DEF Longer
  <2>13. Enters(m, q + 1, offset, r)
    <3> SUFFICES ASSUME r.left > 0
                 PROVE  PartPlace(m, q + 1, r.at) = offset + Len(r.val) /\ IF m = 0 THEN q + 1 = 1 ELSE r.at < m
      BY DEF Enters
    <3>1. m # 0 /\ n = m - s.at
      BY <1>2, <2>2, <2>12
    <3>2. PICK x \in Int : x = m * (q - 1)
      BY <1>1
    <3>3. m * ((q + 1) - 1) = x + m
      <4>1. m * ((q + 1) - 1) = m * (q - 1) + m
        BY ONLY <1>1, q \in Nat
      <4> QED
        BY <3>2, <4>1
    <3>4. x + m + 0 = offset + (Len(s.val) + n)
      <4>1. x + s.at = offset + Len(s.val)
        BY <2>20, <3>2 DEF PartPlace
      <4>2. PICK at \in Nat, len \in Nat : at = s.at /\ len = Len(s.val)
        BY <1>2
      <4>3. m \in Nat /\ n = m - at /\ x + at = offset + len
        BY <1>1, <3>1, <4>1, <4>2
      <4>4. x + m + 0 = offset + (len + n)
        BY ONLY <4>3, x \in Int, at \in Nat, len \in Nat, offset \in Nat
      <4> QED
        BY <4>2, <4>4
    <3> QED
      <4>1. m * ((q + 1) - 1) + r.at = x + m + 0 /\ Len(r.val) = Len(s.val) + n /\ r.at = 0
        BY <2>12, <3>3
      <4>2. r.at < m /\ m # 0
        BY <1>1, <3>1, <4>1
      <4>3. PartPlace(m, q + 1, r.at) = x + m + 0
        BY ONLY <4>1 DEF PartPlace
      <4> QED
        BY <3>4, <4>1, <4>2, <4>3
  <2>14. InUnits(t, r)
    <3> SUFFICES ASSUME t.encrypted PROVE r.at % Align = 0 /\ r.left % Align = 0
      BY DEF InUnits
    <3>1. UnitsOf(s.left) /\ UnitsOf(n)
      BY <1>2, <2>2, <2>8, UnitsByRest DEF InUnits
    <3>2. UnitsOf(s.left - n) /\ UnitsOf(n - n)
      <4>1. s.left \in Int /\ n \in Int
        BY <1>2, <2>2
      <4> QED
        BY ONLY <3>1, <4>1, UnitsAddUp
    <3>3. s.left - n \in Nat /\ n - n = 0
      BY <1>2, <2>2
    <3> QED
      BY <2>12, <3>2, <3>3, UnitsByRest
  <2> QED
    BY <2>12, <2>13, <2>14 DEF r, m
<1> QED
  BY <1>3, <1>4

\* While something is left, the part that is entered next is there.
LEMMA NextPartExists ==
  ASSUME NEW seqs, NEW m \in Nat, Parts(seqs, m), NEW all, all = Io!Joined(seqs),
         NEW offset \in Nat, NEW length \in Nat, offset + length <= Len(all),
         NEW q \in Nat \ {0}, NEW s, IsReading(all, offset, length, s), Enters(m, q, offset, s), s.left > 0
  PROVE  q <= Len(seqs)
<1>1. s.at \in Nat /\ s.left \in Nat \ {0} /\ Len(s.val) \in Nat /\ Len(s.val) + s.left = length
  BY DEF IsReading, Reading
<1>2. PICK pos \in Nat : pos = offset + Len(s.val)
  BY <1>1
<1>3. PartPlace(m, q, s.at) = pos /\ (IF m = 0 THEN q = 1 ELSE s.at < m) /\ pos + s.left <= Len(all)
  BY <1>1, <1>2 DEF Enters
<1>4. GoesOn(seqs, m, all, q, s.at, s.left, pos, 0)
  BY <1>1, <1>3 DEF GoesOn
<1>5. IsThere(seqs, all, q, s.at, pos, 0)
  BY <1>4, PartIsThere
<1> QED
  BY <1>5 DEF IsThere

\* A range that was put together to its end is the one asked for.
LEMMA AllIsRead ==
  ASSUME NEW all \in Seq(Int), NEW offset \in Nat, NEW length \in Nat, offset + length <= Len(all),
         NEW s, IsReading(all, offset, length, s), ~(s.left > 0)
  PROVE  Io!Answer(s) = Io!Fine(Io!Slice(all, offset, length))
<1>1. s.left = 0 /\ Len(s.val) = length /\ ~s.err /\ StandsAt(s.val, all, offset)
  BY DEF IsReading, Reading, StandsAt
<1>2. PICK val : val = s.val
  OBVIOUS
<1>3. StandsAt(val, all, offset) /\ Len(val) = length
  BY <1>1, <1>2
<1>4. Io!Slice(all, offset, length) = val
  BY <1>3, ReadIsSlice
<1> QED
  BY <1>1, <1>2, <1>4 DEF Io!Answer

\* Where a place of the content lies, in which partition and where in it; a
\* partition cuts no unit.
LEMMA PlaceLies ==
  ASSUME NEW t \in Container, NEW offset \in Nat
  PROVE  LET m == t.partSize
             p == Io!PartitionOf(t, offset)
             at == Io!PlaceIn(t, offset)
         IN /\ p \in Nat \ {0} /\ at \in Nat /\ PartPlace(m, p, at) = offset /\ (m # 0 => at < m)
            /\ m = 0 => p = 1 /\ at = offset
            /\ Io!WellFormed(t) /\ t.encrypted /\ offset % Align = 0 => at % Align = 0
<1> DEFINE m == t.partSize
           p == Io!PartitionOf(t, offset)
           at == Io!PlaceIn(t, offset)
<1>1. m \in Nat
  BY DEF Container
<1>3. /\ p \in Nat \ {0} /\ at \in Nat /\ PartPlace(m, p, at) = offset /\ (m # 0 => at < m)
      /\ m = 0 => p = 1 /\ at = offset
  <2>1. CASE m = 0
    <3>1. p = 1 /\ at = offset
      BY <2>1 DEF Io!PartitionOf, Io!PlaceIn
    <3> QED
      BY <2>1, <3>1 DEF PartPlace
  <2>2. CASE m # 0
    <3>1. p = (offset \div m) + 1 /\ at = offset % m
      BY <1>1, <2>2 DEF Io!PartitionOf, Io!PlaceIn
    <3> HIDE DEF m
    <3>2. /\ offset \div m \in Nat /\ offset % m \in 0..(m - 1)
          /\ (offset % m) + m * (offset \div m) = offset
      BY ONLY <1>1, <2>2, offset \in Nat
    <3>3. p - 1 = offset \div m
      BY <3>1, <3>2
    <3>4. PartPlace(m, p, at) = m * (offset \div m) + (offset % m)
      BY <3>1, <3>3 DEF PartPlace
    <3>5. PICK x \in Int, y \in Int : x = m * (offset \div m) /\ y = offset % m
      BY <1>1, <3>2
    <3>6. PartPlace(m, p, at) = offset
      BY <3>2, <3>4, <3>5
    <3> QED
      BY <1>1, <2>2, <3>1, <3>2, <3>6
  <2> QED
    BY <2>1, <2>2
<1>4. Io!WellFormed(t) /\ t.encrypted /\ offset % Align = 0 => at % Align = 0
  <2> SUFFICES ASSUME Io!WellFormed(t), t.encrypted, offset % Align = 0 PROVE at % Align = 0
    OBVIOUS
  <2>1. UnitsOf(offset) /\ UnitsOf(m)
    BY <1>1, UnitsByRest DEF Io!WellFormed
  <2>2. CASE m = 0
    BY <1>3, <2>2
  <2>3. CASE m # 0
    <3> HIDE DEF m, p
    <3>1. PICK k \in Int, j \in Nat, i \in Int : m = Align * k /\ j = p - 1 /\ offset = Align * i
      BY <1>3, <2>1 DEF UnitsOf
    <3>2. m * j + at = offset
      BY <1>3, <3>1 DEF PartPlace
    <3>3. Align \in Nat
      BY PakAssumption
    <3>4. at = Align * (i - k * j)
      <4>1. PICK w \in Int : w = at
        BY <1>3
      <4>2. w = Align * (i - k * j)
        BY ONLY <3>1, <3>2, <3>3, <4>1
      <4> QED
        BY <4>1, <4>2
    <3>5. UnitsOf(at)
      BY <3>4 DEF UnitsOf
    <3> QED
      BY <1>3, <3>5, UnitsByRest
  <2> QED
    BY <2>2, <2>3
<1> QED
  BY <1>3, <1>4

PlainLoop(t, p, at, length, n, g) ==
  g = [i \in 0..n |-> IF i = 0 THEN Io!Begun(at, length) ELSE Io!NextPartition(t, p + i - 1, g[i - 1])]

LEMMA PlainIsRead ==
  ASSUME NEW t \in Container, Io!WellFormed(t), NEW all, all = Io!Joined(t.partitions),
         NEW offset \in Nat, NEW length \in Nat \ {0}, offset + length <= Len(all),
         t.encrypted => offset % Align = 0 /\ length % Align = 0
  PROVE  /\ Io!PartitionOf(t, offset) <= Len(t.partitions)
         /\ Io!Plain(t, Io!PartitionOf(t, offset), Io!PlaceIn(t, offset), length) = Io!Fine(Io!Slice(all, offset, length))
<1> DEFINE m == t.partSize
           p == Io!PartitionOf(t, offset)
           at == Io!PlaceIn(t, offset)
           n == Len(t.partitions) - p + 2
           start == Io!Begun(at, length)
           Inv == {x \in (0..n) \X Reading : /\ IsReading(all, offset, length, x[2])
                                             /\ Enters(m, p + x[1], offset, x[2]) /\ InUnits(t, x[2])}
           h == [x \in (1..n) \X Reading |-> Io!NextPartition(t, p + x[1] - 1, x[2])]
<1>1. Parts(t.partitions, m) /\ m \in Nat /\ Len(t.partitions) \in Nat
  <2>1. Parts(t.partitions, t.partSize) /\ t.partitions \in Seq(Seq(Nat)) /\ t.partSize \in Nat
    BY PartitionsAreParts
  <2> QED
    BY ONLY <2>1
<1>2. all \in Seq(Int)
  <2>1. t.partitions \in Seq(Seq(Int))
    BY <1>1 DEF Parts
  <2> QED
    BY <1>1, <2>1, JoinedIsLaidOut, JoinedIsLayout DEF IsLaidOut
<1>3. /\ p \in Nat \ {0} /\ at \in Nat /\ PartPlace(m, p, at) = offset /\ (m # 0 => at < m)
      /\ m = 0 => p = 1 /\ at = offset
  BY PlaceLies
<1>4. t.encrypted => at % Align = 0
  BY PlaceLies
<1> HIDE DEF m, p, at
<1>5. start \in Reading /\ IsReading(all, offset, length, start) /\ start.left = length /\ start.at = at /\ start.val = <<>>
  BY <1>3 DEF Io!Begun, Reading, IsReading, StandsAt
<1>6. Enters(m, p, offset, start)
  BY <1>3, <1>5 DEF Enters
<1>7. InUnits(t, start)
  BY <1>4, <1>5 DEF InUnits
<1> HIDE DEF start
<1>8. p <= Len(t.partitions)
  BY <1>1, <1>3, <1>5, <1>6, NextPartExists
<1>9. n \in Nat
  BY <1>1, <1>3, <1>8
<1>10. ASSUME NEW k \in 1..n, NEW s \in Reading, <<k - 1, s>> \in Inv
       PROVE  <<k, Io!NextPartition(t, p + k - 1, s)>> \in Inv
  <2>1. PICK q \in Nat \ {0} : q = p + k - 1
    BY <1>3
  <2>2. p + (k - 1) = q /\ p + k = q + 1
    BY <1>3, <2>1
  <2>3. IsReading(all, offset, length, s) /\ Enters(m, q, offset, s) /\ InUnits(t, s)
    BY <1>10, <2>2
  <2>4. PICK r : r = Io!NextPartition(t, q, s)
    OBVIOUS
  <2>5. IsReading(all, offset, length, r) /\ Enters(m, q + 1, offset, r) /\ InUnits(t, r)
    BY <2>3, <2>4, NextPartitionIsRead DEF m
  <2>6. r \in Reading
    BY <2>5 DEF IsReading
  <2>7. <<k, r>> \in (0..n) \X Reading
    BY <1>9, <2>6
  <2> HIDE DEF n
  <2>8. <<k, r>> \in Inv
    BY <2>2, <2>5, <2>7
  <2> HIDE DEF Inv
  <2> QED
    BY <2>1, <2>4, <2>8
<1>11. <<0, start>> \in Inv
  BY <1>3, <1>5, <1>6, <1>7, <1>9
<1>12. \A x \in Inv : IsReading(all, offset, length, x[2]) /\ Enters(m, p + x[1], offset, x[2])
  OBVIOUS
<1>13. Inv \in SUBSET ((0..n) \X Reading)
  OBVIOUS
<1>14. \A k \in 1..n : \A s \in Reading : h[<<k, s>>] = Io!NextPartition(t, p + k - 1, s)
  OBVIOUS
<1> HIDE DEF Inv, h, n
<1>15. PICK f : IsLoop(f, n, start, h) /\ \A k \in 0..n : <<k, f[k]>> \in Inv
  <2>1. \A k \in 1..n : \A s \in Reading : <<k - 1, s>> \in Inv => <<k, h[<<k, s>>]>> \in Inv
    BY <1>10, <1>14
  <2> QED
    BY <1>9, <1>11, <1>13, <2>1, LoopExists
<1>16. PlainLoop(t, p, at, length, n, f)
  <2>1. ASSUME NEW k \in 1..n PROVE h[<<k, f[k - 1]>>] = Io!NextPartition(t, p + k - 1, f[k - 1])
    <3>1. k - 1 \in 0..n
      BY <1>9
    <3>2. f[k - 1] \in Reading
      BY <1>13, <1>15, <3>1
    <3> QED
      BY <1>14, <3>2
  <2>2. \A k \in 0..n : k # 0 => k \in 1..n
    BY <1>9
  <2>3. [k \in 0..n |-> IF k = 0 THEN start ELSE h[<<k, f[k - 1]>>]]
          = [k \in 0..n |-> IF k = 0 THEN start ELSE Io!NextPartition(t, p + k - 1, f[k - 1])]
    BY <2>1, <2>2
  <2> QED
    BY <1>15, <2>3 DEF IsLoop, PlainLoop, start
<1>17. PICK g : g = (CHOOSE y : PlainLoop(t, p, at, length, n, y)) /\ PlainLoop(t, p, at, length, n, g)
  BY <1>16
<1>18. Io!Plain(t, p, at, length) = Io!Answer(g[n])
  BY <1>17, Zenon DEF Io!Plain, PlainLoop, n
<1>19. <<n, g[n]>> \in Inv
  <2>1. \A k \in 0..n : g[k] = IF k = 0 THEN start ELSE Io!NextPartition(t, p + k - 1, g[k - 1])
    BY <1>17 DEF PlainLoop, start
  <2>2. <<0, g[0]>> \in Inv
    BY <1>9, <1>11, <2>1
  <2>3. ASSUME NEW k \in 1..n, <<k - 1, g[k - 1]>> \in Inv PROVE <<k, g[k]>> \in Inv
    <3>1. k \in 0..n /\ k # 0
      BY <1>9
    <3>2. g[k - 1] \in Reading
      BY <1>13, <2>3
    <3>3. g[k] = Io!NextPartition(t, p + k - 1, g[k - 1])
      BY <2>1, <3>1
    <3> QED
      BY <1>10, <2>3, <3>2, <3>3
  <2>4. \A k \in 0..n : <<k, g[k]>> \in Inv
    BY <1>9, <2>2, <2>3, LoopInvariant
  <2> QED
    BY <1>9, <2>4
<1>20. PICK s : s = g[n] /\ IsReading(all, offset, length, s) /\ Enters(m, p + n, offset, s)
  BY <1>12, <1>19
<1>21. ~(s.left > 0)
  <2> SUFFICES ASSUME s.left > 0 PROVE FALSE
    OBVIOUS
  <2>1. PICK q \in Nat \ {0} : q = p + n
    BY <1>3, <1>9
  <2>2. q <= Len(t.partitions)
    BY <1>1, <1>20, <2>1, NextPartExists
  <2>3. q = Len(t.partitions) + 2
    BY <1>1, <1>3, <2>1 DEF n
  <2> QED
    BY <1>1, <2>2, <2>3
<1>22. Io!Answer(s) = Io!Fine(Io!Slice(all, offset, length))
  BY <1>2, <1>20, <1>21, AllIsRead
<1> QED
  BY <1>8, <1>18, <1>20, <1>22 DEF p, at

-----------------------------------------------------------------------------
(* Blocks, read one after the other.                                        *)

LEMMA DividedByBlock ==
  ASSUME NEW x \in Nat, NEW m \in Nat \ {0}
  PROVE  x \div m \in Nat /\ x % m \in 0..(m - 1) /\ m * (x \div m) + (x % m) = x
OBVIOUS

LEMMA RoundedUp ==
  ASSUME NEW x \in Nat, NEW m \in Nat \ {0}
  PROVE  (x + m - 1) \div m \in Nat /\ m * ((x + m - 1) \div m) >= x /\ m * ((x + m - 1) \div m) < x + m
<1>1. PICK y \in Nat : y = x + m - 1
  <2>1. x + m - 1 \in Nat
    OBVIOUS
  <2> QED
    BY <2>1
<1>2. y \div m \in Nat /\ y % m \in 0..(m - 1) /\ m * (y \div m) + (y % m) = y
  BY DividedByBlock
<1>3. PICK p \in Int, r \in Int : p = m * (y \div m) /\ r = y % m
  BY <1>2
<1>4. r >= 0 /\ r <= m - 1 /\ p + r = y
  BY <1>2, <1>3
<1>5. p >= x /\ p < x + m
  BY ONLY p \in Int, r \in Int, x \in Nat, m \in Nat \ {0}, <1>1, <1>4
<1> QED
  BY <1>1, <1>2, <1>3, <1>5

LEMMA FewerBlocks ==
  ASSUME NEW a \in Int, NEW b \in Int, NEW m \in Nat \ {0}, m * a < m * b
  PROVE  a < b
<1> SUFFICES ASSUME a >= b PROVE FALSE
  OBVIOUS
<1>1. PICK e \in Int : e = a - b
  OBVIOUS
<1>2. e \in Nat /\ a = b + e
  BY <1>1
<1>3. m * e >= 0
  BY ONLY <1>2, m \in Nat \ {0}
<1>4. m * a = m * b + m * e
  BY ONLY <1>2, a \in Int, b \in Int, m \in Nat \ {0}
<1>5. PICK x \in Int, y \in Int, z \in Int : x = m * a /\ y = m * b /\ z = m * e
  BY ONLY <1>2, a \in Int, b \in Int, m \in Nat \ {0}
<1>6. x < y /\ z >= 0 /\ x = y + z
  BY <1>3, <1>4, <1>5
<1> QED
  BY ONLY <1>6, x \in Int, y \in Int, z \in Int

LEMMA CutIsBytes ==
  ASSUME NEW s \in Seq(Int), NEW from \in Nat, NEW n \in Nat
  PROVE  Io!Slice(s, from, n) \in Seq(Int)
<1>1. Io!Slice(s, from, n) = Pak!Slice(s, from, n)
  BY CodecIsShared
<1> QED
  BY <1>1, SliceIsPart

LEMMA DecompressedIsBytes ==
  ASSUME NEW s \in Seq(Int), NEW n \in Nat, NEW m
  PROVE  Io!Decompress(s, n, m).val \in Seq(Int)
<1>1. PICK wide \in Seq(Int) : wide = Io!Doubled(s)
  <2>1. Io!Doubled(s) = Pak!Doubled(s)
    BY Zenon DEF Io!Doubled, Pak!Doubled
  <2>2. Twice(s) \in Seq(Int)
    BY TwiceIsTwice
  <2> QED
    BY <2>1, <2>2 DEF Twice
<1>2. Io!Slice(IF m = 0 THEN s ELSE wide, 0, n) \in Seq(Int)
  BY CutIsBytes
<1>3. Io!Decompress(s, n, m) \in {Io!Fail, Io!Fine(Io!Slice(IF m = 0 THEN s ELSE wide, 0, n))}
  BY <1>1 DEF Io!Decompress
<1>4. <<>> \in Seq(Int)
  OBVIOUS
<1> DEFINE val == Io!Slice(IF m = 0 THEN s ELSE wide, 0, n)
<1>5. Io!Fail.val = <<>> /\ Io!Fine(val).val = val
  BY DEF Io!Fail, Io!Fine
<1> HIDE DEF val
<1> QED
  BY <1>2, <1>3, <1>4, <1>5 DEF val

LEMMA StoreBlockIsBytes ==
  ASSUME NEW t \in Container, NEW b \in StoreBlock
  PROVE  Io!BlockBytes(t, b).val \in Seq(Int)
<1> DEFINE p == Io!PartitionOf(t, b.at)
           at == Io!PlaceIn(t, b.at)
           raw == Io!Slice(t.partitions[p], at, b.size)
           units == Io!Slice(t.partitions[p], at, Io!Aligned(b.size))
           plain == Io!Decrypt(t, at, units)
           bytes == Io!Slice(plain, 0, b.size)
           failed == \/ p > Len(t.partitions) \/ Len(raw) < b.size
                     \/ (t.encrypted /\ Len(units) < Io!Aligned(b.size)) \/ b.method > t.methods
<1>1. Io!BlockBytes(t, b) = IF failed THEN Io!Fail ELSE Io!Decompress(bytes, b.full, b.method)
  BY Zenon DEF Io!BlockBytes
<1>2. b.at \in Nat /\ b.size \in Nat /\ b.full \in Nat /\ t.partitions \in Seq(Seq(Nat)) /\ Len(t.partitions) \in Nat
  BY DEF StoreBlock, Container
<1>3. p \in Nat \ {0} /\ at \in Nat
  BY <1>2, PlaceLies
<1> HIDE DEF p, at
<1>4. CASE failed
  <2>1. Io!BlockBytes(t, b) = Io!Fail
    BY <1>1, <1>4
  <2> HIDE DEF failed
  <2> QED
    BY <2>1 DEF Io!Fail
<1>5. CASE ~failed
  <2>1. p \in 1..Len(t.partitions)
    BY <1>2, <1>3, <1>5
  <2>2. Io!BlockBytes(t, b) = Io!Decompress(bytes, b.full, b.method)
    BY <1>1, <1>5
  <2> HIDE DEF failed
  <2>3. PICK part \in Seq(Nat) : part = t.partitions[p]
    BY <1>2, <2>1
  <2>4. Io!Aligned(b.size) \in Nat
    BY <1>2, UnitsAreWhole, CodecIsShared
  <2>5. units \in Seq(Nat)
    <3>1. PICK n \in Nat : n = Io!Aligned(b.size)
      BY <2>4
    <3>2. Io!Slice(part, at, n) = Pak!Slice(part, at, n) /\ Pak!Slice(part, at, n) \in Seq(Nat)
      BY <1>3, CodecIsShared, SliceIsPart
    <3> QED
      BY <2>3, <3>1, <3>2
  <2> HIDE DEF units
  <2>6. plain \in Seq(Int)
    <3>1. Io!DecryptAesEcb(at, units) \in Seq(Int)
      <4>1. PICK u \in Seq(Nat) : u = units
        BY <2>5
      <4>2. u \in Seq(Int)
        OBVIOUS
      <4>3. Io!DecryptAesEcb(at, u) = Pak!DecryptAesEcb(at, u) /\ Pak!DecryptAesEcb(at, u) \in Seq(Int)
        BY <4>2, CodecIsShared, DecryptedIsSequence
      <4> QED
        BY <4>1, <4>3
    <3>2. units \in Seq(Int)
      BY <2>5
    <3> QED
      BY <3>1, <3>2 DEF Io!Decrypt
  <2> HIDE DEF plain
  <2>7. bytes \in Seq(Int)
    BY <1>2, <2>6, CutIsBytes
  <2> HIDE DEF bytes
  <2> QED
    BY <1>2, <2>2, <2>7, DecompressedIsBytes
<1> QED
  BY <1>4, <1>5

\* The blocks of a well-built container are the parts of its content.
Blocks(t) == [k \in DOMAIN t.blocks |-> Io!BlockBytes(t, t.blocks[k]).val]

LEMMA BlocksAreParts ==
  ASSUME NEW t \in Container, Io!WellFormed(t), NEW all, all = Io!Joined(Blocks(t)), Len(all) > 0
  PROVE  /\ Parts(Blocks(t), t.blockSize) /\ t.blockSize \in Nat \ {0} /\ all \in Seq(Int)
         /\ Len(Blocks(t)) = Len(t.blocks) /\ Len(t.blocks) \in Nat
         /\ \A k \in 1..Len(t.blocks) : /\ Blocks(t)[k] = Io!BlockBytes(t, t.blocks[k]).val
                                        /\ ~Io!BlockBytes(t, t.blocks[k]).err
                                        /\ Io!Garbled \notin Io!Range(Blocks(t)[k])
<1> DEFINE B == Blocks(t)
           n == Len(t.blocks)
           m == t.blockSize
<1>1. t.blocks \in Seq(StoreBlock) /\ m \in Nat
  BY DEF Container
<1>2. n \in Nat /\ DOMAIN t.blocks = 1..n /\ \A k \in 1..n : t.blocks[k] \in StoreBlock
  BY <1>1
<1>3. \A k \in 1..n : B[k] = Io!BlockBytes(t, t.blocks[k]).val /\ B[k] \in Seq(Int)
  BY <1>2, StoreBlockIsBytes DEF Blocks
<1>4. B \in Seq(Seq(Int)) /\ Len(B) = n
  <2>1. B = [k \in 1..n |-> B[k]]
    BY <1>2 DEF Blocks
  <2> HIDE DEF B
  <2>2. B \in [1..n -> Seq(Int)]
    BY <1>3, <2>1
  <2> QED
    BY <1>2, <2>2
<1>5. \A k \in 1..n : /\ ~Io!BlockBytes(t, t.blocks[k]).err /\ Io!Garbled \notin Io!Range(B[k])
                      /\ IF k < n THEN Len(B[k]) = m ELSE Len(B[k]) <= m
  BY <1>2, <1>3 DEF Io!WellFormed
<1> HIDE DEF B, n, m
<1>6. AllButLast(B, n, m)
  <2>1. \A k \in 1..(n - 1) : k \in 1..n /\ k < n
    BY <1>2
  <2> QED
    BY <1>5, <2>1 DEF AllButLast
<1>7. IsLaidOut(all, Int, n, m, B)
  BY <1>1, <1>4, JoinedIsLaidOut, JoinedIsLayout DEF B
<1>8. all \in Seq(Int)
  BY <1>7 DEF IsLaidOut
<1>9. m # 0
  <2> SUFFICES ASSUME m = 0 PROVE FALSE
    OBVIOUS
  <2>1. n > 0
    <3>1. n = 0 => all = <<>>
      BY <1>7 DEF IsLaidOut
    <3> QED
      BY <1>2, <3>1
  <2>2. Len(all) = m * (n - 1) + Len(B[n])
    BY <1>6, <1>7, <2>1 DEF IsLaidOut
  <2>3. m * (n - 1) = 0
    BY <1>2
  <2>4. Len(B[n]) <= 0 /\ Len(B[n]) \in Nat
    BY <1>2, <1>3, <1>5, <2>1
  <2> QED
    BY <2>2, <2>3, <2>4
<1>10. \A k \in 1..n : Len(B[k]) <= m
  <2>1. \A k \in 1..n : Len(B[k]) \in Nat
    BY <1>3
  <2> QED
    BY <1>1, <1>2, <1>5, <2>1
<1>11. Parts(B, m)
  BY <1>1, <1>4, <1>6, <1>9, <1>10 DEF Parts
<1> QED
  BY <1>1, <1>2, <1>3, <1>4, <1>5, <1>8, <1>9, <1>11 DEF B, n, m

LEMMA NextBlockIsRead ==
  ASSUME NEW t \in Container, Io!WellFormed(t), NEW all, all = Io!Joined(Blocks(t)), Len(all) > 0,
         NEW offset \in Nat, NEW length \in Nat, offset + length <= Len(all),
         NEW k \in 1..Len(t.blocks), NEW s, IsReading(all, offset, length, s), Enters(t.blockSize, k, offset, s),
         s.at < t.blockSize
  PROVE  LET r == Io!NextBlock(t, k, t.blockSize, s)
         IN IsReading(all, offset, length, r) /\ Enters(t.blockSize, k + 1, offset, r) /\ r.at < t.blockSize
<1>1. /\ Parts(Blocks(t), t.blockSize) /\ t.blockSize \in Nat \ {0} /\ all \in Seq(Int)
      /\ Len(Blocks(t)) = Len(t.blocks) /\ Len(t.blocks) \in Nat
      /\ \A i \in 1..Len(t.blocks) : /\ Blocks(t)[i] = Io!BlockBytes(t, t.blocks[i]).val
                                     /\ ~Io!BlockBytes(t, t.blocks[i]).err
  BY BlocksAreParts
<1>2. PICK m \in Nat \ {0} : m = t.blockSize
  BY <1>1
<1>3. /\ s.at \in Nat /\ s.left \in Nat /\ s.val \in Seq(Int) /\ Len(s.val) \in Nat /\ s.err = FALSE
      /\ Len(s.val) + s.left = length
  BY DEF IsReading, Reading
<1>4. PICK at \in Nat, left \in Nat, len \in Nat : at = s.at /\ left = s.left /\ len = Len(s.val)
  BY <1>3
<1> DEFINE low == IF m - at <= left THEN m - at ELSE left
<1>5. PICK n \in Nat : n = low /\ n = Io!Min({m - at, left})
  <2>1. at < m
    BY <1>2, <1>4
  <2>2. low \in Nat
    BY <2>1
  <2>3. Io!Min({m - at, left}) = low
    <3>1. m - at \in Int /\ left \in Int
      OBVIOUS
    <3> QED
      BY ONLY <3>1, LowerOfTwo
  <2> QED
    BY <2>2, <2>3
<1>6. at + n <= m /\ n <= left /\ (n = left \/ n = m - at)
  BY <1>5
<1> HIDE DEF low
<1>7. PICK val : val = Blocks(t)[k]
  OBVIOUS
<1>8. val \in Seq(Int) /\ k \in Nat \ {0} /\ k \in 1..Len(Blocks(t))
  BY <1>1, <1>7 DEF Parts
<1>9. PICK pos \in Nat : pos = offset + len
  OBVIOUS
<1>10. left > 0 => IsThere(Blocks(t), all, k, at, pos, n)
  <2> SUFFICES ASSUME left > 0 PROVE IsThere(Blocks(t), all, k, at, pos, n)
    OBVIOUS
  <2>1. PartPlace(m, k, at) = pos
    BY <1>2, <1>4, <1>9 DEF Enters
  <2>2. pos + left <= Len(all)
    BY <1>3, <1>4, <1>9, SMTT(30)
  <2>3. GoesOn(Blocks(t), m, all, k, at, left, pos, n)
    BY <1>1, <1>2, <1>6, <1>8, <2>1, <2>2 DEF GoesOn
  <2> QED
    BY ONLY <2>3, PartIsThere
<1>11. PICK bytes : bytes = Io!Slice(val, at, n)
  OBVIOUS
<1>12. bytes \in Seq(Int) /\ Len(bytes) = n /\ \A j \in 1..n : bytes[j] = all[pos + j]
  <2>1. CASE left > 0
    <3>1. at + n <= Len(val) /\ \A j \in 1..n : val[at + j] = all[pos + j]
      BY <1>7, <1>10, <2>1 DEF IsThere
    <3>2. bytes \in Seq(Int) /\ Len(bytes) = n /\ \A j \in 1..n : bytes[j] = val[at + j]
      <4>1. Fits(Int, val, at, n)
        BY <1>8, <3>1 DEF Fits
      <4>2. IsCut(Int, bytes, val, at, n)
        BY <1>11, <4>1, PartIsCut
      <4> QED
        BY <4>2 DEF IsCut
    <3> QED
      BY <3>1, <3>2
  <2>2. CASE ~(left > 0)
    <3>1. n = 0
      BY <1>6, <2>2
    <3>2. bytes = Pak!Slice(val, at, 0)
      BY <1>11, <3>1, CodecIsShared
    <3>3. PICK zero \in Nat : zero = 0
      OBVIOUS
    <3>4. /\ Pak!Slice(val, at, zero) \in Seq(Int)
          /\ Len(Pak!Slice(val, at, zero)) = IF at + zero <= Len(val) THEN zero ELSE IF at <= Len(val) THEN Len(val) - at ELSE 0
      BY ONLY <1>8, at \in Nat, zero \in Nat, SliceIsPart
    <3>5. Len(val) \in Nat
      BY <1>8
    <3>6. Len(Pak!Slice(val, at, zero)) = 0
      BY <3>3, <3>4, <3>5
    <3> QED
      BY <3>1, <3>2, <3>3, <3>4, <3>6
  <2> QED
    BY <2>1, <2>2
<1>13. StandsAt(bytes, all, offset + Len(s.val))
  BY <1>4, <1>9, <1>12 DEF StandsAt
<1>14. PICK r : r = Io!NextBlock(t, k, m, s)
  OBVIOUS
<1>15. r = Io!More(s, n, bytes)
  <2>1. ~(k > Len(t.blocks)) /\ ~Io!BlockBytes(t, t.blocks[k]).err /\ Io!BlockBytes(t, t.blocks[k]).val = val
    BY <1>1, <1>7, SMTT(30)
  <2>2. Io!Min({m - s.at, s.left}) = n
    BY <1>4, <1>5
  <2>3. Io!Slice(val, s.at, n) = bytes
    BY <1>4, <1>11
  <2> QED
    BY <1>3, <1>14, <2>1, <2>2, <2>3 DEF Io!NextBlock
<1>16. IsReading(all, offset, length, r) /\ r.at = 0 /\ r.left = s.left - n /\ Len(r.val) = Len(s.val) + n
  <2>1. Follow(all, offset, length, s, n, bytes)
    BY <1>4, <1>6, <1>12, <1>13 DEF Follow
  <2>2. Longer(all, offset, length, s, n, r)
    BY <1>15, <2>1, MoreIsReading
  <2> QED
    BY <2>2 DEF Longer
<1>17. Enters(m, k + 1, offset, r)
  <2> SUFFICES ASSUME r.left > 0 PROVE PartPlace(m, k + 1, r.at) = offset + Len(r.val) /\ r.at < m
    BY DEF Enters
  <2>1. n = m - at /\ left > 0
    BY <1>4, <1>6, <1>16
  <2>2. PartPlace(m, k, at) = pos
    BY <1>2, <1>4, <1>9, <2>1 DEF Enters
  <2>3. PICK x \in Int : x = m * (k - 1)
    BY <1>8
  <2>4. x + at = pos
    BY <2>2, <2>3 DEF PartPlace
  <2>5. PartPlace(m, k + 1, 0) = x + m
    <3>1. m * ((k + 1) - 1) = m * (k - 1) + m
      BY ONLY <1>8, m \in Nat \ {0}
    <3>2. PartPlace(m, k + 1, 0) = m * ((k + 1) - 1) + 0
      BY DEF PartPlace
    <3>3. m * ((k + 1) - 1) = x + m
      BY <2>3, <3>1
    <3> QED
      BY <3>2, <3>3
  <2>6. x + m = offset + (len + n)
    BY ONLY <1>9, <2>1, <2>4, x \in Int, m \in Nat \ {0}, at \in Nat, len \in Nat, offset \in Nat, pos \in Nat
  <2> QED
    BY <1>4, <1>16, <2>5, <2>6
<1> QED
  BY <1>2, <1>14, <1>16, <1>17

BlocksLoop(t, first, size, skip, length, n, g) ==
  g = [i \in 0..n |-> IF i = 0 THEN Io!Begun(skip, length) ELSE Io!NextBlock(t, first + i - 1, size, g[i - 1])]

\* The blocks of a range.
FirstBlock(t, offset) == (offset \div t.blockSize) + 1
LastBlock(t, offset, length) == (offset + length + t.blockSize - 1) \div t.blockSize

LEMMA RangeHasBlocks ==
  ASSUME NEW t \in Container, Io!WellFormed(t), NEW all, all = Io!Joined(Blocks(t)),
         NEW offset \in Nat, NEW length \in Nat \ {0}, offset + length <= Len(all)
  PROVE  LET m == t.blockSize
             first == FirstBlock(t, offset)
             last == LastBlock(t, offset, length)
         IN /\ m \in Nat \ {0} /\ Len(all) > 0 /\ all \in Seq(Int) /\ Len(t.blocks) \in Nat
            /\ first \in Nat \ {0} /\ last \in Nat /\ first <= last /\ last <= Len(t.blocks)
            /\ offset % m \in 0..(m - 1) /\ PartPlace(m, first, offset % m) = offset
            /\ m * last >= offset + length
<1> DEFINE first == FirstBlock(t, offset)
           last == LastBlock(t, offset, length)
<1>1. Len(all) > 0
  <2>1. CASE Len(all) \in Nat
    BY <2>1
  <2>2. CASE Len(all) \notin Nat
    <3>1. Blocks(t) \in Seq(Seq(Int))
      <4>1. t.blocks \in Seq(StoreBlock)
        BY DEF Container
      <4>2. DOMAIN t.blocks = 1..Len(t.blocks) /\ Len(t.blocks) \in Nat /\ \A k \in DOMAIN t.blocks : t.blocks[k] \in StoreBlock
        BY <4>1
      <4>3. Blocks(t) \in [1..Len(t.blocks) -> Seq(Int)]
        BY <4>2, StoreBlockIsBytes DEF Blocks
      <4> QED
        BY <4>2, <4>3
    <3>2. all \in Seq(Int)
      <4>1. PICK z \in Nat : z = 0
        OBVIOUS
      <4>2. IsLaidOut(all, Int, Len(Blocks(t)), z, Blocks(t))
        BY <3>1, JoinedIsLaidOut, JoinedIsLayout
      <4> QED
        BY <4>2 DEF IsLaidOut
    <3> QED
      BY <2>2, <3>2
  <2> QED
    BY <2>1, <2>2
<1>2. /\ Parts(Blocks(t), t.blockSize) /\ t.blockSize \in Nat \ {0} /\ all \in Seq(Int)
      /\ Len(Blocks(t)) = Len(t.blocks) /\ Len(t.blocks) \in Nat
  BY <1>1, BlocksAreParts
<1>3. PICK m \in Nat \ {0} : m = t.blockSize
  BY <1>2
<1>4. /\ offset \div m \in Nat /\ offset % m \in 0..(m - 1) /\ m * (offset \div m) + (offset % m) = offset
  BY DividedByBlock
<1>5. first = (offset \div m) + 1 /\ first \in Nat \ {0} /\ first - 1 = offset \div m
  <2>1. PICK d \in Nat : d = offset \div m
    BY <1>4
  <2>2. first = d + 1
    BY <1>3, <2>1 DEF FirstBlock
  <2> QED
    BY <2>1, <2>2
<1>6. PICK end \in Nat : end = offset + length
  OBVIOUS
<1>7. last \in Nat /\ m * last >= end /\ m * last < end + m
  <2>1. last = (end + m - 1) \div m
    BY <1>3, <1>6 DEF LastBlock
  <2> QED
    BY <2>1, RoundedUp
<1> HIDE DEF first, last
<1>8. PartPlace(m, first, offset % m) = offset
  BY <1>4, <1>5 DEF PartPlace
<1>9. first <= last
  <2>1. PICK x \in Int, y \in Int, z \in Int : x = m * (offset \div m) /\ y = m * last /\ z = offset % m
    <3>1. PICK d \in Nat : d = offset \div m
      BY <1>4
    <3>2. m * d \in Int /\ m * last \in Int /\ offset % m \in Int
      BY <1>4, <1>7
    <3> QED
      BY <3>1, <3>2
  <2>2. x + z = offset /\ z >= 0 /\ y >= end
    BY <1>4, <1>7, <2>1
  <2>3. x < y
    BY ONLY <1>6, <2>2, x \in Int, y \in Int, z \in Int, offset \in Nat, length \in Nat \ {0}
  <2>4. offset \div m < last
    BY <1>4, <1>7, <2>1, <2>3, FewerBlocks
  <2> QED
    BY <1>4, <1>5, <1>7, <2>4
<1>10. last <= Len(t.blocks)
  <2>1. Len(all) <= m * Len(t.blocks)
    <3>1. IsLaidOut(all, Int, Len(Blocks(t)), m, Blocks(t)) /\ AllButLast(Blocks(t), Len(Blocks(t)), m)
      BY <1>2, <1>3, JoinedIsLaidOut, JoinedIsLayout DEF Parts
    <3>2. Len(t.blocks) > 0
      <4>1. Len(t.blocks) = 0 => all = <<>>
        BY <1>2, <3>1 DEF IsLaidOut
      <4> QED
        BY <1>1, <1>2, <4>1
    <3>3. PICK n \in Nat \ {0} : n = Len(t.blocks)
      BY <1>2, <3>2
    <3>4. Len(all) = m * (n - 1) + Len(Blocks(t)[n])
      BY <1>2, <3>1, <3>2, <3>3 DEF IsLaidOut
    <3>5. Len(Blocks(t)[n]) <= m /\ Len(Blocks(t)[n]) \in Nat
      <4>1. PICK seqs : seqs = Blocks(t)
        OBVIOUS
      <4>2. Parts(seqs, m) /\ Len(seqs) = n
        BY <1>2, <1>3, <3>3, <4>1
      <4>3. seqs \in Seq(Seq(Int)) /\ \A k \in 1..n : Len(seqs[k]) <= m
        BY <4>2 DEF Parts
      <4>4. seqs[n] \in Seq(Int)
        BY ONLY <4>2, <4>3, n \in Nat \ {0}
      <4> QED
        BY <4>1, <4>3, <4>4
    <3>6. m * n = m * (n - 1) + m
      BY ONLY n \in Nat \ {0}, m \in Nat \ {0}
    <3>7. PICK x \in Int, z \in Nat : x = m * (n - 1) /\ z = Len(Blocks(t)[n])
      BY <3>5
    <3>8. Len(all) = x + z /\ m * n = x + m /\ z <= m
      BY <3>4, <3>5, <3>6, <3>7
    <3>9. x + z <= x + m
      BY <3>7, <3>8
    <3> QED
      BY <3>3, <3>8, <3>9
  <2>2. PICK n \in Nat : n = Len(t.blocks)
    BY <1>2
  <2>3. m * (n + 1) = m * n + m
    BY ONLY n \in Nat, m \in Nat \ {0}
  <2>4. PICK x \in Int, y \in Int : x = m * last /\ y = m * n
    BY <1>7
  <2>5. x < y + m
    <3>1. PICK len \in Nat : len = Len(all)
      BY <1>2
    <3>2. end <= len /\ len <= y /\ x < end + m
      BY <1>6, <1>7, <2>1, <2>2, <2>4, <3>1
    <3> QED
      BY ONLY <3>2, x \in Int, y \in Int, len \in Nat, end \in Nat, m \in Nat \ {0}
  <2>6. m * last < m * (n + 1)
    BY <2>3, <2>4, <2>5
  <2>7. last < n + 1
    BY <1>7, <2>6, FewerBlocks
  <2> QED
    BY <1>7, <2>2, <2>7
<1> QED
  BY <1>1, <1>2, <1>3, <1>4, <1>5, <1>6, <1>7, <1>8, <1>9, <1>10 DEF first, last

LEMMA BlocksAreRead ==
  ASSUME NEW t \in Container, Io!WellFormed(t), NEW all, all = Io!Joined(Blocks(t)),
         NEW offset \in Nat, NEW length \in Nat \ {0}, offset + length <= Len(all)
  PROVE  Io!Blocks(t, FirstBlock(t, offset), LastBlock(t, offset, length), t.blockSize, offset % t.blockSize, length)
           = Io!Fine(Io!Slice(all, offset, length))
<1> DEFINE m == t.blockSize
           first == FirstBlock(t, offset)
           last == LastBlock(t, offset, length)
           skip == offset % m
           n == last - first + 1
           start == Io!Begun(skip, length)
           Inv == {x \in (0..n) \X Reading : /\ IsReading(all, offset, length, x[2])
                                             /\ Enters(m, first + x[1], offset, x[2]) /\ x[2].at < m}
           h == [x \in (1..n) \X Reading |-> Io!NextBlock(t, first + x[1] - 1, m, x[2])]
<1>1. /\ m \in Nat \ {0} /\ Len(all) > 0 /\ all \in Seq(Int) /\ Len(t.blocks) \in Nat
      /\ first \in Nat \ {0} /\ last \in Nat /\ first <= last /\ last <= Len(t.blocks)
      /\ skip \in 0..(m - 1) /\ PartPlace(m, first, skip) = offset /\ m * last >= offset + length
  BY RangeHasBlocks
<1> HIDE DEF m, first, last, skip
<1>2. skip \in Nat /\ skip < m
  BY <1>1
<1>3. start \in Reading /\ IsReading(all, offset, length, start) /\ start.left = length /\ start.at = skip /\ start.val = <<>>
  BY <1>2 DEF Io!Begun, Reading, IsReading, StandsAt
<1>4. Enters(m, first, offset, start)
  BY <1>1, <1>2, <1>3 DEF Enters
<1> HIDE DEF start
<1>5. n \in Nat
  BY <1>1
<1>6. ASSUME NEW k \in 1..n, NEW s \in Reading, <<k - 1, s>> \in Inv
      PROVE  <<k, Io!NextBlock(t, first + k - 1, m, s)>> \in Inv
  <2>1. PICK q \in 1..Len(t.blocks) : q = first + k - 1
    <3>1. first + k - 1 \in 1..Len(t.blocks)
      BY <1>1
    <3> QED
      BY <3>1
  <2>2. first + (k - 1) = q /\ first + k = q + 1
    BY <1>1, <2>1
  <2>3. IsReading(all, offset, length, s) /\ Enters(m, q, offset, s) /\ s.at < m
    BY <1>6, <2>2
  <2>4. PICK r : r = Io!NextBlock(t, q, m, s)
    OBVIOUS
  <2>5. IsReading(all, offset, length, r) /\ Enters(m, q + 1, offset, r) /\ r.at < m
    BY <1>1, <2>3, <2>4, NextBlockIsRead DEF m
  <2>6. r \in Reading
    BY <2>5 DEF IsReading
  <2>7. <<k, r>> \in (0..n) \X Reading
    BY <1>5, <2>6
  <2> HIDE DEF n
  <2>8. <<k, r>> \in Inv
    BY <2>2, <2>5, <2>7
  <2> HIDE DEF Inv
  <2> QED
    BY <2>1, <2>4, <2>8
<1>7. <<0, start>> \in Inv
  BY <1>1, <1>2, <1>3, <1>4, <1>5, SMTT(30)
<1>8. \A x \in Inv : IsReading(all, offset, length, x[2]) /\ Enters(m, first + x[1], offset, x[2])
  OBVIOUS
<1>9. Inv \in SUBSET ((0..n) \X Reading)
  OBVIOUS
<1>10. \A k \in 1..n : \A s \in Reading : h[<<k, s>>] = Io!NextBlock(t, first + k - 1, m, s)
  OBVIOUS
<1> HIDE DEF Inv, h, n
<1>11. PICK f : IsLoop(f, n, start, h) /\ \A k \in 0..n : <<k, f[k]>> \in Inv
  <2>1. \A k \in 1..n : \A s \in Reading : <<k - 1, s>> \in Inv => <<k, h[<<k, s>>]>> \in Inv
    BY <1>6, <1>10
  <2> QED
    BY <1>5, <1>7, <1>9, <2>1, LoopExists
<1>12. BlocksLoop(t, first, m, skip, length, n, f)
  <2>1. ASSUME NEW k \in 1..n PROVE h[<<k, f[k - 1]>>] = Io!NextBlock(t, first + k - 1, m, f[k - 1])
    <3>1. k - 1 \in 0..n
      BY <1>5
    <3>2. f[k - 1] \in Reading
      BY <1>9, <1>11, <3>1
    <3> QED
      BY <1>10, <3>2
  <2>2. \A k \in 0..n : k # 0 => k \in 1..n
    BY <1>5
  <2>3. [k \in 0..n |-> IF k = 0 THEN start ELSE h[<<k, f[k - 1]>>]]
          = [k \in 0..n |-> IF k = 0 THEN start ELSE Io!NextBlock(t, first + k - 1, m, f[k - 1])]
    BY <2>1, <2>2
  <2> QED
    BY <1>11, <2>3 DEF IsLoop, BlocksLoop, start
<1>13. PICK g : /\ g = (CHOOSE y : BlocksLoop(t, first, m, skip, length, n, y))
                /\ BlocksLoop(t, first, m, skip, length, n, g)
  BY <1>12
<1>14. Io!Blocks(t, first, last, m, skip, length) = Io!Answer(g[n])
  BY <1>13, Zenon DEF Io!Blocks, BlocksLoop, n
<1>15. <<n, g[n]>> \in Inv
  <2>1. \A k \in 0..n : g[k] = IF k = 0 THEN start ELSE Io!NextBlock(t, first + k - 1, m, g[k - 1])
    BY <1>13 DEF BlocksLoop, start
  <2>2. <<0, g[0]>> \in Inv
    BY <1>5, <1>7, <2>1
  <2>3. ASSUME NEW k \in 1..n, <<k - 1, g[k - 1]>> \in Inv PROVE <<k, g[k]>> \in Inv
    <3>1. k \in 0..n /\ k # 0
      BY <1>5
    <3>2. g[k - 1] \in Reading
      BY <1>9, <2>3
    <3>3. g[k] = Io!NextBlock(t, first + k - 1, m, g[k - 1])
      BY <2>1, <3>1
    <3> QED
      BY <1>6, <2>3, <3>2, <3>3
  <2>4. \A k \in 0..n : <<k, g[k]>> \in Inv
    BY <1>5, <2>2, <2>3, LoopInvariant
  <2> QED
    BY <1>5, <2>4
<1>16. PICK s : s = g[n] /\ IsReading(all, offset, length, s) /\ Enters(m, first + n, offset, s)
  BY <1>8, <1>15
<1>17. ~(s.left > 0)
  <2> SUFFICES ASSUME s.left > 0 PROVE FALSE
    OBVIOUS
  <2>1. s.at \in Nat /\ s.left \in Nat \ {0} /\ Len(s.val) \in Nat /\ Len(s.val) + s.left = length
    BY <1>16 DEF IsReading, Reading
  <2>2. first + n = last + 1
    BY <1>1 DEF n
  <2>3. PartPlace(m, last + 1, s.at) = offset + Len(s.val)
    BY <1>16, <2>2 DEF Enters
  <2>4. PICK x \in Int : x = m * last
    BY <1>1
  <2>5. PartPlace(m, last + 1, s.at) = x + s.at
    <3>1. (last + 1) - 1 = last
      BY <1>1
    <3> QED
      BY <2>4, <3>1 DEF PartPlace
  <2>6. x >= offset + length
    BY <1>1, <2>4
  <2> QED
    BY <2>1, <2>3, <2>5, <2>6
<1>18. Io!Answer(s) = Io!Fine(Io!Slice(all, offset, length))
  BY <1>1, <1>16, <1>17, AllIsRead
<1> QED
  BY <1>14, <1>16, <1>18 DEF first, last, m, skip

LEMMA DivisionIsUnique ==
  ASSUME NEW x \in Nat, NEW m \in Nat \ {0}, NEW q \in Int, NEW r \in 0..(m - 1), x = m * q + r
  PROVE  x \div m = q /\ x % m = r
<1>1. PICK d \in Nat, e \in 0..(m - 1) : d = x \div m /\ e = x % m /\ m * d + e = x
  <2>1. x \div m \in Nat /\ x % m \in 0..(m - 1) /\ m * (x \div m) + (x % m) = x
    BY DividedByBlock
  <2> QED
    BY <2>1
<1>2. PICK u \in Int, v \in Int : u = m * q /\ v = m * d
  OBVIOUS
<1>3. m * (q + 1) = u + m /\ m * (d + 1) = v + m
  <2>1. m * (q + 1) = m * q + m /\ m * (d + 1) = m * d + m
    BY ONLY q \in Int, d \in Nat, m \in Nat \ {0}
  <2> QED
    BY <1>2, <2>1
<1>4. u + r = x /\ v + e = x /\ r \in Int /\ e \in Int /\ r >= 0 /\ r < m /\ e >= 0 /\ e < m
  BY <1>1, <1>2
<1>5. u < v + m /\ v < u + m
  BY ONLY <1>4, u \in Int, v \in Int, m \in Nat \ {0}
<1>6. q < d + 1
  <2>1. m * q < m * (d + 1)
    BY <1>2, <1>3, <1>5
  <2> QED
    BY <1>1, <2>1, FewerBlocks
<1>7. d < q + 1
  <2>1. m * d < m * (q + 1)
    BY <1>2, <1>3, <1>5
  <2> QED
    BY <1>1, <2>1, FewerBlocks
<1>8. d = q
  BY <1>1, <1>6, <1>7
<1>9. e = r
  BY <1>2, <1>4, <1>8
<1> QED
  BY <1>1, <1>8, <1>9

\* What follows a place in its partition lies in the same partition.
LEMMA SamePartition ==
  ASSUME NEW t \in Container, NEW at \in Nat, NEW r \in Nat, t.partSize # 0 => Io!PlaceIn(t, at) + r < t.partSize
  PROVE  Io!PartitionOf(t, at + r) = Io!PartitionOf(t, at) /\ Io!PlaceIn(t, at + r) = Io!PlaceIn(t, at) + r
<1>1. t.partSize \in Nat
  BY DEF Container
<1>2. CASE t.partSize = 0
  BY <1>2 DEF Io!PartitionOf, Io!PlaceIn
<1>3. CASE t.partSize # 0
  <2>1. PICK m \in Nat \ {0} : m = t.partSize
    BY <1>1, <1>3
  <2>2. PICK q \in Nat, e \in 0..(m - 1) : q = at \div m /\ e = at % m /\ m * q + e = at
    <3>1. at \div m \in Nat /\ at % m \in 0..(m - 1) /\ m * (at \div m) + (at % m) = at
      BY DividedByBlock
    <3> QED
      BY <3>1
  <2>3. \A x \in Nat : Io!PartitionOf(t, x) = (x \div m) + 1 /\ Io!PlaceIn(t, x) = x % m
    BY <2>1 DEF Io!PartitionOf, Io!PlaceIn
  <2>4. PICK x \in Nat, f \in 0..(m - 1) : x = at + r /\ f = e + r
    <3>1. e + r < m
      BY <1>3, <2>1, <2>2, <2>3
    <3>2. e + r \in 0..(m - 1) /\ at + r \in Nat
      BY <3>1
    <3> QED
      BY <3>2
  <2>5. x = m * q + f
    <3>1. PICK y \in Int : y = m * q
      OBVIOUS
    <3> QED
      BY <2>2, <2>4, <3>1
  <2>6. x \div m = q /\ x % m = f
    BY <2>5, DivisionIsUnique
  <2> QED
    BY <2>2, <2>3, <2>4, <2>6
<1> QED
  BY <1>2, <1>3

\* A cut of any place and size: as much as there is.
IsCutAt(T, s, from, n) == s \in Seq(T) /\ from \in Nat /\ n \in Nat
IsAnyCut(T, part, s, from, n) ==
  /\ part \in Seq(T) /\ Len(part) \in Nat
  /\ Len(part) = IF from + n <= Len(s) THEN n ELSE IF from <= Len(s) THEN Len(s) - from ELSE 0
  /\ \A i \in 1..Len(part) : part[i] = s[from + i]

LEMMA CutIsPart ==
  ASSUME NEW T, NEW s, NEW from, NEW n, IsCutAt(T, s, from, n)
  PROVE  IsAnyCut(T, Io!Slice(s, from, n), s, from, n)
<1>1. s \in Seq(T) /\ from \in Nat /\ n \in Nat
  BY DEF IsCutAt
<1>2. Io!Slice(s, from, n) = Pak!Slice(s, from, n)
  BY CodecIsShared
<1>3. PICK part : part = Pak!Slice(s, from, n)
  OBVIOUS
<1>4. /\ part \in Seq(T)
      /\ Len(part) = IF from + n <= Len(s) THEN n ELSE IF from <= Len(s) THEN Len(s) - from ELSE 0
      /\ \A i \in 1..Len(part) : part[i] = s[from + i]
  BY <1>1, <1>3, SliceIsPart
<1> QED
  BY <1>2, <1>3, <1>4 DEF IsAnyCut

\* An uncompressed block is where it is in the content, in one partition: what
\* is read of it at the place of the range is what it holds.
LEMMA InPlaceIsRead ==
  ASSUME NEW t \in Container, Io!WellFormed(t), Io!InPlace(t), NEW all, all = Io!Joined(Blocks(t)),
         NEW offset \in Nat, NEW length \in Nat \ {0}, offset + length <= Len(all),
         t.encrypted => offset % Align = 0 /\ length % Align = 0,
         FirstBlock(t, offset) = LastBlock(t, offset, length), t.blocks[FirstBlock(t, offset)].method = 0
  PROVE  LET raw == Io!Slice(t.partitions[Io!PartitionOf(t, offset)], Io!PlaceIn(t, offset), length)
         IN ~(Len(raw) < length) /\ Io!Decrypt(t, Io!PlaceIn(t, offset), raw) = Io!Slice(all, offset, length)
<1> DEFINE m == t.blockSize
           k == FirstBlock(t, offset)
           b == t.blocks[k]
           p == Io!PartitionOf(t, b.at)
           at == Io!PlaceIn(t, b.at)
           part == t.partitions[p]
           short == Io!Slice(part, at, b.size)
           units == Io!Slice(part, at, Io!Aligned(b.size))
           plain == Io!Decrypt(t, at, units)
           bytes == Io!Slice(plain, 0, b.size)
           val == Blocks(t)[k]
<1>1. /\ m \in Nat \ {0} /\ Len(all) > 0 /\ all \in Seq(Int) /\ Len(t.blocks) \in Nat
      /\ k \in Nat \ {0} /\ k <= Len(t.blocks)
      /\ offset % m \in 0..(m - 1) /\ PartPlace(m, k, offset % m) = offset /\ m * k >= offset + length
  <2>1. /\ m \in Nat \ {0} /\ Len(all) > 0 /\ all \in Seq(Int) /\ Len(t.blocks) \in Nat
        /\ k \in Nat \ {0} /\ k <= LastBlock(t, offset, length) /\ LastBlock(t, offset, length) <= Len(t.blocks)
        /\ offset % m \in 0..(m - 1) /\ PartPlace(m, k, offset % m) = offset
        /\ m * LastBlock(t, offset, length) >= offset + length
    BY ONLY t \in Container, Io!WellFormed(t), all = Io!Joined(Blocks(t)), offset \in Nat,
            length \in Nat \ {0}, offset + length <= Len(all), RangeHasBlocks
  <2>2. LastBlock(t, offset, length) = k
    OBVIOUS
  <2> HIDE DEF k, m
  <2> QED
    BY ONLY <2>1, <2>2
<1>2. /\ Parts(Blocks(t), m)
      /\ val = Io!BlockBytes(t, b).val /\ ~Io!BlockBytes(t, b).err /\ Io!Garbled \notin Io!Range(val)
  <2>1. k \in 1..Len(t.blocks)
    BY <1>1
  <2> QED
    BY <1>1, <2>1, BlocksAreParts
<1>3. /\ b \in StoreBlock /\ b.at \in Nat /\ b.size \in Nat /\ b.full \in Nat /\ b.method = 0
      /\ t.partitions \in Seq(Seq(Nat)) /\ t.encrypted \in BOOLEAN
  <2>1. t.blocks \in Seq(StoreBlock) /\ t.partitions \in Seq(Seq(Nat)) /\ t.encrypted \in BOOLEAN
    BY DEF Container
  <2>2. k \in 1..Len(t.blocks)
    BY <1>1
  <2>3. b \in StoreBlock
    BY <2>1, <2>2
  <2>4. b.method = 0
    OBVIOUS
  <2> HIDE DEF b
  <2> QED
    BY <2>1, <2>3, <2>4 DEF StoreBlock
<1>4. b.at = m * (k - 1)
  <2>1. k \in DOMAIN t.blocks
    BY <1>1, SMTT(30) DEF Container
  <2>2. b.at = (k - 1) * m
    BY <1>3, <2>1 DEF Io!InPlace
  <2>3. (k - 1) * m = m * (k - 1)
    BY ONLY <1>1
  <2> QED
    BY <2>2, <2>3
<1>5. p \in Nat \ {0} /\ at \in Nat
  BY <1>3, PlaceLies
<1> HIDE DEF m, k, b, p, at, val
<1>6. /\ p <= Len(t.partitions) /\ Len(short) >= b.size /\ (t.encrypted => Len(units) >= Io!Aligned(b.size))
      /\ Io!BlockBytes(t, b) = Io!Decompress(bytes, b.full, b.method)
  <2> DEFINE failed == \/ p > Len(t.partitions) \/ Len(short) < b.size
                       \/ (t.encrypted /\ Len(units) < Io!Aligned(b.size)) \/ b.method > t.methods
  <2>1. Io!BlockBytes(t, b) = IF failed THEN Io!Fail ELSE Io!Decompress(bytes, b.full, b.method)
    BY Zenon DEF Io!BlockBytes, p, at
  <2>2. Io!Fail.err = TRUE
    BY DEF Io!Fail
  <2>3. ~failed
    BY <1>2, <2>1, <2>2
  <2>4. Len(t.partitions) \in Nat
    BY <1>3
  <2>5. ~(p > Len(t.partitions)) /\ ~(Len(short) < b.size) /\ (t.encrypted => ~(Len(units) < Io!Aligned(b.size)))
        /\ Io!BlockBytes(t, b) = Io!Decompress(bytes, b.full, b.method)
    BY <2>1, <2>3
  <2> HIDE DEF failed, units, short, bytes
  <2>6. p <= Len(t.partitions)
    BY <1>5, <2>4, <2>5
  <2>7. p \in 1..Len(t.partitions) /\ part \in Seq(Nat)
    BY <1>3, <1>5, <2>4, <2>6
  <2> HIDE DEF part
  <2>8. Len(short) \in Nat /\ Len(units) \in Nat /\ Io!Aligned(b.size) \in Nat
    <3>1. PICK n \in Nat : n = Io!Aligned(b.size)
      BY <1>3, UnitsAreWhole, CodecIsShared
    <3>2. PICK z \in Nat : z = b.size
      BY <1>3
    <3>3. IsAnyCut(Nat, units, part, at, n)
      <4>1. IsCutAt(Nat, part, at, n)
        BY <1>5, <2>7, <3>1 DEF IsCutAt
      <4>2. IsAnyCut(Nat, Io!Slice(part, at, n), part, at, n)
        BY ONLY <4>1, CutIsPart
      <4> QED
        BY <3>1, <4>2 DEF units
    <3>4. IsAnyCut(Nat, short, part, at, z)
      <4>1. IsCutAt(Nat, part, at, z)
        BY <1>5, <2>7, <3>2 DEF IsCutAt
      <4>2. IsAnyCut(Nat, Io!Slice(part, at, z), part, at, z)
        BY ONLY <4>1, CutIsPart
      <4> QED
        BY <3>2, <4>2 DEF short
    <3> QED
      BY <3>1, <3>3, <3>4 DEF IsAnyCut
  <2> QED
    BY <1>3, <2>5, <2>6, <2>8
<1>7. part \in Seq(Nat) /\ part \in Seq(Int) /\ Len(part) \in Nat /\ p \in 1..Len(t.partitions)
  <2>1. p \in 1..Len(t.partitions)
    BY <1>3, <1>5, <1>6
  <2>2. part \in Seq(Nat)
    BY <1>3, <2>1
  <2> HIDE DEF part
  <2> QED
    BY <2>1, <2>2
<1> HIDE DEF part
<1>8. PICK r \in 0..(m - 1) : r = offset % m
  BY <1>1
<1>9. m * (k - 1) + r = offset /\ r \in Nat
  BY <1>1, <1>8 DEF PartPlace
<1>10. r + length <= m
  <2>1. PICK x \in Int, y \in Int : x = m * (k - 1) /\ y = m * k
    BY <1>1
  <2>2. m * k = m * (k - 1) + m
    BY ONLY <1>1
  <2>3. y = x + m /\ x + r = offset /\ y >= offset + length
    BY <1>1, <1>9, <2>1, <2>2
  <2> QED
    BY ONLY <1>1, <1>9, <2>3, x \in Int, y \in Int, offset \in Nat, length \in Nat \ {0}
<1>11. val \in Seq(Int) /\ r + length <= Len(val) /\ \A j \in 1..length : val[r + j] = all[offset + j]
  <2>1. GoesOn(Blocks(t), m, all, k, r, length, offset, length)
    BY <1>1, <1>2, <1>8, <1>9, <1>10 DEF GoesOn
  <2>2. IsThere(Blocks(t), all, k, r, offset, length)
    BY ONLY <2>1, PartIsThere
  <2> QED
    BY <2>2 DEF IsThere, val
<1>12. /\ Len(val) <= b.size
       /\ \A i \in 1..Len(val) : val[i] = part[at + i]
  <2>1. PICK n \in Nat : n = Io!Aligned(b.size)
    BY <1>3, UnitsAreWhole, CodecIsShared
  <2>2. units \in Seq(Nat) /\ \A i \in 1..Len(units) : units[i] = part[at + i]
    <3>1. IsCutAt(Nat, part, at, n)
      BY <1>5, <1>7, <2>1 DEF IsCutAt
    <3>2. IsAnyCut(Nat, Io!Slice(part, at, n), part, at, n)
      BY ONLY <3>1, CutIsPart
    <3>3. IsAnyCut(Nat, units, part, at, n)
      BY <2>1, <3>2 DEF units
    <3> HIDE DEF units
    <3> QED
      BY <3>3 DEF IsAnyCut
  <2> HIDE DEF units
  <2>3. /\ plain \in Seq(Int) /\ Len(plain) = Len(units)
        /\ \A i \in 1..Len(units) : plain[i] \in {units[i], Io!Garbled}
    <3>1. units \in Seq(Int)
      BY <2>2
    <3>2. CASE t.encrypted
      <4>1. plain = Io!DecryptAesEcb(at, units)
        BY <3>2 DEF Io!Decrypt
      <4>2. Pak!DecryptAesEcb(at, units) \in Seq(Int) /\ Len(Pak!DecryptAesEcb(at, units)) = Len(units)
        BY <3>1, DecryptedIsSequence
      <4>3. Io!DecryptAesEcb(at, units) = Pak!DecryptAesEcb(at, units)
        BY CodecIsShared
      <4>4. \A i \in 1..Len(units) : Io!DecryptAesEcb(at, units)[i] \in {units[i], Io!Garbled}
        BY <2>2, ReadOrGarbled
      <4> QED
        BY <4>1, <4>2, <4>3, <4>4
    <3>3. CASE ~t.encrypted
      <4>1. plain = units
        BY <3>3 DEF Io!Decrypt
      <4> QED
        BY <3>1, <4>1
    <3> QED
      BY <3>2, <3>3
  <2> HIDE DEF plain
  <2>4. PICK z \in Nat, zero \in Nat, full \in Nat : z = b.size /\ zero = 0 /\ full = b.full
    BY <1>3
  <2>5. /\ bytes \in Seq(Int) /\ Len(bytes) <= z /\ Len(bytes) <= Len(plain)
        /\ \A i \in 1..Len(bytes) : bytes[i] = plain[i]
    <3>1. IsCutAt(Int, plain, zero, z)
      BY <2>3, <2>4 DEF IsCutAt
    <3>0. IsAnyCut(Int, bytes, plain, zero, z)
      <4>1. IsAnyCut(Int, Io!Slice(plain, zero, z), plain, zero, z)
        BY ONLY <3>1, CutIsPart
      <4> QED
        BY <2>4, <4>1 DEF bytes
    <3> HIDE DEF bytes
    <3>2. /\ bytes \in Seq(Int)
          /\ Len(bytes) = IF zero + z <= Len(plain) THEN z ELSE IF zero <= Len(plain) THEN Len(plain) - zero ELSE 0
          /\ \A i \in 1..Len(bytes) : bytes[i] = plain[zero + i]
      BY <3>0 DEF IsAnyCut
    <3>3. Len(plain) \in Nat /\ Len(bytes) \in Nat /\ \A i \in 1..Len(bytes) : zero + i = i
      BY <2>3, <2>4, <3>2
    <3> QED
      BY <2>4, <3>2, <3>3
  <2> HIDE DEF bytes
  <2>6. val = Io!Slice(bytes, 0, b.full)
    <3>1. Io!Decompress(bytes, b.full, b.method) \in {Io!Fail, Io!Fine(Io!Slice(bytes, 0, b.full))}
      BY <1>3 DEF Io!Decompress
    <3>2. Io!BlockBytes(t, b) \in {Io!Fail, Io!Fine(Io!Slice(bytes, 0, b.full))} /\ ~Io!BlockBytes(t, b).err
      BY <1>2, <1>6, <3>1
    <3>3. PICK cut : cut = Io!Slice(bytes, 0, b.full)
      OBVIOUS
    <3>4. Io!Fail.err = TRUE /\ Io!Fine(cut).val = cut
      BY DEF Io!Fail, Io!Fine
    <3> QED
      BY <1>2, <3>2, <3>3, <3>4
  <2>7. /\ Len(val) <= Len(bytes) /\ \A i \in 1..Len(val) : val[i] = bytes[i]
    <3>1. IsAnyCut(Int, val, bytes, zero, full)
      <4>1. IsCutAt(Int, bytes, zero, full)
        BY <2>4, <2>5 DEF IsCutAt
      <4>2. IsAnyCut(Int, Io!Slice(bytes, zero, full), bytes, zero, full)
        BY ONLY <4>1, CutIsPart
      <4> QED
        BY <2>4, <2>6, <4>2
    <3>2. /\ Len(val) = IF zero + full <= Len(bytes) THEN full ELSE IF zero <= Len(bytes) THEN Len(bytes) - zero ELSE 0
          /\ \A i \in 1..Len(val) : val[i] = bytes[zero + i]
      BY <3>1 DEF IsAnyCut
    <3>3. Len(val) \in Nat /\ Len(bytes) \in Nat /\ \A i \in 1..Len(val) : zero + i = i
      BY <1>11, <2>4, <2>5, SMTT(30)
    <3> QED
      BY <2>4, <3>2, <3>3
  <2>8. ASSUME NEW i \in 1..Len(val) PROVE val[i] = part[at + i]
    <3>1. Len(val) \in Nat /\ Len(bytes) \in Nat /\ Len(plain) \in Nat
      BY <1>11, <2>3, <2>5, SMTT(30)
    <3>2. i \in 1..Len(bytes) /\ i \in 1..Len(plain) /\ i \in 1..Len(units)
      <4>1. Len(val) <= Len(bytes) /\ Len(bytes) <= Len(plain) /\ Len(plain) = Len(units)
        BY <2>3, <2>5, <2>7
      <4>2. i \in Nat /\ 1 <= i /\ i <= Len(val)
        BY <3>1
      <4> QED
        BY <3>1, <4>1, <4>2, SMTT(30)
    <3>3. val[i] \in {part[at + i], Io!Garbled}
      BY <2>2, <2>3, <2>5, <2>7, <3>2
    <3>4. val[i] \in Io!Range(val)
      BY <1>11 DEF Io!Range
    <3> QED
      BY <1>2, <3>3, <3>4
  <2>9. Len(val) <= b.size
    <3>1. Len(val) \in Nat /\ Len(bytes) \in Nat
      BY <1>11, <2>5
    <3> QED
      BY <2>4, <2>5, <2>7, <3>1
  <2> QED
    BY <2>8, <2>9
<1> HIDE DEF units, plain, bytes
<1>13. at + b.size <= Len(part)
  <2>1. PICK z \in Nat : z = b.size
    BY <1>3
  <2>2. IsAnyCut(Nat, short, part, at, z)
    <3>1. IsCutAt(Nat, part, at, z)
      BY <1>5, <1>7, <2>1 DEF IsCutAt
    <3>2. IsAnyCut(Nat, Io!Slice(part, at, z), part, at, z)
      BY ONLY <3>1, CutIsPart
    <3> QED
      BY <2>1, <3>2 DEF short
  <2> HIDE DEF short
  <2>3. Len(short) = (IF at + z <= Len(part) THEN z ELSE IF at <= Len(part) THEN Len(part) - at ELSE 0) /\ Len(short) >= z
    BY <1>6, <2>1, <2>2 DEF IsAnyCut
  <2>4. z > 0
    <3>1. Len(val) \in Nat
      BY <1>11
    <3> QED
      BY <1>9, <1>11, <1>12, <2>1, <3>1
  <2> QED
    BY <1>5, <1>7, <2>1, <2>3, <2>4
<1> HIDE DEF short
<1>14. at + r + length <= Len(part)
  <2>1. Len(val) \in Nat
    BY <1>11
  <2> QED
    BY <1>3, <1>5, <1>7, <1>9, <1>11, <1>12, <1>13, <2>1, SMTT(30)
<1>15. Io!PartitionOf(t, offset) = p /\ Io!PlaceIn(t, offset) = at + r
  <2>1. offset = b.at + r
    BY <1>4, <1>9
  <2>2. t.partSize # 0 => at + r < t.partSize
    <3> SUFFICES ASSUME t.partSize # 0 PROVE at + r < t.partSize
      OBVIOUS
    <3>1. t.partSize \in Nat /\ Len(part) <= t.partSize
      BY <1>7, PartitionsAreParts DEF Parts, part
    <3> QED
      BY <1>5, <1>7, <1>9, <1>14, <3>1
  <2> QED
    <3>1. PICK here \in Nat : here = b.at
      BY <1>3
    <3>2. p = Io!PartitionOf(t, here) /\ at = Io!PlaceIn(t, here) /\ offset = here + r
      BY <2>1, <3>1 DEF p, at
    <3>3. t.partSize # 0 => Io!PlaceIn(t, here) + r < t.partSize
      BY <2>2, <3>2
    <3>4. Io!PartitionOf(t, here + r) = Io!PartitionOf(t, here) /\ Io!PlaceIn(t, here + r) = Io!PlaceIn(t, here) + r
      BY ONLY <1>9, <3>1, <3>3, SamePartition, t \in Container, ZenonT(30)
    <3> QED
      BY <3>2, <3>4
<1>16. PICK from \in Nat : from = at + r
  BY <1>5, <1>9
<1>17. PICK raw : raw = Io!Slice(part, from, length)
  OBVIOUS
<1>18. IsCut(Nat, raw, part, from, length)
  <2>1. Fits(Nat, part, from, length)
    BY <1>7, <1>14, <1>16 DEF Fits
  <2> QED
    BY <1>17, <2>1, PartIsCut
<1>19. raw \in Seq(Nat) /\ Len(raw) = length /\ \A j \in 1..length : raw[j] = part[from + j]
  BY <1>18 DEF IsCut
<1>20. Io!Decrypt(t, from, raw) = raw
  <2>1. t.encrypted => from % Align = 0
    BY <1>15, <1>16, PlaceLies, ZenonT(30)
  <2>2. t.encrypted => Io!DecryptAesEcb(from, raw) = raw
    BY <1>19, <2>1, WholeUnitsAreRead
  <2> QED
    BY <2>2 DEF Io!Decrypt
<1>21. StandsAt(raw, all, offset)
  <2>1. ASSUME NEW j \in 1..length PROVE raw[j] = all[offset + j]
    <3>1. r + j \in 1..Len(val) /\ at + (r + j) = from + j
      <4>1. Len(val) \in Nat
        BY <1>11
      <4> QED
        BY <1>5, <1>9, <1>11, <1>16, <4>1
    <3>2. val[r + j] = part[at + (r + j)]
      BY <1>12, <3>1
    <3> QED
      BY <1>11, <1>19, <3>1, <3>2
  <2>2. raw \in Seq(Int)
    BY <1>19
  <2> QED
    BY <1>19, <2>1, <2>2 DEF StandsAt
<1>22. Io!Slice(all, offset, length) = raw
  BY <1>1, <1>19, <1>21, ReadIsSlice
<1>23. Io!Slice(t.partitions[Io!PartitionOf(t, offset)], Io!PlaceIn(t, offset), length) = raw
  BY <1>15, <1>16, <1>17 DEF part
<1>24. ~(Len(raw) < length)
  BY <1>19
<1> QED
  BY <1>15, <1>16, <1>20, <1>22, <1>23, <1>24

\* The range of a chunk, whatever its place: the content's, or refused.
LEMMA DataIsRead ==
  ASSUME NEW t \in Container, Io!WellFormed(t), Io!InPlace(t), NEW all, all = Io!Content(t),
         NEW offset \in Nat, NEW length \in Nat \ {0}, offset + length <= Len(all),
         t.encrypted => offset % Align = 0 /\ length % Align = 0
  PROVE  Io!ReadData(t, offset, length)
           = IF Io!PartitionOf(t, offset) > Len(t.partitions) THEN Io!Fail ELSE Io!Fine(Io!Slice(all, offset, length))
<1> DEFINE p == Io!PartitionOf(t, offset)
           at == Io!PlaceIn(t, offset)
           first == FirstBlock(t, offset)
           last == LastBlock(t, offset, length)
           raw == Io!Slice(t.partitions[p], at, length)
           right == Io!Fine(Io!Slice(all, offset, length))
           plain == Io!Plain(t, p, at, length)
           whole == IF Len(raw) < length THEN Io!Fail ELSE Io!Fine(Io!Decrypt(t, at, raw))
<1>1. p \in Nat \ {0} /\ Len(t.partitions) \in Nat /\ (t.partitions = <<>> => p > Len(t.partitions))
  <2>1. p \in Nat \ {0}
    BY PlaceLies
  <2>2. t.partitions \in Seq(Seq(Nat))
    BY DEF Container
  <2> QED
    BY <2>1, <2>2
<1>2. CASE p > Len(t.partitions)
  <2>1. Io!ReadData(t, offset, length) = Io!Fail
    BY <1>2 DEF Io!ReadData
  <2> QED
    BY <1>2, <2>1
<1>3. CASE ~(p > Len(t.partitions)) /\ t.blocks = <<>>
  <2>1. Io!ReadData(t, offset, length) = plain
    BY <1>1, <1>3 DEF Io!ReadData
  <2>2. all = Io!Joined(t.partitions)
    BY <1>3 DEF Io!Content
  <2>3. plain = right
    BY <2>2, PlainIsRead
  <2> QED
    BY <1>3, <2>1, <2>3
<1>4. CASE ~(p > Len(t.partitions)) /\ t.blocks # <<>>
  <2>1. all = Io!Joined(Blocks(t))
    BY <1>4 DEF Io!Content, Blocks
  <2>2. t.blockSize \in Nat \ {0} /\ first <= last /\ last <= Len(t.blocks) /\ first \in Nat /\ last \in Nat /\ Len(t.blocks) \in Nat
    BY <2>1, RangeHasBlocks
  <2> DEFINE parts == Io!Blocks(t, first, last, t.blockSize, offset % t.blockSize, length)
  <2>3. Io!ReadData(t, offset, length)
          = IF first = last /\ first <= Len(t.blocks) /\ t.blocks[first].method = 0 THEN whole ELSE parts
    <3>1. (IF t.blockSize = 0 THEN DefaultBlock ELSE t.blockSize) = t.blockSize
      BY <2>2
    <3> HIDE DEF raw
    <3> QED
      BY <1>1, <1>4, <3>1 DEF Io!ReadData, FirstBlock, LastBlock, raw
  <2>4. CASE first = last /\ first <= Len(t.blocks) /\ t.blocks[first].method = 0
    <3>1. ~(Len(raw) < length) /\ Io!Decrypt(t, at, raw) = Io!Slice(all, offset, length)
      BY <2>1, <2>4, InPlaceIsRead
    <3> HIDE DEF raw
    <3>2. whole = right
      BY <3>1
    <3> HIDE DEF whole
    <3> QED
      BY <1>4, <2>3, <2>4, <3>2
  <2>5. CASE ~(first = last /\ first <= Len(t.blocks) /\ t.blocks[first].method = 0)
    <3>1. parts = right
      BY <2>1, BlocksAreRead
    <3> HIDE DEF parts, whole
    <3> QED
      BY <1>4, <2>3, <2>5, <3>1
  <2> QED
    BY <2>4, <2>5
<1> QED
  BY <1>2, <1>3, <1>4

LEMMA RangeIsRead ==
  ASSUME NEW t \in Container
  PROVE  Io!ChunksAreTheContent(t)
<1> SUFFICES ASSUME NEW i \in DOMAIN t.chunks, NEW offset, NEW length,
                    offset = t.chunks[i][1], length = t.chunks[i][2],
                    Io!ResolveChunk(t, t.ids[i]) = i, Io!WellFormed(t), Io!InPlace(t), length > 0,
                    t.encrypted => offset % Align = 0 /\ length % Align = 0, offset + length <= Len(Io!Content(t))
             PROVE  Io!ReadChunk(t, t.ids[i])
                      = IF Io!PartitionOf(t, offset) > Len(t.partitions) THEN Io!Fail
                        ELSE Io!Fine(Io!Slice(Io!Content(t), offset, length))
  BY DEF Io!ChunksAreTheContent
<1>1. t.chunks[i] \in Nat \X Nat /\ i # 0
  <2>1. t.chunks \in Seq(Nat \X Nat)
    BY DEF Container
  <2> QED
    BY <2>1
<1>2. offset \in Nat /\ length \in Nat \ {0}
  BY <1>1
<1>3. PICK all : all = Io!Content(t)
  OBVIOUS
<1>4. Io!ReadChunk(t, t.ids[i]) = Io!ReadData(t, offset, length)
  BY <1>1, Zenon DEF Io!ReadChunk
<1>5. Io!ReadData(t, offset, length)
        = IF Io!PartitionOf(t, offset) > Len(t.partitions) THEN Io!Fail ELSE Io!Fine(Io!Slice(all, offset, length))
  BY <1>2, <1>3, DataIsRead
<1> QED
  BY <1>3, <1>4, <1>5

-----------------------------------------------------------------------------
(* What can be reached from a start in a number of steps.                   *)

Grows(g, U, n, start, succ) ==
  /\ n \in Nat /\ start \in SUBSET U /\ succ \in [U -> SUBSET U] /\ g \in [0..n -> SUBSET U]
  /\ g[0] = start /\ \A k \in 1..n : g[k] = g[k - 1] \cup UNION {succ[x] : x \in g[k - 1]}

LEMMA GrowthExists ==
  ASSUME NEW U, NEW n \in Nat, NEW start \in SUBSET U, NEW succ \in [U -> SUBSET U]
  PROVE  \E g : Grows(g, U, n, start, succ)
<1> DEFINE h == [x \in (1..n) \X (SUBSET U) |-> x[2] \cup UNION {succ[y] : y \in x[2]}]
<1>1. h \in [(1..n) \X (SUBSET U) -> SUBSET U]
  <2>1. ASSUME NEW x \in (1..n) \X (SUBSET U) PROVE x[2] \cup UNION {succ[y] : y \in x[2]} \in SUBSET U
    <3>1. x[2] \in SUBSET U
      OBVIOUS
    <3>2. \A y \in x[2] : succ[y] \in SUBSET U
      BY <3>1
    <3> QED
      BY <3>1, <3>2
  <2> QED
    BY <2>1
<1>2. \A k \in 1..n : \A s \in SUBSET U : h[<<k, s>>] = s \cup UNION {succ[y] : y \in s}
  OBVIOUS
<1> HIDE DEF h
<1>3. PICK g \in [0..n -> SUBSET U] : g[0] = start /\ \A k \in 1..n : g[k] = h[<<k, g[k - 1]>>]
  <2>1. HasRecursion(SUBSET U, start, n, h)
    BY <1>1, RecursiveFunction
  <2> QED
    BY <2>1 DEF HasRecursion
<1>4. ASSUME NEW k \in 1..n PROVE g[k] = g[k - 1] \cup UNION {succ[x] : x \in g[k - 1]}
  <2>1. g[k - 1] \in SUBSET U
    <3>1. k - 1 \in 0..n
      OBVIOUS
    <3> QED
      BY <1>3, <3>1
  <2> QED
    BY <1>2, <1>3, <2>1
<1> QED
  BY <1>3, <1>4 DEF Grows

\* It is reached in every greater number of steps, and no more than a set
\* that no step leaves.
LEMMA GrowthIsClosure ==
  ASSUME NEW U, NEW n, NEW start, NEW succ, NEW g, Grows(g, U, n, start, succ)
  PROVE  /\ \A k \in 1..n : g[k - 1] \subseteq g[k] /\ \A x \in g[k - 1] : succ[x] \subseteq g[k]
         /\ \A k \in 0..n : g[k] \subseteq g[n]
         /\ \A V \in SUBSET U : start \subseteq V /\ (\A x \in V : succ[x] \subseteq V) => g[n] \subseteq V
<1>1. /\ n \in Nat /\ start \in SUBSET U /\ succ \in [U -> SUBSET U] /\ g \in [0..n -> SUBSET U]
      /\ g[0] = start /\ \A k \in 1..n : g[k] = g[k - 1] \cup UNION {succ[x] : x \in g[k - 1]}
  BY DEF Grows
<1>2. ASSUME NEW k \in 1..n PROVE g[k - 1] \subseteq g[k] /\ \A x \in g[k - 1] : succ[x] \subseteq g[k]
  BY <1>1
<1>3. \A k \in 0..n : g[k] \subseteq g[n]
  <2> DEFINE P == {j \in Nat : j <= n => \A k \in 0..j : g[k] \subseteq g[j]}
  <2>1. 0 \in P
    <3>1. \A k \in 0..0 : k = 0
      OBVIOUS
    <3> QED
      BY <3>1
  <2>2. ASSUME NEW j \in P PROVE j + 1 \in P
    <3> SUFFICES ASSUME j + 1 <= n, NEW k \in 0..(j + 1) PROVE g[k] \subseteq g[j + 1]
      OBVIOUS
    <3>1. j + 1 \in 1..n /\ (j + 1) - 1 = j /\ j <= n
      BY <1>1
    <3>2. g[j] \subseteq g[j + 1]
      BY <1>2, <3>1
    <3>3. CASE k = j + 1
      BY <3>3
    <3>4. CASE k # j + 1
      <4>1. k \in 0..j
        BY <3>4
      <4> QED
        BY <3>1, <3>2, <4>1
    <3> QED
      BY <3>3, <3>4
  <2> HIDE DEF P
  <2>3. P = Nat
    <3>1. P \subseteq Nat
      BY DEF P
    <3> QED
      BY <2>1, <2>2, <3>1, NaturalsByInduction
  <2>4. n \in P
    BY <1>1, <2>3
  <2> QED
    BY <1>1, <2>4 DEF P
<1>4. ASSUME NEW V \in SUBSET U, start \subseteq V, \A x \in V : succ[x] \subseteq V PROVE g[n] \subseteq V
  <2> DEFINE Inv == {x \in (0..n) \X (SUBSET U) : x[2] \subseteq V}
  <2>1. <<0, g[0]>> \in Inv
    BY <1>1, <1>4
  <2>2. ASSUME NEW k \in 1..n, <<k - 1, g[k - 1]>> \in Inv PROVE <<k, g[k]>> \in Inv
    <3>1. g[k - 1] \subseteq V
      BY <2>2
    <3>2. g[k] \subseteq V
      BY <1>1, <1>4, <3>1
    <3>3. g[k] \in SUBSET U /\ k \in 0..n
      BY <1>1
    <3> QED
      BY <3>2, <3>3
  <2>3. \A x \in Inv : x[2] \subseteq V
    OBVIOUS
  <2> HIDE DEF Inv
  <2>4. \A k \in 0..n : <<k, g[k]>> \in Inv
    BY <1>1, <2>1, <2>2, LoopInvariant
  <2>5. <<n, g[n]>> \in Inv
    BY <1>1, <2>4
  <2> QED
    BY <2>3, <2>5
<1> QED
  BY <1>2, <1>3, <1>4

-----------------------------------------------------------------------------
(* The directory index.                                                     *)

DirEntry == [name : Nat, child : Nat, sibling : Nat, file : Nat]
FileEntry == [name : Nat, next : Nat, data : Nat]
DirIndex == [mount : Seq(Nat), names : Nat, chunks : Nat, dirs : Seq(DirEntry), files : Seq(FileEntry)]

LEMMA EntriesOf ==
  ASSUME NEW d \in DirIndex
  PROVE  /\ d.mount \in Seq(Nat) /\ d.names \in Nat /\ d.chunks \in Nat /\ Len(d.dirs) \in Nat /\ Len(d.files) \in Nat
         /\ \A n \in Nat : Io!NameAt(d, n) \in Seq(Nat)
         /\ \A n \in Nat : Io!IsEntry(n, d.dirs) <=> n # Invalid /\ n \in 0..(Len(d.dirs) - 1)
         /\ \A n \in Nat : Io!IsEntry(n, d.files) <=> n # Invalid /\ n \in 0..(Len(d.files) - 1)
         /\ \A n \in 0..(Len(d.dirs) - 1) : d.dirs[n + 1] \in DirEntry
         /\ \A n \in 0..(Len(d.files) - 1) : d.files[n + 1] \in FileEntry
<1>1. /\ d.mount \in Seq(Nat) /\ d.names \in Nat /\ d.chunks \in Nat
      /\ d.dirs \in Seq(DirEntry) /\ d.files \in Seq(FileEntry)
  BY DEF DirIndex
<1>2. Len(d.dirs) \in Nat /\ Len(d.files) \in Nat
  BY <1>1
<1>3. \A n \in Nat : Io!NameAt(d, n) \in Seq(Nat)
  BY DEF Io!NameAt
<1>4. ASSUME NEW n \in 0..(Len(d.dirs) - 1) PROVE d.dirs[n + 1] \in DirEntry
  <2>1. n + 1 \in 1..Len(d.dirs)
    BY <1>2
  <2> QED
    BY <1>1, <2>1
<1>5. ASSUME NEW n \in 0..(Len(d.files) - 1) PROVE d.files[n + 1] \in FileEntry
  <2>1. n + 1 \in 1..Len(d.files)
    BY <1>2
  <2> QED
    BY <1>1, <2>1
<1>6. \A n \in Nat : Io!IsEntry(n, d.dirs) <=> n # Invalid /\ n \in 0..(Len(d.dirs) - 1)
  BY <1>2 DEF Io!IsEntry
<1>7. \A n \in Nat : Io!IsEntry(n, d.files) <=> n # Invalid /\ n \in 0..(Len(d.files) - 1)
  BY <1>2 DEF Io!IsEntry
<1> QED
  BY <1>1, <1>2, <1>3, <1>4, <1>5, <1>6, <1>7

LEMMA SameLoop ==
  ASSUME NEW n \in Nat, NEW g, NEW r, r[0] = g[0], \A k \in 1..n : r[k - 1] = g[k - 1] => r[k] = g[k]
  PROVE  r[n] = g[n]
<1> DEFINE P == {k \in Nat : k <= n => r[k] = g[k]}
<1>1. 0 \in P
  OBVIOUS
<1>2. ASSUME NEW k \in P PROVE k + 1 \in P
  <2>1. (k + 1) - 1 = k /\ (k + 1 <= n => k + 1 \in 1..n /\ k <= n)
    OBVIOUS
  <2>2. k + 1 <= n => r[k + 1] = g[k + 1]
    BY <2>1
  <2> QED
    BY <2>2
<1> HIDE DEF P
<1>3. P = Nat
  <2>1. P \subseteq Nat
    BY DEF P
  <2> QED
    BY <1>1, <1>2, <2>1, NaturalsByInduction
<1> QED
  BY <1>3 DEF P

\* The files of a chain, and the directories with the paths they are under.
FileNumbers(d) == {f \in Nat : Io!IsEntry(f, d.files)}
FirstFile(d, f) == {h \in {f} : Io!IsEntry(h, d.files)}
NextFiles(d) == [h \in FileNumbers(d) |-> {m \in {d.files[h + 1].next} : Io!IsEntry(m, d.files)}]
DirPlaces(d) == {x \in Nat \X Seq(Nat) : Io!IsEntry(x[1], d.dirs)}
FirstPlace(d) == {x \in {<<0, d.mount>>} : Io!IsEntry(x[1], d.dirs)}
NextPlaces(d) == [x \in DirPlaces(d) |-> Io!Follows(d, x)]

ChainLoop(d, f, r) ==
  r = [k \in 0..Len(d.files) |->
         {g \in (IF k = 0 THEN {f} ELSE r[k - 1] \cup {d.files[h + 1].next : h \in r[k - 1]}) : Io!IsEntry(g, d.files)}]
PlacesLoop(d, r) ==
  r = [k \in 0..Len(d.dirs) |->
         IF k = 0 THEN {x \in {<<0, d.mount>>} : Io!IsEntry(x[1], d.dirs)}
         ELSE r[k - 1] \cup UNION {Io!Follows(d, x) : x \in r[k - 1]}]

LEMMA ChainGrows ==
  ASSUME NEW d \in DirIndex, NEW f \in Nat
  PROVE  \E g : Grows(g, FileNumbers(d), Len(d.files), FirstFile(d, f), NextFiles(d)) /\ Io!Chain(d, f) = g[Len(d.files)]
<1> DEFINE U == FileNumbers(d)
           n == Len(d.files)
           succ == NextFiles(d)
           Entries(S) == {m \in S : Io!IsEntry(m, d.files)}
<1>1. n \in Nat
  BY EntriesOf
<1>2. FirstFile(d, f) \in SUBSET U
  BY DEF FirstFile, FileNumbers
<1>3. succ \in [U -> SUBSET U]
  <2>1. ASSUME NEW h \in U PROVE {m \in {d.files[h + 1].next} : Io!IsEntry(m, d.files)} \in SUBSET U
    <3>1. h \in 0..(n - 1)
      BY EntriesOf DEF FileNumbers
    <3>2. d.files[h + 1].next \in Nat
      BY <3>1, EntriesOf DEF FileEntry
    <3> QED
      BY <3>2 DEF FileNumbers
  <2> QED
    BY <2>1 DEF NextFiles
<1>4. PICK g : Grows(g, U, n, FirstFile(d, f), succ)
  BY <1>1, <1>2, <1>3, GrowthExists
<1>5. /\ g \in [0..n -> SUBSET U] /\ g[0] = FirstFile(d, f)
      /\ \A k \in 1..n : g[k] = g[k - 1] \cup UNION {succ[x] : x \in g[k - 1]}
  BY <1>4 DEF Grows
<1>6. ASSUME NEW S \in SUBSET U PROVE Entries(S \cup {d.files[h + 1].next : h \in S}) = S \cup UNION {succ[x] : x \in S}
  <2>1. \A h \in S : succ[h] = {m \in {d.files[h + 1].next} : Io!IsEntry(m, d.files)}
    BY DEF NextFiles
  <2>2. \A h \in S : Io!IsEntry(h, d.files)
    BY DEF FileNumbers
  <2> HIDE DEF succ
  <2> QED
    BY <2>1, <2>2
<1>7. \A k \in 1..n : k - 1 \in 0..n /\ k \in 0..n /\ k # 0 /\ g[k - 1] \in SUBSET U
  BY <1>1, <1>5
<1>8. ASSUME NEW k \in 0..n PROVE g[k] = Entries(IF k = 0 THEN {f} ELSE g[k - 1] \cup {d.files[h + 1].next : h \in g[k - 1]})
  <2>1. CASE k = 0
    BY <1>5, <2>1 DEF FirstFile
  <2>2. CASE k # 0
    <3>1. k \in 1..n
      BY <1>1, <2>2
    <3>2. g[k] = Entries(g[k - 1] \cup {d.files[h + 1].next : h \in g[k - 1]})
      BY <1>5, <1>6, <1>7, <3>1
    <3> QED
      BY <2>2, <3>2
  <2> QED
    BY <2>1, <2>2
<1>9. ChainLoop(d, f, g)
  BY <1>5, <1>8 DEF ChainLoop
<1>10. PICK r : r = (CHOOSE y : ChainLoop(d, f, y)) /\ ChainLoop(d, f, r)
  BY <1>9
<1>11. Io!Chain(d, f) = r[n]
  BY <1>10, Zenon DEF Io!Chain, ChainLoop
<1>12. \A k \in 0..n : r[k] = Entries(IF k = 0 THEN {f} ELSE r[k - 1] \cup {d.files[h + 1].next : h \in r[k - 1]})
  BY <1>10 DEF ChainLoop
<1> HIDE DEF Entries, U, succ
<1>13. r[0] = g[0]
  <2>1. 0 \in 0..n
    BY <1>1
  <2> QED
    BY <1>8, <1>12, <2>1
<1>14. ASSUME NEW k \in 1..n, r[k - 1] = g[k - 1] PROVE r[k] = g[k]
  <2>1. k \in 0..n /\ k # 0
    BY <1>7
  <2> QED
    BY <1>8, <1>12, <1>14, <2>1
<1>15. r[n] = g[n]
  BY <1>1, <1>13, <1>14, SameLoop
<1> QED
  BY <1>4, <1>11, <1>15 DEF U, succ

LEMMA PlacesGrow ==
  ASSUME NEW d \in DirIndex
  PROVE  \E g : Grows(g, DirPlaces(d), Len(d.dirs), FirstPlace(d), NextPlaces(d)) /\ Io!Places(d) = g[Len(d.dirs)]
<1> DEFINE U == DirPlaces(d)
           n == Len(d.dirs)
           succ == NextPlaces(d)
<1>1. n \in Nat
  BY EntriesOf
<1>2. FirstPlace(d) \in SUBSET U
  <2>1. d.mount \in Seq(Nat)
    BY EntriesOf
  <2>2. <<0, d.mount>> \in Nat \X Seq(Nat)
    BY <2>1
  <2> QED
    BY ONLY <2>2 DEF FirstPlace, DirPlaces
<1>3. succ \in [U -> SUBSET U]
  <2>1. ASSUME NEW x \in U PROVE Io!Follows(d, x) \in SUBSET U
    <3>1. x[1] \in 0..(n - 1) /\ x[1] \in Nat /\ x[2] \in Seq(Nat)
      BY EntriesOf DEF DirPlaces
    <3>2. d.dirs[x[1] + 1] \in DirEntry
      BY <3>1, EntriesOf
    <3>3. PICK e \in DirEntry : e = d.dirs[x[1] + 1]
      BY <3>2
    <3>4. Io!NameAt(d, e.name) \in Seq(Nat)
      BY EntriesOf DEF DirEntry
    <3>5. x[2] \o Io!NameAt(d, e.name) \in Seq(Nat)
      BY <3>1, <3>4
    <3>6. <<e.sibling, x[2]>> \in Nat \X Seq(Nat) /\ <<e.child, x[2] \o Io!NameAt(d, e.name)>> \in Nat \X Seq(Nat)
      BY <3>1, <3>5 DEF DirEntry
    <3>7. Io!Follows(d, x) = {y \in {<<e.sibling, x[2]>>, <<e.child, x[2] \o Io!NameAt(d, e.name)>>} : Io!IsEntry(y[1], d.dirs)}
      BY <3>3, Zenon DEF Io!Follows
    <3> QED
      BY <3>6, <3>7 DEF DirPlaces
  <2> QED
    BY <2>1 DEF NextPlaces
<1>4. PICK g : Grows(g, U, n, FirstPlace(d), succ)
  BY <1>1, <1>2, <1>3, GrowthExists
<1>5. /\ g \in [0..n -> SUBSET U] /\ g[0] = FirstPlace(d)
      /\ \A k \in 1..n : g[k] = g[k - 1] \cup UNION {succ[x] : x \in g[k - 1]}
  BY <1>4 DEF Grows
<1>6. ASSUME NEW S \in SUBSET U PROVE UNION {Io!Follows(d, x) : x \in S} = UNION {succ[x] : x \in S}
  <2>1. \A h \in S : succ[h] = Io!Follows(d, h)
    BY DEF NextPlaces
  <2> HIDE DEF succ
  <2> QED
    BY <2>1
<1>7. \A k \in 1..n : k - 1 \in 0..n /\ k \in 0..n /\ k # 0 /\ g[k - 1] \in SUBSET U
  BY <1>1, <1>5
<1>8. ASSUME NEW k \in 0..n PROVE g[k] = IF k = 0 THEN FirstPlace(d) ELSE g[k - 1] \cup UNION {Io!Follows(d, x) : x \in g[k - 1]}
  <2>1. CASE k = 0
    BY <1>5, <2>1
  <2>2. CASE k # 0
    <3>1. k \in 1..n
      BY <1>1, <2>2
    <3>2. g[k] = g[k - 1] \cup UNION {Io!Follows(d, x) : x \in g[k - 1]}
      BY <1>5, <1>6, <1>7, <3>1
    <3> QED
      BY <2>2, <3>2
  <2> QED
    BY <2>1, <2>2
<1>9. PlacesLoop(d, g)
  BY <1>5, <1>8 DEF PlacesLoop, FirstPlace
<1>10. PICK r : r = (CHOOSE y : PlacesLoop(d, y)) /\ PlacesLoop(d, r)
  BY <1>9
<1>11. Io!Places(d) = r[n]
  BY <1>10, Zenon DEF Io!Places, PlacesLoop
<1>12. \A k \in 0..n : r[k] = IF k = 0 THEN FirstPlace(d) ELSE r[k - 1] \cup UNION {Io!Follows(d, x) : x \in r[k - 1]}
  BY <1>10 DEF PlacesLoop, FirstPlace
<1> HIDE DEF U, succ
<1>13. r[0] = g[0]
  <2>1. 0 \in 0..n
    BY <1>1
  <2> QED
    BY <1>8, <1>12, <2>1
<1>14. ASSUME NEW k \in 1..n, r[k - 1] = g[k - 1] PROVE r[k] = g[k]
  <2>1. k \in 0..n /\ k # 0
    BY <1>7
  <2> QED
    BY <1>8, <1>12, <1>14, <2>1
<1>15. r[n] = g[n]
  BY <1>1, <1>13, <1>14, SameLoop
<1> QED
  BY <1>4, <1>11, <1>15 DEF U, succ

\* The walk along the files of a directory, and one round of it.
ListedFile == Seq(Nat) \X Nat
FileWalk == [err : BOOLEAN, f : Nat, files : SUBSET Nat, list : SUBSET ListedFile]
ListedFrom(d, path, S) ==
  {e \in {<<path \o Io!NameAt(d, d.files[f + 1].name), d.files[f + 1].data>> : f \in S} : e[2] < d.chunks}
FileStep(d, path, s, r) ==
  \/ (s.err \/ ~Io!IsEntry(s.f, d.files)) /\ r = s
  \/ ~s.err /\ Io!IsEntry(s.f, d.files) /\ s.f \in s.files /\ r.err
  \/ /\ ~s.err /\ Io!IsEntry(s.f, d.files) /\ s.f \notin s.files /\ ~r.err
     /\ r.f = d.files[s.f + 1].next /\ r.files = s.files \cup {s.f} /\ r.list = s.list \cup ListedFrom(d, path, {s.f})
FileStart(f, w) == [err |-> FALSE, f |-> f, files |-> w.files, list |-> w.list]
FileRounds(d, f, path, w, st) ==
  /\ st \in [0..(Len(d.files) + 1) -> FileWalk] /\ st[0] = FileStart(f, w)
  /\ \A k \in 1..(Len(d.files) + 1) : FileStep(d, path, st[k - 1], st[k])

LEMMA ListedIsListing ==
  ASSUME NEW d \in DirIndex, NEW path \in Seq(Nat), NEW S, \A f \in S : f \in Nat /\ Io!IsEntry(f, d.files)
  PROVE  ListedFrom(d, path, S) \in SUBSET ListedFile
<1>1. ASSUME NEW f \in S PROVE <<path \o Io!NameAt(d, d.files[f + 1].name), d.files[f + 1].data>> \in ListedFile
  <2>1. d.files[f + 1] \in FileEntry
    BY EntriesOf
  <2>2. d.files[f + 1].name \in Nat /\ d.files[f + 1].data \in Nat
    BY <2>1 DEF FileEntry
  <2>3. Io!NameAt(d, d.files[f + 1].name) \in Seq(Nat)
    BY <2>2, EntriesOf
  <2>4. path \o Io!NameAt(d, d.files[f + 1].name) \in Seq(Nat)
    BY <2>3
  <2> QED
    BY <2>2, <2>4 DEF ListedFile
<1> QED
  BY <1>1 DEF ListedFrom

LEMMA NextFileSteps ==
  ASSUME NEW d \in DirIndex, NEW path \in Seq(Nat), NEW s \in FileWalk
  PROVE  FileStep(d, path, s, Io!NextFile(d, path, s)) /\ Io!NextFile(d, path, s) \in FileWalk
<1> DEFINE e == d.files[s.f + 1]
           r == Io!NextFile(d, path, s)
           item == <<path \o Io!NameAt(d, e.name), e.data>>
<1>1. s.err \in BOOLEAN /\ s.f \in Nat /\ s.files \in SUBSET Nat /\ s.list \in SUBSET ListedFile
  BY DEF FileWalk
<1>2. CASE s.err \/ ~Io!IsEntry(s.f, d.files)
  <2>1. r = s
    BY <1>2 DEF Io!NextFile
  <2> QED
    BY <1>2, <2>1 DEF FileStep
<1>3. CASE ~s.err /\ Io!IsEntry(s.f, d.files) /\ s.f \in s.files
  <2>1. r = [s EXCEPT !.err = TRUE]
    BY <1>3 DEF Io!NextFile
  <2>2. r.err /\ r \in FileWalk
    BY <2>1 DEF FileWalk
  <2> QED
    BY <1>3, <2>2 DEF FileStep
<1>4. CASE ~s.err /\ Io!IsEntry(s.f, d.files) /\ s.f \notin s.files
  <2>1. e \in FileEntry
    BY <1>1, <1>4, EntriesOf
  <2>2. PICK more : more = IF e.data < d.chunks THEN s.list \cup {item} ELSE s.list
    OBVIOUS
  <2>3. r = [s EXCEPT !.f = e.next, !.files = s.files \cup {s.f}, !.list = more]
    BY <1>4, <2>2 DEF Io!NextFile
  <2>4. more = s.list \cup ListedFrom(d, path, {s.f})
    <3>1. ListedFrom(d, path, {s.f}) = {x \in {item} : x[2] < d.chunks}
      BY DEF ListedFrom
    <3>2. item[2] = e.data
      OBVIOUS
    <3> HIDE DEF item
    <3> QED
      BY <2>2, <3>1, <3>2
  <2>5. more \in SUBSET ListedFile
    BY <1>1, <1>4, <2>4, ListedIsListing
  <2>6. e.next \in Nat
    BY <2>1 DEF FileEntry
  <2>7. r = [err |-> s.err, f |-> e.next, files |-> s.files \cup {s.f}, list |-> more]
    BY <2>3 DEF FileWalk
  <2> HIDE DEF r, e
  <2>8. r \in FileWalk
    BY <1>1, <2>5, <2>6, <2>7 DEF FileWalk
  <2>9. ~r.err /\ r.f = e.next /\ r.files = s.files \cup {s.f} /\ r.list = more
    BY <1>4, <2>7
  <2> QED
    BY <1>4, <2>4, <2>8, <2>9 DEF FileStep, r, e
<1> QED
  BY <1>2, <1>3, <1>4

FileLoop(d, path, f, w, g) ==
  g = [k \in 0..(Len(d.files) + 1) |-> IF k = 0 THEN FileStart(f, w) ELSE Io!NextFile(d, path, g[k - 1])]

LEMMA FilesAreWalked ==
  ASSUME NEW d \in DirIndex, NEW path \in Seq(Nat), NEW f \in Nat, NEW w, w.files \in SUBSET Nat, w.list \in SUBSET ListedFile
  PROVE  \E st : FileRounds(d, f, path, w, st) /\ Io!FileChain(d, f, path, w) = st[Len(d.files) + 1]
<1> DEFINE start == FileStart(f, w)
           h == [x \in (1..(Len(d.files) + 1)) \X FileWalk |-> Io!NextFile(d, path, x[2])]
<1>1. PICK n \in Nat : n = Len(d.files) + 1
  <2>1. Len(d.files) + 1 \in Nat
    BY EntriesOf
  <2> QED
    BY <2>1
<1>2. start \in FileWalk
  BY DEF FileStart, FileWalk
<1>3. h \in [(1..n) \X FileWalk -> FileWalk]
  BY <1>1, NextFileSteps
<1>4. \A k \in 1..n : \A s \in FileWalk : h[<<k, s>>] = Io!NextFile(d, path, s)
  BY <1>1
<1> HIDE DEF h, start
<1>5. PICK g \in [0..n -> FileWalk] : g[0] = start /\ \A k \in 1..n : g[k] = h[<<k, g[k - 1]>>]
  <2>1. HasRecursion(FileWalk, start, n, h)
    BY <1>2, <1>3, RecursiveFunction
  <2> QED
    BY <2>1 DEF HasRecursion
<1>6. \A k \in 1..n : k - 1 \in 0..n /\ k \in 0..n /\ k # 0 /\ g[k - 1] \in FileWalk
  BY <1>5
<1>7. \A k \in 1..n : g[k] = Io!NextFile(d, path, g[k - 1])
  BY <1>4, <1>5, <1>6
<1>8. FileLoop(d, path, f, w, g)
  <2>1. \A k \in 0..n : g[k] = IF k = 0 THEN start ELSE Io!NextFile(d, path, g[k - 1])
    <3>1. \A k \in 0..n : k = 0 \/ k \in 1..n
      OBVIOUS
    <3> QED
      BY <1>5, <1>6, <1>7, <3>1
  <2> QED
    BY <1>1, <1>5, <2>1 DEF FileLoop, start
<1>9. PICK st : st = (CHOOSE y : FileLoop(d, path, f, w, y)) /\ FileLoop(d, path, f, w, st)
  BY <1>8
<1>10. Io!FileChain(d, f, path, w) = st[n]
  BY <1>1, <1>9, Zenon DEF Io!FileChain, FileLoop, FileStart
<1>11. \A k \in 0..n : st[k] = IF k = 0 THEN start ELSE Io!NextFile(d, path, st[k - 1])
  BY <1>1, <1>9 DEF FileLoop, start
<1>12. st[0] = start /\ \A k \in 1..n : st[k] = Io!NextFile(d, path, st[k - 1])
  <2>1. 0 \in 0..n
    OBVIOUS
  <2> QED
    BY <1>6, <1>11, <2>1
<1> DEFINE Inv == {x \in (0..n) \X FileWalk : TRUE}
<1>13. <<0, st[0]>> \in Inv
  BY <1>2, <1>12
<1>14. ASSUME NEW k \in 1..n, <<k - 1, st[k - 1]>> \in Inv PROVE <<k, st[k]>> \in Inv
  <2>1. st[k - 1] \in FileWalk
    BY <1>14
  <2>2. st[k] \in FileWalk
    BY <1>12, <2>1, NextFileSteps
  <2> QED
    BY <1>6, <2>2
<1>15. \A x \in Inv : x[2] \in FileWalk
  OBVIOUS
<1> HIDE DEF Inv
<1>16. \A k \in 0..n : st[k] \in FileWalk
  <2>1. \A k \in 0..n : <<k, st[k]>> \in Inv
    BY <1>13, <1>14, LoopInvariant
  <2> QED
    BY <1>15, <2>1
<1>17. \A k \in 1..n : FileStep(d, path, st[k - 1], st[k])
  BY <1>6, <1>12, <1>16, NextFileSteps
<1>18. st \in [0..n -> FileWalk]
  <2>1. st = [k \in 0..n |-> IF k = 0 THEN start ELSE Io!NextFile(d, path, st[k - 1])]
    BY <1>1, <1>9 DEF FileLoop, start
  <2> QED
    BY <1>16, <2>1
<1>19. FileRounds(d, f, path, w, st)
  BY <1>1, <1>12, <1>17, <1>18 DEF FileRounds, start
<1> QED
  BY <1>1, <1>10, <1>19

\* What is listed after k rounds: the files V that were passed, each found
\* on the chain in as many steps; whatever follows one is one or comes next.
WentOn(d, f, path, w, g, s, V) ==
  /\ V \in SUBSET FileNumbers(d) /\ V \subseteq s.files /\ s.list = w.list \cup ListedFrom(d, path, V)
  /\ V \subseteq g[Cardinality(V)]
  /\ Io!IsEntry(f, d.files) => f \in V \cup {s.f}
  /\ \A h \in V : NextFiles(d)[h] \subseteq V \cup {s.f}
OnChain(d, f, path, w, g, k, s) ==
  s.err \/ \E V : /\ WentOn(d, f, path, w, g, s, V)
                  /\ Io!IsEntry(s.f, d.files) => s.f \in g[Cardinality(V)] /\ Cardinality(V) = k

LEMMA NumbersAreFew ==
  ASSUME NEW d \in DirIndex, NEW V \in SUBSET FileNumbers(d)
  PROVE  IsFiniteSet(V) /\ Cardinality(V) \in 0..Len(d.files)
<1>1. Len(d.files) \in Nat /\ V \subseteq 0..(Len(d.files) - 1)
  BY EntriesOf DEF FileNumbers
<1>2. PICK n \in Nat : n = Len(d.files)
  BY <1>1
<1>3. IsFiniteSet(0..(n - 1)) /\ Cardinality(0..(n - 1)) = n
  BY FS_Interval
<1>4. IsFiniteSet(V) /\ Cardinality(V) <= n
  BY <1>1, <1>2, <1>3, FS_Subset
<1>5. Cardinality(V) \in Nat
  BY <1>4, FS_CardinalityType
<1> QED
  BY <1>2, <1>4, <1>5

LEMMA NextIsOnChain ==
  ASSUME NEW d \in DirIndex, NEW path \in Seq(Nat), NEW f \in Nat, NEW w,
         NEW g, Grows(g, FileNumbers(d), Len(d.files), FirstFile(d, f), NextFiles(d)),
         NEW k \in Nat, NEW s \in FileWalk, NEW r, FileStep(d, path, s, r), OnChain(d, f, path, w, g, k, s)
  PROVE  OnChain(d, f, path, w, g, k + 1, r)
<1>1. CASE (s.err \/ ~Io!IsEntry(s.f, d.files)) /\ r = s
  BY <1>1 DEF OnChain
<1>2. CASE r.err
  BY <1>2 DEF OnChain
<1>3. CASE /\ ~s.err /\ Io!IsEntry(s.f, d.files) /\ s.f \notin s.files /\ ~r.err
           /\ r.f = d.files[s.f + 1].next /\ r.files = s.files \cup {s.f} /\ r.list = s.list \cup ListedFrom(d, path, {s.f})
  <2>1. PICK V : WentOn(d, f, path, w, g, s, V) /\ s.f \in g[Cardinality(V)] /\ Cardinality(V) = k
    BY <1>3 DEF OnChain
  <2>2. /\ V \in SUBSET FileNumbers(d) /\ V \subseteq s.files /\ s.list = w.list \cup ListedFrom(d, path, V)
        /\ V \subseteq g[k] /\ (Io!IsEntry(f, d.files) => f \in V \cup {s.f})
        /\ \A h \in V : NextFiles(d)[h] \subseteq V \cup {s.f}
    BY <2>1 DEF WentOn
  <2> DEFINE W == V \cup {s.f}
  <2>3. s.f \in FileNumbers(d)
    BY <1>3 DEF FileNumbers, FileWalk
  <2>4. NextFiles(d)[s.f] = {m \in {r.f} : Io!IsEntry(m, d.files)}
    BY <1>3, <2>3 DEF NextFiles
  <2>5. W \in SUBSET FileNumbers(d)
    BY <2>2, <2>3
  <2>6. Cardinality(W) = k + 1 /\ k + 1 \in 1..Len(d.files)
    <3>1. IsFiniteSet(V) /\ s.f \notin V
      BY <1>3, <2>2, NumbersAreFew
    <3>2. Cardinality(W) = Cardinality(V) + 1
      BY <3>1, FS_AddElement
    <3>3. Cardinality(W) \in 0..Len(d.files)
      BY <2>5, NumbersAreFew
    <3> QED
      BY <2>1, <3>2, <3>3
  <2>7. g[k] \subseteq g[k + 1] /\ \A x \in g[k] : NextFiles(d)[x] \subseteq g[k + 1]
    <3>1. \A j \in 1..Len(d.files) : g[j - 1] \subseteq g[j] /\ \A x \in g[j - 1] : NextFiles(d)[x] \subseteq g[j]
      BY GrowthIsClosure
    <3>2. (k + 1) - 1 = k
      OBVIOUS
    <3> QED
      BY <2>6, <3>1, <3>2
  <2>8. W \subseteq g[k + 1]
    BY <2>1, <2>2, <2>7
  <2>9. r.list = w.list \cup ListedFrom(d, path, W)
    <3>1. ListedFrom(d, path, W) = ListedFrom(d, path, V) \cup ListedFrom(d, path, {s.f})
      BY DEF ListedFrom
    <3> QED
      BY <1>3, <2>2, <3>1
  <2>10. \A h \in W : NextFiles(d)[h] \subseteq W \cup {r.f}
    BY <2>2, <2>4
  <2>11. Io!IsEntry(r.f, d.files) => r.f \in g[k + 1]
    BY <2>1, <2>4, <2>7
  <2>12. W \subseteq r.files /\ (Io!IsEntry(f, d.files) => f \in W \cup {r.f})
    BY <1>3, <2>2
  <2> HIDE DEF W
  <2>13. WentOn(d, f, path, w, g, r, W)
    BY <2>5, <2>6, <2>8, <2>9, <2>10, <2>12 DEF WentOn
  <2> QED
    BY <2>6, <2>11, <2>13 DEF OnChain
<1> QED
  BY <1>1, <1>2, <1>3 DEF FileStep

LEMMA ChainIsListed ==
  ASSUME NEW d \in DirIndex, NEW path \in Seq(Nat), NEW f \in Nat, NEW w, w.files \in SUBSET Nat, w.list \in SUBSET ListedFile
  PROVE  LET x == Io!FileChain(d, f, path, w)
         IN x \in FileWalk /\ (~x.err => x.list = w.list \cup ListedFrom(d, path, Io!Chain(d, f)))
<1>1. PICK n \in Nat : n = Len(d.files)
  BY EntriesOf
<1>2. PICK st : FileRounds(d, f, path, w, st) /\ Io!FileChain(d, f, path, w) = st[n + 1]
  BY <1>1, FilesAreWalked
<1>3. PICK g : Grows(g, FileNumbers(d), Len(d.files), FirstFile(d, f), NextFiles(d)) /\ Io!Chain(d, f) = g[n]
  BY <1>1, ChainGrows
<1>4. /\ st \in [0..(n + 1) -> FileWalk] /\ st[0] = FileStart(f, w)
      /\ \A k \in 1..(n + 1) : FileStep(d, path, st[k - 1], st[k])
  BY <1>1, <1>2 DEF FileRounds
<1>5. OnChain(d, f, path, w, g, 0, st[0])
  <2>1. /\ ~st[0].err /\ st[0].f = f /\ st[0].files = w.files /\ st[0].list = w.list
    BY <1>4 DEF FileStart
  <2>2. ListedFrom(d, path, {}) = {}
    BY DEF ListedFrom
  <2>3. Cardinality({}) = 0
    BY FS_EmptySet
  <2>4. WentOn(d, f, path, w, g, st[0], {})
    BY <2>1, <2>2 DEF WentOn
  <2>5. Io!IsEntry(f, d.files) => f \in g[0]
    BY <1>3 DEF Grows, FirstFile
  <2> QED
    BY <2>1, <2>3, <2>4, <2>5 DEF OnChain
<1> DEFINE Inv == {x \in (0..(n + 1)) \X FileWalk : OnChain(d, f, path, w, g, x[1], x[2])}
<1>6. <<0, st[0]>> \in Inv
  BY <1>4, <1>5
<1>7. ASSUME NEW k \in 1..(n + 1), <<k - 1, st[k - 1]>> \in Inv PROVE <<k, st[k]>> \in Inv
  <2>1. k - 1 \in Nat /\ k \in 0..(n + 1) /\ (k - 1) + 1 = k
    OBVIOUS
  <2>2. st[k - 1] \in FileWalk /\ OnChain(d, f, path, w, g, k - 1, st[k - 1])
    BY <1>7
  <2>3. OnChain(d, f, path, w, g, (k - 1) + 1, st[k])
    BY <1>3, <1>4, <2>1, <2>2, NextIsOnChain
  <2> QED
    BY <1>4, <2>1, <2>3
<1>8. \A x \in Inv : x[2] \in FileWalk /\ OnChain(d, f, path, w, g, x[1], x[2])
  OBVIOUS
<1> HIDE DEF Inv
<1>9. <<n + 1, st[n + 1]>> \in Inv
  <2>1. n + 1 \in Nat /\ n + 1 \in 0..(n + 1)
    OBVIOUS
  <2> QED
    BY <1>6, <1>7, <2>1, LoopInvariant
<1>10. PICK s : s = st[n + 1] /\ s \in FileWalk /\ OnChain(d, f, path, w, g, n + 1, s)
  BY <1>8, <1>9
<1>11. ASSUME ~s.err PROVE s.list = w.list \cup ListedFrom(d, path, Io!Chain(d, f))
  <2>1. PICK V : /\ WentOn(d, f, path, w, g, s, V)
                 /\ Io!IsEntry(s.f, d.files) => s.f \in g[Cardinality(V)] /\ Cardinality(V) = n + 1
    BY <1>10, <1>11 DEF OnChain
  <2>2. /\ V \in SUBSET FileNumbers(d) /\ s.list = w.list \cup ListedFrom(d, path, V)
        /\ V \subseteq g[Cardinality(V)] /\ (Io!IsEntry(f, d.files) => f \in V \cup {s.f})
        /\ \A h \in V : NextFiles(d)[h] \subseteq V \cup {s.f}
    BY <2>1 DEF WentOn
  <2>3. Cardinality(V) \in 0..n
    BY <1>1, <2>2, NumbersAreFew
  <2>4. ~Io!IsEntry(s.f, d.files)
    BY <2>1, <2>3
  <2>5. FirstFile(d, f) \subseteq V
    BY <2>2, <2>4 DEF FirstFile
  <2>6. \A h \in V : NextFiles(d)[h] \subseteq V
    BY <2>2, <2>4 DEF NextFiles
  <2>7. g[n] \subseteq V /\ V \subseteq g[n]
    <3>1. /\ \A k \in 0..n : g[k] \subseteq g[n]
          /\ \A X \in SUBSET FileNumbers(d) : FirstFile(d, f) \subseteq X /\ (\A x \in X : NextFiles(d)[x] \subseteq X) => g[n] \subseteq X
      BY <1>1, <1>3, GrowthIsClosure
    <3> QED
      BY <2>2, <2>3, <2>5, <2>6, <3>1
  <2>8. V = Io!Chain(d, f)
    BY <1>3, <2>7
  <2> QED
    BY <2>2, <2>8
<1> QED
  BY <1>2, <1>10, <1>11

\* The fields of the directories and files passed that name a file.
Used(dirs, files) == (dirs \X {"file"}) \cup (files \X {"next"})

\* Each file passed is named by a field passed; field P, which names the next
\* one if it names one, by then has been passed for none.
Owned(d, dirs, files) ==
  files \in SUBSET FileNumbers(d) /\ \A f \in files : \E q \in Io!FilesBefore(d, f) : q \in Used(dirs, files)
Open(d, dirs, s, P) ==
  /\ P \in Used(dirs, s.files) /\ (Io!IsEntry(s.f, d.files) => P \in Io!FilesBefore(d, s.f))
  /\ s.files \in SUBSET FileNumbers(d)
  /\ \A f \in s.files : \E q \in Io!FilesBefore(d, f) : q \in Used(dirs, s.files) /\ q # P

LEMMA FieldsName ==
  ASSUME NEW d \in DirIndex
  PROVE  /\ \A n \in 0..(Len(d.dirs) - 1) : /\ <<n, "file">> \in Io!FilesBefore(d, d.dirs[n + 1].file)
                                            /\ <<n, "child">> \in Io!DirsBefore(d, d.dirs[n + 1].child)
                                            /\ <<n, "sibling">> \in Io!DirsBefore(d, d.dirs[n + 1].sibling)
         /\ \A n \in 0..(Len(d.files) - 1) : <<n, "next">> \in Io!FilesBefore(d, d.files[n + 1].next)
<1>1. ASSUME NEW n \in 0..(Len(d.dirs) - 1)
      PROVE  /\ <<n, "file">> \in Io!FilesBefore(d, d.dirs[n + 1].file)
             /\ <<n, "child">> \in Io!DirsBefore(d, d.dirs[n + 1].child)
             /\ <<n, "sibling">> \in Io!DirsBefore(d, d.dirs[n + 1].sibling)
  <2>1. <<n, "file">> \in Io!Named(d.dirs, "file", d.dirs[n + 1].file)
    BY DEF Io!Named
  <2>2. <<n, "child">> \in Io!Named(d.dirs, "child", d.dirs[n + 1].child)
    BY DEF Io!Named
  <2>3. <<n, "sibling">> \in Io!Named(d.dirs, "sibling", d.dirs[n + 1].sibling)
    BY DEF Io!Named
  <2> QED
    BY <2>1, <2>2, <2>3 DEF Io!FilesBefore, Io!DirsBefore
<1>2. ASSUME NEW n \in 0..(Len(d.files) - 1) PROVE <<n, "next">> \in Io!FilesBefore(d, d.files[n + 1].next)
  <2>1. <<n, "next">> \in Io!Named(d.files, "next", d.files[n + 1].next)
    BY DEF Io!Named
  <2> QED
    BY <2>1 DEF Io!FilesBefore
<1> QED
  BY <1>1, <1>2

LEMMA NextIsOpen ==
  ASSUME NEW d \in DirIndex, Io!IsTree(d), NEW dirs, NEW path, NEW s \in FileWalk, ~s.err,
         NEW r, FileStep(d, path, s, r), NEW P, Open(d, dirs, s, P)
  PROVE  ~r.err /\ \E q : Open(d, dirs, r, q)
<1>1. CASE (s.err \/ ~Io!IsEntry(s.f, d.files)) /\ r = s
  BY <1>1
<1>2. CASE Io!IsEntry(s.f, d.files)
  <2>1. /\ P \in Used(dirs, s.files) /\ P \in Io!FilesBefore(d, s.f) /\ s.files \in SUBSET FileNumbers(d)
        /\ \A f \in s.files : \E q \in Io!FilesBefore(d, f) : q \in Used(dirs, s.files) /\ q # P
    BY <1>2 DEF Open
  <2>2. s.f \in 0..(Len(d.files) - 1) /\ s.f \in FileNumbers(d)
    BY <1>2, EntriesOf DEF FileWalk, FileNumbers
  <2>3. \A x, y \in Io!FilesBefore(d, s.f) : x = y
    BY <2>2 DEF Io!IsTree
  <2>4. s.f \notin s.files
    BY <2>1, <2>3
  <2>5. ~r.err /\ r.f = d.files[s.f + 1].next /\ r.files = s.files \cup {s.f}
    BY <1>2, <2>4 DEF FileStep
  <2> DEFINE q == <<s.f, "next">>
  <2>6. q \in Used(dirs, r.files) /\ q \notin Used(dirs, s.files)
    BY <2>4, <2>5 DEF Used
  <2>7. Used(dirs, s.files) \subseteq Used(dirs, r.files)
    BY <2>5 DEF Used
  <2>8. q \in Io!FilesBefore(d, r.f)
    BY <2>2, <2>5, FieldsName
  <2> HIDE DEF q
  <2>9. \A f \in r.files : \E p \in Io!FilesBefore(d, f) : p \in Used(dirs, r.files) /\ p # q
    <3> SUFFICES ASSUME NEW f \in r.files PROVE \E p \in Io!FilesBefore(d, f) : p \in Used(dirs, r.files) /\ p # q
      OBVIOUS
    <3>1. CASE f \in s.files
      BY <2>1, <2>6, <2>7, <3>1
    <3>2. CASE f = s.f
      BY <2>1, <2>6, <2>7, <3>2
    <3> QED
      BY <2>5, <3>1, <3>2
  <2>10. r.files \in SUBSET FileNumbers(d)
    BY <2>1, <2>2, <2>5
  <2>11. Open(d, dirs, r, q)
    BY <2>6, <2>8, <2>9, <2>10 DEF Open
  <2> QED
    BY <2>5, <2>11
<1> QED
  BY <1>1, <1>2 DEF FileStep

LEMMA ChainIsFree ==
  ASSUME NEW d \in DirIndex, Io!IsTree(d), NEW n \in 0..(Len(d.dirs) - 1), NEW path \in Seq(Nat), NEW f \in Nat,
         f = d.dirs[n + 1].file, NEW w, w.list \in SUBSET ListedFile, n \notin w.dirs, Owned(d, w.dirs, w.files)
  PROVE  LET x == Io!FileChain(d, f, path, w) IN ~x.err /\ Owned(d, w.dirs \cup {n}, x.files)
<1> DEFINE dirs == w.dirs \cup {n}
<1>1. PICK m \in Nat : m = Len(d.files)
  BY EntriesOf
<1>2. w.files \in SUBSET Nat
  BY DEF Owned, FileNumbers
<1>3. PICK st : FileRounds(d, f, path, w, st) /\ Io!FileChain(d, f, path, w) = st[m + 1]
  <2>1. \E st : FileRounds(d, f, path, w, st) /\ Io!FileChain(d, f, path, w) = st[Len(d.files) + 1]
    BY ONLY <1>2, w.list \in SUBSET ListedFile, d \in DirIndex, path \in Seq(Nat), f \in Nat, FilesAreWalked
  <2> QED
    BY ONLY <1>1, <2>1
<1>4. /\ st \in [0..(m + 1) -> FileWalk] /\ st[0] = FileStart(f, w)
      /\ \A k \in 1..(m + 1) : FileStep(d, path, st[k - 1], st[k])
  BY <1>1, <1>3 DEF FileRounds
<1>5. ~st[0].err /\ Open(d, dirs, st[0], <<n, "file">>)
  <2>1. ~st[0].err /\ st[0].f = f /\ st[0].files = w.files
    BY <1>4 DEF FileStart
  <2>2. <<n, "file">> \in Used(dirs, w.files) /\ <<n, "file">> \notin Used(w.dirs, w.files)
    BY DEF Used
  <2>3. Used(w.dirs, w.files) \subseteq Used(dirs, w.files)
    BY DEF Used
  <2>4. <<n, "file">> \in Io!FilesBefore(d, f)
    BY FieldsName
  <2> HIDE DEF dirs
  <2>5. \A h \in w.files : \E q \in Io!FilesBefore(d, h) : q \in Used(dirs, w.files) /\ q # <<n, "file">>
    BY <2>2, <2>3 DEF Owned
  <2> QED
    BY <2>1, <2>2, <2>4, <2>5 DEF Open, Owned
<1> HIDE DEF dirs
<1> DEFINE Inv == {x \in (0..(m + 1)) \X FileWalk : ~x[2].err /\ \E q : Open(d, dirs, x[2], q)}
<1>6. <<0, st[0]>> \in Inv
  BY <1>4, <1>5
<1>7. ASSUME NEW k \in 1..(m + 1), <<k - 1, st[k - 1]>> \in Inv PROVE <<k, st[k]>> \in Inv
  <2>1. st[k - 1] \in FileWalk /\ ~st[k - 1].err /\ \E q : Open(d, dirs, st[k - 1], q)
    BY <1>7
  <2>2. FileStep(d, path, st[k - 1], st[k])
    BY <1>4
  <2>3. ~st[k].err /\ \E q : Open(d, dirs, st[k], q)
    BY <2>1, <2>2, NextIsOpen
  <2>4. st[k] \in FileWalk /\ k \in 0..(m + 1)
    BY <1>4
  <2> QED
    BY <2>3, <2>4
<1>8. \A x \in Inv : ~x[2].err /\ \E q : Open(d, dirs, x[2], q)
  OBVIOUS
<1> HIDE DEF Inv
<1>9. <<m + 1, st[m + 1]>> \in Inv
  <2>1. m + 1 \in Nat /\ m + 1 \in 0..(m + 1)
    OBVIOUS
  <2> QED
    BY <1>6, <1>7, <2>1, LoopInvariant
<1>10. PICK s, q : s = st[m + 1] /\ ~s.err /\ Open(d, dirs, s, q)
  BY <1>8, <1>9
<1>11. Owned(d, dirs, s.files)
  BY <1>10 DEF Open, Owned
<1> QED
  BY <1>3, <1>10, <1>11 DEF dirs

\* The walk of the directories, and one round of it.
Call == [n : Nat, path : Seq(Nat), depth : Nat]
Walking == [err : BOOLEAN, todo : Seq(Call), dirs : SUBSET Nat, files : SUBSET Nat, list : SUBSET ListedFile]
EntryOf(d, x) == d.dirs[x.n + 1]
Here(d, x) == x.path \o Io!NameAt(d, EntryOf(d, x).name)
ToChild(d, x) == Io!Visit(EntryOf(d, x).child, Here(d, x), x.depth + 1)
ToSibling(d, x) == Io!Visit(EntryOf(d, x).sibling, x.path, x.depth)
FilesRead(d, x, w) == Io!FileChain(d, EntryOf(d, x).file, Here(d, x), w)
Refuses(w, x) == x.n \in w.dirs \/ x.depth > MaxDepth \/ Io!Cardinality(w.dirs) > MaxEntries
Enter(d, w, x, r) ==
  LET read == FilesRead(d, x, w)
  IN /\ r.err = read.err /\ r.dirs = w.dirs \cup {x.n} /\ r.files = read.files /\ r.list = read.list
     /\ r.todo = <<ToChild(d, x), ToSibling(d, x)>> \o Tail(w.todo)
WalkStep(d, w, r) ==
  \/ (w.err \/ w.todo = <<>>) /\ r = w
  \/ /\ ~w.err /\ w.todo # <<>> /\ ~Io!IsEntry(Head(w.todo).n, d.dirs)
     /\ ~r.err /\ r.todo = Tail(w.todo) /\ r.dirs = w.dirs /\ r.files = w.files /\ r.list = w.list
  \/ ~w.err /\ w.todo # <<>> /\ Io!IsEntry(Head(w.todo).n, d.dirs) /\ Refuses(w, Head(w.todo)) /\ r.err
  \/ /\ ~w.err /\ w.todo # <<>> /\ Io!IsEntry(Head(w.todo).n, d.dirs) /\ ~Refuses(w, Head(w.todo))
     /\ Enter(d, w, Head(w.todo), r)

LEMMA CardinalityIsShared == \A S : Io!Cardinality(S) = Cardinality(S)
BY Zenon DEF Io!Cardinality, Cardinality

LEMMA CallsFollow ==
  ASSUME NEW d \in DirIndex, NEW x \in Call, Io!IsEntry(x.n, d.dirs)
  PROVE  /\ EntryOf(d, x) \in DirEntry /\ Here(d, x) \in Seq(Nat) /\ ToChild(d, x) \in Call /\ ToSibling(d, x) \in Call
         /\ x.n \in 0..(Len(d.dirs) - 1) /\ x.n # Invalid
<1>1. x.n \in Nat /\ x.path \in Seq(Nat) /\ x.depth \in Nat
  BY DEF Call
<1>2. x.n \in 0..(Len(d.dirs) - 1) /\ x.n # Invalid
  BY <1>1, EntriesOf
<1>3. EntryOf(d, x) \in DirEntry
  BY <1>2, EntriesOf DEF EntryOf
<1>4. PICK e \in DirEntry : e = EntryOf(d, x)
  BY <1>3
<1>5. e.name \in Nat /\ e.child \in Nat /\ e.sibling \in Nat
  BY DEF DirEntry
<1>6. Io!NameAt(d, e.name) \in Seq(Nat)
  BY <1>5, EntriesOf
<1>7. Here(d, x) \in Seq(Nat)
  BY <1>1, <1>4, <1>6 DEF Here
<1>8. ToChild(d, x) \in Call /\ ToSibling(d, x) \in Call
  BY <1>1, <1>4, <1>5, <1>7 DEF ToChild, ToSibling, Io!Visit, Call
<1> QED
  BY <1>2, <1>3, <1>7, <1>8

LEMMA IndexSteps ==
  ASSUME NEW d \in DirIndex, NEW w \in Walking
  PROVE  WalkStep(d, w, Io!ReadIndex(d, w)) /\ Io!ReadIndex(d, w) \in Walking
<1> DEFINE x == Head(w.todo)
           r == Io!ReadIndex(d, w)
           read == FilesRead(d, x, w)
           next == <<ToChild(d, x), ToSibling(d, x)>> \o Tail(w.todo)
           past == [w EXCEPT !.todo = Tail(@)]
           refused == [w EXCEPT !.err = TRUE]
           entered == [err |-> read.err, dirs |-> w.dirs \cup {x.n}, files |-> read.files, list |-> read.list, todo |-> next]
<1>0. r = IF w.err \/ w.todo = <<>> THEN w
          ELSE IF ~Io!IsEntry(x.n, d.dirs) THEN past
          ELSE IF Refuses(w, x) THEN refused
          ELSE entered
  BY Zenon DEF Io!ReadIndex, Refuses, FilesRead, ToChild, ToSibling, EntryOf, Here
<1> HIDE DEF r
<1>1. w.err \in BOOLEAN /\ w.todo \in Seq(Call) /\ w.dirs \in SUBSET Nat /\ w.files \in SUBSET Nat /\ w.list \in SUBSET ListedFile
  BY DEF Walking
<1>2. CASE w.err \/ w.todo = <<>>
  <2>1. r = w
    BY <1>0, <1>2
  <2> QED
    BY <1>2, <2>1 DEF WalkStep, r
<1>3. ASSUME w.todo # <<>> PROVE x \in Call /\ Tail(w.todo) \in Seq(Call)
  BY <1>1, <1>3
<1>4. CASE ~w.err /\ w.todo # <<>> /\ ~Io!IsEntry(x.n, d.dirs)
  <2>1. r = past
    <3> HIDE DEF past, refused, entered
    <3> QED
      BY <1>0, <1>4
  <2>2. r = [err |-> w.err, todo |-> Tail(w.todo), dirs |-> w.dirs, files |-> w.files, list |-> w.list]
    BY <2>1 DEF Walking
  <2>3. r \in Walking
    BY <1>1, <1>3, <1>4, <2>2 DEF Walking
  <2> QED
    BY <1>4, <2>2, <2>3 DEF WalkStep, r
<1>5. CASE ~w.err /\ w.todo # <<>> /\ Io!IsEntry(x.n, d.dirs) /\ Refuses(w, x)
  <2>1. r = refused
    <3> HIDE DEF past, refused, entered
    <3> QED
      BY <1>0, <1>5
  <2>2. r.err /\ r \in Walking
    BY <2>1 DEF Walking
  <2> QED
    BY <1>5, <2>2 DEF WalkStep, r
<1>6. CASE ~w.err /\ w.todo # <<>> /\ Io!IsEntry(x.n, d.dirs) /\ ~Refuses(w, x)
  <2>0. r = entered
    <3> HIDE DEF past, refused, entered
    <3> QED
      BY <1>0, <1>6
  <2>1. x \in Call
    BY <1>3, <1>6
  <2>2. /\ EntryOf(d, x) \in DirEntry /\ Here(d, x) \in Seq(Nat) /\ ToChild(d, x) \in Call /\ ToSibling(d, x) \in Call
        /\ x.n \in Nat
    BY <1>6, <2>1, CallsFollow
  <2>3. read \in FileWalk
    <3>1. PICK f \in Nat : f = EntryOf(d, x).file
      BY <2>2 DEF DirEntry
    <3>2. PICK path \in Seq(Nat) : path = Here(d, x)
      BY <2>2
    <3>3. Io!FileChain(d, f, path, w) \in FileWalk
      BY ONLY <1>1, d \in DirIndex, f \in Nat, path \in Seq(Nat), ChainIsListed
    <3> QED
      BY <3>1, <3>2, <3>3 DEF FilesRead
  <2>4. next \in Seq(Call)
    BY <1>3, <1>6, <2>2
  <2> HIDE DEF read, next, x
  <2>5. r \in Walking
    BY <1>1, <2>0, <2>2, <2>3, <2>4 DEF Walking, FileWalk
  <2>6. Enter(d, w, x, r)
    BY <2>0 DEF Enter, read, next
  <2> QED
    BY <1>6, <2>5, <2>6 DEF WalkStep, r, x
<1> QED
  BY <1>2, <1>4, <1>5, <1>6

WalkStart(d) == [err |-> FALSE, todo |-> <<Io!Visit(0, d.mount, 0)>>, dirs |-> {}, files |-> {}, list |-> {}]
WalkLoop(d, g) ==
  g = [k \in 0..(2 * Len(d.dirs) + 1) |-> IF k = 0 THEN WalkStart(d) ELSE Io!ReadIndex(d, g[k - 1])]
WalkRounds(d, n, st) ==
  /\ n = 2 * Len(d.dirs) + 1 /\ st \in [0..n -> Walking] /\ st[0] = WalkStart(d)
  /\ \A k \in 1..n : WalkStep(d, st[k - 1], st[k])

LEMMA DirsAreWalked ==
  ASSUME NEW d \in DirIndex
  PROVE  \E n \in Nat : \E st : WalkRounds(d, n, st) /\ Io!Walk(d) = st[n]
<1> DEFINE start == WalkStart(d)
           h(n) == [x \in (1..n) \X Walking |-> Io!ReadIndex(d, x[2])]
<1>1. PICK n \in Nat : n = 2 * Len(d.dirs) + 1
  <2>1. Len(d.dirs) \in Nat
    BY EntriesOf
  <2> QED
    BY <2>1
<1>2. start \in Walking
  <2>1. Io!Visit(0, d.mount, 0) \in Call
    BY EntriesOf DEF Io!Visit, Call
  <2> QED
    BY <2>1 DEF WalkStart, Walking
<1>3. h(n) \in [(1..n) \X Walking -> Walking]
  BY IndexSteps
<1>4. \A k \in 1..n : \A s \in Walking : h(n)[<<k, s>>] = Io!ReadIndex(d, s)
  OBVIOUS
<1> HIDE DEF h, start
<1>5. PICK g \in [0..n -> Walking] : g[0] = start /\ \A k \in 1..n : g[k] = h(n)[<<k, g[k - 1]>>]
  <2>1. HasRecursion(Walking, start, n, h(n))
    BY <1>2, <1>3, RecursiveFunction
  <2> QED
    BY <2>1 DEF HasRecursion
<1>6. \A k \in 1..n : k - 1 \in 0..n /\ k \in 0..n /\ k # 0 /\ g[k - 1] \in Walking
  BY <1>5
<1>7. \A k \in 1..n : g[k] = Io!ReadIndex(d, g[k - 1])
  BY <1>4, <1>5, <1>6
<1>8. WalkLoop(d, g)
  <2>1. \A k \in 0..n : g[k] = IF k = 0 THEN start ELSE Io!ReadIndex(d, g[k - 1])
    <3>1. \A k \in 0..n : k = 0 \/ k \in 1..n
      OBVIOUS
    <3> QED
      BY <1>5, <1>6, <1>7, <3>1
  <2> QED
    BY <1>1, <1>5, <2>1 DEF WalkLoop, start
<1>9. PICK st : st = (CHOOSE y : WalkLoop(d, y)) /\ WalkLoop(d, st)
  BY <1>8
<1>10. Io!Walk(d) = st[n]
  BY <1>1, <1>9, Zenon DEF Io!Walk, WalkLoop, WalkStart
<1>11. \A k \in 0..n : st[k] = IF k = 0 THEN start ELSE Io!ReadIndex(d, st[k - 1])
  BY <1>1, <1>9 DEF WalkLoop, start
<1>12. st[0] = start /\ \A k \in 1..n : st[k] = Io!ReadIndex(d, st[k - 1])
  <2>1. 0 \in 0..n
    OBVIOUS
  <2> QED
    BY <1>6, <1>11, <2>1
<1> DEFINE Inv == {x \in (0..n) \X Walking : TRUE}
<1>13. <<0, st[0]>> \in Inv
  BY <1>2, <1>12
<1>14. ASSUME NEW k \in 1..n, <<k - 1, st[k - 1]>> \in Inv PROVE <<k, st[k]>> \in Inv
  <2>1. st[k - 1] \in Walking
    BY <1>14
  <2>2. st[k] \in Walking
    BY <1>12, <2>1, IndexSteps
  <2> QED
    BY <1>6, <2>2
<1>15. \A x \in Inv : x[2] \in Walking
  OBVIOUS
<1> HIDE DEF Inv
<1>16. \A k \in 0..n : st[k] \in Walking
  <2>1. \A k \in 0..n : <<k, st[k]>> \in Inv
    BY <1>13, <1>14, LoopInvariant
  <2> QED
    BY <1>15, <2>1
<1>17. \A k \in 1..n : WalkStep(d, st[k - 1], st[k])
  BY <1>6, <1>12, <1>16, IndexSteps
<1>18. st \in [0..n -> Walking]
  <2>1. st = [k \in 0..n |-> IF k = 0 THEN start ELSE Io!ReadIndex(d, st[k - 1])]
    BY <1>1, <1>9 DEF WalkLoop, start
  <2> QED
    BY <1>16, <2>1
<1>19. WalkRounds(d, n, st)
  BY <1>1, <1>12, <1>17, <1>18 DEF WalkRounds, start
<1> QED
  BY <1>10, <1>19

PlaceOf(x) == <<x.n, x.path>>
PlacesOf(q) == {PlaceOf(q[i]) : i \in 1..Len(q)}
PathAt(d, x) == x[2] \o Io!NameAt(d, d.dirs[x[1] + 1].name)
FilesAt(d, x) == ListedFrom(d, PathAt(d, x), Io!Chain(d, d.dirs[x[1] + 1].file))
AllListed(d, V) == UNION {FilesAt(d, x) : x \in V}

LEMMA PlacesOfCalls ==
  ASSUME NEW q \in Seq(Call), q # <<>>, NEW a \in Call, NEW b \in Call
  PROVE  /\ Head(q) \in Call /\ Tail(q) \in Seq(Call) /\ Len(q) \in Nat /\ Len(Tail(q)) = Len(q) - 1
         /\ PlacesOf(q) = {PlaceOf(Head(q))} \cup PlacesOf(Tail(q))
         /\ Len(<<a, b>> \o Tail(q)) = Len(q) + 1
         /\ PlacesOf(<<a, b>> \o Tail(q)) = {PlaceOf(a), PlaceOf(b)} \cup PlacesOf(Tail(q))
<1>1. /\ Head(q) \in Call /\ Tail(q) \in Seq(Call) /\ Len(q) \in Nat /\ Len(Tail(q)) = Len(q) - 1 /\ Head(q) = q[1]
      /\ \A i \in 1..Len(Tail(q)) : Tail(q)[i] = q[i + 1]
  OBVIOUS
<1>2. PICK t \in Seq(Call) : t = Tail(q)
  BY <1>1
<1>3. PlacesOf(q) = {PlaceOf(q[1])} \cup PlacesOf(t)
  <2>1. ASSUME NEW i \in 1..Len(q) PROVE q[i] = q[1] \/ \E j \in 1..Len(t) : q[i] = t[j]
    <3>1. CASE i = 1
      BY <3>1
    <3>2. CASE i # 1
      <4>1. i - 1 \in 1..Len(t) /\ (i - 1) + 1 = i
        BY <1>1, <1>2, <3>2
      <4>2. t[i - 1] = q[i]
        BY <1>1, <1>2, <4>1
      <4> QED
        BY <4>1, <4>2
    <3> QED
      BY <3>1, <3>2
  <2>2. ASSUME NEW j \in 1..Len(t) PROVE \E i \in 1..Len(q) : q[i] = t[j]
    <3>1. j + 1 \in 1..Len(q) /\ t[j] = q[j + 1]
      BY <1>1, <1>2
    <3> QED
      BY <3>1
  <2>3. 1 \in 1..Len(q)
    BY <1>1
  <2> HIDE DEF PlaceOf
  <2> QED
    BY <2>1, <2>2, <2>3 DEF PlacesOf
<1>4. Len(<<a, b>> \o t) = Len(t) + 2 /\ PlacesOf(<<a, b>> \o t) = {PlaceOf(a), PlaceOf(b)} \cup PlacesOf(t)
  <2>1. PICK two \in Seq(Call) : two = <<a, b>>
    <3>1. <<a, b>> \in Seq(Call)
      OBVIOUS
    <3> QED
      BY <3>1
  <2>2. Len(two) = 2 /\ two[1] = a /\ two[2] = b /\ Len(t) \in Nat
    BY <2>1
  <2>3. /\ Len(two \o t) = Len(two) + Len(t)
        /\ \A i \in 1..(Len(two) + Len(t)) : (two \o t)[i] = IF i <= Len(two) THEN two[i] ELSE t[i - Len(two)]
    BY ConcatProperties
  <2>4. PICK r : r = two \o t
    OBVIOUS
  <2>5. Len(r) = Len(t) + 2 /\ r[1] = a /\ r[2] = b /\ \A i \in 3..Len(r) : r[i] = t[i - 2]
    BY <2>2, <2>3, <2>4
  <2>6. ASSUME NEW i \in 1..Len(r) PROVE r[i] \in {a, b} \/ \E j \in 1..Len(t) : r[i] = t[j]
    <3>1. i = 1 \/ i = 2 \/ i \in 3..Len(r)
      BY <2>2, <2>5
    <3>2. CASE i \in 3..Len(r)
      <4>1. i - 2 \in 1..Len(t) /\ r[i] = t[i - 2]
        BY <2>2, <2>5, <3>2
      <4> QED
        BY <4>1
    <3> QED
      BY <2>5, <3>1, <3>2
  <2>7. ASSUME NEW j \in 1..Len(t) PROVE \E i \in 1..Len(r) : r[i] = t[j]
    <3>1. j + 2 \in 3..Len(r) /\ j + 2 \in 1..Len(r) /\ (j + 2) - 2 = j
      BY <2>2, <2>5
    <3>2. r[j + 2] = t[j]
      BY <2>5, <3>1
    <3> QED
      BY <3>1, <3>2
  <2>8. 1 \in 1..Len(r) /\ 2 \in 1..Len(r)
    BY <2>2, <2>5
  <2> HIDE DEF PlaceOf
  <2>9. PlacesOf(r) = {PlaceOf(a), PlaceOf(b)} \cup PlacesOf(t)
    <3>1. ASSUME NEW y \in PlacesOf(r) PROVE y \in {PlaceOf(a), PlaceOf(b)} \cup PlacesOf(t)
      <4>1. PICK i \in 1..Len(r) : y = PlaceOf(r[i])
        BY <3>1 DEF PlacesOf
      <4>2. CASE r[i] \in {a, b}
        BY <4>1, <4>2
      <4>3. CASE \E j \in 1..Len(t) : r[i] = t[j]
        BY <4>1, <4>3 DEF PlacesOf
      <4> QED
        BY <2>6, <4>2, <4>3
    <3>2. ASSUME NEW y \in PlacesOf(t) PROVE y \in PlacesOf(r)
      <4>1. PICK j \in 1..Len(t) : y = PlaceOf(t[j])
        BY <3>2 DEF PlacesOf
      <4>2. PICK i \in 1..Len(r) : r[i] = t[j]
        BY <2>7
      <4> QED
        BY <4>1, <4>2 DEF PlacesOf
    <3>3. PlaceOf(a) \in PlacesOf(r) /\ PlaceOf(b) \in PlacesOf(r)
      BY <2>5, <2>8 DEF PlacesOf
    <3> QED
      BY <3>1, <3>2, <3>3
  <2> QED
    BY <2>1, <2>4, <2>5, <2>9
<1> QED
  BY <1>1, <1>2, <1>3, <1>4

LEMMA CallIsFollowed ==
  ASSUME NEW d \in DirIndex, NEW x \in Call, Io!IsEntry(x.n, d.dirs)
  PROVE  /\ PlaceOf(x) \in DirPlaces(d)
         /\ NextPlaces(d)[PlaceOf(x)] = {y \in {PlaceOf(ToChild(d, x)), PlaceOf(ToSibling(d, x))} : Io!IsEntry(y[1], d.dirs)}
         /\ PathAt(d, PlaceOf(x)) = Here(d, x)
<1>1. x.n \in Nat /\ x.path \in Seq(Nat)
  BY DEF Call
<1>2. PlaceOf(x) \in DirPlaces(d)
  <2>1. <<x.n, x.path>> \in Nat \X Seq(Nat)
    BY <1>1
  <2>2. <<x.n, x.path>>[1] = x.n
    OBVIOUS
  <2> QED
    BY <2>1, <2>2 DEF DirPlaces, PlaceOf
<1>3. PICK y : y = PlaceOf(x)
  OBVIOUS
<1>4. y[1] = x.n /\ y[2] = x.path
  BY <1>3 DEF PlaceOf
<1>5. Io!Follows(d, y) = {z \in {<<EntryOf(d, x).sibling, x.path>>, <<EntryOf(d, x).child, Here(d, x)>>} : Io!IsEntry(z[1], d.dirs)}
  BY <1>4, Zenon DEF Io!Follows, EntryOf, Here
<1>6. /\ PlaceOf(ToChild(d, x)) = <<EntryOf(d, x).child, Here(d, x)>>
      /\ PlaceOf(ToSibling(d, x)) = <<EntryOf(d, x).sibling, x.path>>
  BY DEF PlaceOf, ToChild, ToSibling, Io!Visit
<1>7. NextPlaces(d)[y] = Io!Follows(d, y)
  BY <1>2, <1>3 DEF NextPlaces
<1>8. PathAt(d, y) = Here(d, x)
  BY <1>4, Zenon DEF PathAt, Here, EntryOf
<1>9. {z \in {PlaceOf(ToSibling(d, x)), PlaceOf(ToChild(d, x))} : Io!IsEntry(z[1], d.dirs)}
        = {z \in {PlaceOf(ToChild(d, x)), PlaceOf(ToSibling(d, x))} : Io!IsEntry(z[1], d.dirs)}
  OBVIOUS
<1> QED
  BY <1>2, <1>3, <1>5, <1>6, <1>7, <1>8, <1>9

\* After k rounds: the places V that were entered, each reached in as many
\* steps; what follows one was entered or is still to do, and every round
\* leaves less to do.
Entered(d, g, w, V) ==
  /\ V \in SUBSET DirPlaces(d) /\ w.dirs = {x[1] : x \in V} /\ w.list = AllListed(d, V)
  /\ V \subseteq g[Cardinality(w.dirs)]
  /\ FirstPlace(d) \subseteq V \cup PlacesOf(w.todo)
  /\ \A x \in V : NextPlaces(d)[x] \subseteq V \cup PlacesOf(w.todo)
  /\ \A y \in PlacesOf(w.todo) : Io!IsEntry(y[1], d.dirs) => y \in g[Cardinality(w.dirs)]
Shrinks(d, k, w) ==
  w.todo # <<>> => Len(w.todo) + 2 * (Len(d.dirs) - Cardinality(w.dirs)) + k <= 2 * Len(d.dirs) + 1
Walked(d, g, k, w) == w.err \/ (Shrinks(d, k, w) /\ \E V : Entered(d, g, w, V))

LEMMA DirsAreFew ==
  ASSUME NEW d \in DirIndex, NEW S, \A n \in S : n \in Nat /\ Io!IsEntry(n, d.dirs)
  PROVE  IsFiniteSet(S) /\ Cardinality(S) \in 0..Len(d.dirs)
<1>1. Len(d.dirs) \in Nat /\ S \subseteq 0..(Len(d.dirs) - 1)
  BY EntriesOf
<1>2. PICK n \in Nat : n = Len(d.dirs)
  BY <1>1
<1>3. IsFiniteSet(0..(n - 1)) /\ Cardinality(0..(n - 1)) = n
  BY FS_Interval
<1>4. IsFiniteSet(S) /\ Cardinality(S) <= n
  BY <1>1, <1>2, <1>3, FS_Subset
<1>5. Cardinality(S) \in Nat
  BY <1>4, FS_CardinalityType
<1> QED
  BY <1>2, <1>4, <1>5

LEMMA LessIsLeft ==
  ASSUME NEW a \in Nat, NEW n \in Nat, NEW j \in Nat, NEW k \in Nat, a + 2 * (n - j) + k <= 2 * n + 1
  PROVE  /\ (a - 1) + 2 * (n - j) + (k + 1) <= 2 * n + 1
         /\ (a + 1) + 2 * (n - (j + 1)) + (k + 1) <= 2 * n + 1
OBVIOUS

LEMMA NextIsWalked ==
  ASSUME NEW d \in DirIndex, NEW g, Grows(g, DirPlaces(d), Len(d.dirs), FirstPlace(d), NextPlaces(d)),
         NEW k \in Nat, NEW w \in Walking, NEW r \in Walking, WalkStep(d, w, r), Walked(d, g, k, w)
  PROVE  Walked(d, g, k + 1, r)
<1> DEFINE x == Head(w.todo)
           j == Cardinality(w.dirs)
<1>1. w.err \in BOOLEAN /\ w.todo \in Seq(Call) /\ w.dirs \in SUBSET Nat /\ w.files \in SUBSET Nat /\ w.list \in SUBSET ListedFile
  BY DEF Walking
<1>2. CASE (w.err \/ w.todo = <<>>) /\ r = w
  BY <1>2 DEF Walked, Shrinks
<1>3. CASE r.err
  BY <1>3 DEF Walked
<1>4. CASE ~w.err /\ w.todo # <<>> /\ ~r.err /\ WalkStep(d, w, r)
  <2>1. PICK V : Entered(d, g, w, V)
    BY <1>4 DEF Walked
  <2>2. /\ V \in SUBSET DirPlaces(d) /\ w.dirs = {y[1] : y \in V} /\ w.list = AllListed(d, V)
        /\ V \subseteq g[j] /\ FirstPlace(d) \subseteq V \cup PlacesOf(w.todo)
        /\ \A y \in V : NextPlaces(d)[y] \subseteq V \cup PlacesOf(w.todo)
        /\ \A y \in PlacesOf(w.todo) : Io!IsEntry(y[1], d.dirs) => y \in g[j]
    BY <2>1 DEF Entered
  <2>3. Len(w.todo) + 2 * (Len(d.dirs) - j) + k <= 2 * Len(d.dirs) + 1
    BY <1>4 DEF Walked, Shrinks
  <2>4. /\ x \in Call /\ Tail(w.todo) \in Seq(Call) /\ Len(w.todo) \in Nat /\ Len(Tail(w.todo)) = Len(w.todo) - 1
        /\ PlacesOf(w.todo) = {PlaceOf(x)} \cup PlacesOf(Tail(w.todo))
    <3>1. PICK a \in Call : TRUE
      BY <1>1, <1>4
    <3> QED
      BY <1>1, <1>4, <3>1, PlacesOfCalls
  <2>5. \A n \in w.dirs : n \in Nat /\ Io!IsEntry(n, d.dirs)
    BY <1>1, <2>2 DEF DirPlaces
  <2>6. IsFiniteSet(w.dirs) /\ j \in 0..Len(d.dirs) /\ Len(d.dirs) \in Nat
    BY <2>5, DirsAreFew, EntriesOf
  <2>7. (\A y \in FirstPlace(d) : Io!IsEntry(y[1], d.dirs)) /\ PlaceOf(x)[1] = x.n
    BY DEF FirstPlace, PlaceOf
  <2>8. /\ \A i \in 1..Len(d.dirs) : g[i - 1] \subseteq g[i] /\ \A y \in g[i - 1] : NextPlaces(d)[y] \subseteq g[i]
        /\ \A y \in V : \A z \in NextPlaces(d)[y] : Io!IsEntry(z[1], d.dirs)
    <3>1. \A i \in 1..Len(d.dirs) : g[i - 1] \subseteq g[i] /\ \A y \in g[i - 1] : NextPlaces(d)[y] \subseteq g[i]
      BY GrowthIsClosure
    <3>2. \A y \in DirPlaces(d) : NextPlaces(d)[y] \in SUBSET DirPlaces(d)
      BY DEF Grows
    <3> QED
      BY <2>2, <3>1, <3>2 DEF DirPlaces
  <2> HIDE DEF x, j
  <2>11. /\ (Len(w.todo) - 1) + 2 * (Len(d.dirs) - j) + (k + 1) <= 2 * Len(d.dirs) + 1
         /\ (Len(w.todo) + 1) + 2 * (Len(d.dirs) - (j + 1)) + (k + 1) <= 2 * Len(d.dirs) + 1
    <3>1. PICK a \in Nat, n \in Nat, i \in Nat : a = Len(w.todo) /\ n = Len(d.dirs) /\ i = j
      BY <2>4, <2>6
    <3>2. a + 2 * (n - i) + k <= 2 * n + 1
      BY <2>3, <3>1
    <3>3. /\ (a - 1) + 2 * (n - i) + (k + 1) <= 2 * n + 1
          /\ (a + 1) + 2 * (n - (i + 1)) + (k + 1) <= 2 * n + 1
      BY ONLY <3>2, LessIsLeft, a \in Nat, n \in Nat, i \in Nat, k \in Nat
    <3> QED
      BY <3>1, <3>3
  <2>9. CASE ~Io!IsEntry(x.n, d.dirs) /\ r.todo = Tail(w.todo) /\ r.dirs = w.dirs /\ r.list = w.list
    <3>1. Cardinality(r.dirs) = j
      BY <2>9 DEF j
    <3>2. FirstPlace(d) \subseteq V \cup PlacesOf(r.todo)
      BY <2>2, <2>4, <2>7, <2>9
    <3>3. \A y \in V : NextPlaces(d)[y] \subseteq V \cup PlacesOf(r.todo)
      BY <2>2, <2>4, <2>7, <2>8, <2>9
    <3>4. \A y \in PlacesOf(r.todo) : Io!IsEntry(y[1], d.dirs) => y \in g[j]
      BY <2>2, <2>4, <2>9
    <3>5. Entered(d, g, r, V)
      BY <2>2, <2>9, <3>1, <3>2, <3>3, <3>4 DEF Entered
    <3>6. Len(r.todo) + 2 * (Len(d.dirs) - j) + (k + 1) <= 2 * Len(d.dirs) + 1
      BY <2>4, <2>9, <2>11
    <3>7. Shrinks(d, k + 1, r)
      BY <3>1, <3>6 DEF Shrinks
    <3> QED
      BY <3>5, <3>7 DEF Walked
  <2>10. CASE Io!IsEntry(x.n, d.dirs) /\ ~Refuses(w, x) /\ Enter(d, w, x, r)
    <3> DEFINE W == V \cup {PlaceOf(x)}
               read == FilesRead(d, x, w)
               a == ToChild(d, x)
               b == ToSibling(d, x)
    <3>1. /\ EntryOf(d, x) \in DirEntry /\ Here(d, x) \in Seq(Nat) /\ a \in Call /\ b \in Call
      BY <2>4, <2>10, CallsFollow
    <3>2. /\ PlaceOf(x) \in DirPlaces(d) /\ PathAt(d, PlaceOf(x)) = Here(d, x)
          /\ NextPlaces(d)[PlaceOf(x)] = {y \in {PlaceOf(a), PlaceOf(b)} : Io!IsEntry(y[1], d.dirs)}
      BY <2>4, <2>10, CallIsFollowed
    <3>3. x.n \notin w.dirs
      BY <2>10 DEF Refuses
    <3>4. /\ r.err = read.err /\ r.dirs = w.dirs \cup {x.n} /\ r.list = read.list
          /\ r.todo = <<a, b>> \o Tail(w.todo)
      BY <2>10 DEF Enter
    <3>5. /\ Len(r.todo) = Len(w.todo) + 1
          /\ PlacesOf(r.todo) = {PlaceOf(a), PlaceOf(b)} \cup PlacesOf(Tail(w.todo))
      <4>1. w.todo \in Seq(Call) /\ w.todo # <<>> /\ a \in Call /\ b \in Call
        BY <1>1, <1>4, <3>1
      <4>2. /\ Len(<<a, b>> \o Tail(w.todo)) = Len(w.todo) + 1
            /\ PlacesOf(<<a, b>> \o Tail(w.todo)) = {PlaceOf(a), PlaceOf(b)} \cup PlacesOf(Tail(w.todo))
        BY ONLY <4>1, PlacesOfCalls
      <4> QED
        BY <3>4, <4>2
    <3>6. r.list = w.list \cup FilesAt(d, PlaceOf(x))
      <4>1. PICK f \in Nat : f = EntryOf(d, x).file
        BY <3>1 DEF DirEntry
      <4>2. PICK path \in Seq(Nat) : path = Here(d, x)
        BY <3>1
      <4>3. PICK y : y = Io!FileChain(d, f, path, w)
        OBVIOUS
      <4>4. ~y.err => y.list = w.list \cup ListedFrom(d, path, Io!Chain(d, f))
        BY ONLY <1>1, <4>3, d \in DirIndex, f \in Nat, path \in Seq(Nat), ChainIsListed
      <4>5. y = read
        BY <4>1, <4>2, <4>3 DEF FilesRead
      <4>6. FilesAt(d, PlaceOf(x)) = ListedFrom(d, path, Io!Chain(d, f))
        <5>1. d.dirs[PlaceOf(x)[1] + 1].file = f
          BY <2>7, <4>1 DEF EntryOf
        <5> QED
          BY <3>2, <4>2, <5>1 DEF FilesAt
      <4> HIDE DEF read
      <4> QED
        BY <1>4, <3>4, <4>4, <4>5, <4>6
    <3> HIDE DEF a, b, read
    <3>7. W \in SUBSET DirPlaces(d)
      BY <2>2, <3>2
    <3>8. r.dirs = {y[1] : y \in W}
      BY <2>2, <2>7, <3>4
    <3>9. r.list = AllListed(d, W)
      BY <2>2, <3>6 DEF AllListed
    <3>10. Cardinality(r.dirs) = j + 1 /\ j + 1 \in 1..Len(d.dirs)
      <4>1. Cardinality(r.dirs) = j + 1
        BY <2>6, <3>3, <3>4, FS_AddElement DEF j
      <4>2. \A n \in r.dirs : n \in Nat /\ Io!IsEntry(n, d.dirs)
        BY <2>5, <2>10, <3>1, <3>4, <2>4 DEF Call
      <4>3. Cardinality(r.dirs) \in 0..Len(d.dirs)
        BY <4>2, DirsAreFew
      <4> QED
        BY <2>6, <4>1, <4>3
    <3>11. g[j] \subseteq g[j + 1] /\ \A y \in g[j] : NextPlaces(d)[y] \subseteq g[j + 1]
      <4>1. (j + 1) - 1 = j
        BY <2>6
      <4> QED
        BY <2>8, <3>10, <4>1
    <3>12. PlaceOf(x) \in g[j]
      BY <2>2, <2>4, <2>7, <2>10
    <3>13. W \subseteq g[j + 1]
      BY <2>2, <3>11, <3>12
    <3>14. FirstPlace(d) \subseteq W \cup PlacesOf(r.todo)
      BY <2>2, <2>4, <3>5
    <3>15. \A y \in W : NextPlaces(d)[y] \subseteq W \cup PlacesOf(r.todo)
      BY <2>2, <2>4, <3>2, <3>5
    <3>16. \A y \in PlacesOf(r.todo) : Io!IsEntry(y[1], d.dirs) => y \in g[j + 1]
      <4> SUFFICES ASSUME NEW y \in PlacesOf(r.todo), Io!IsEntry(y[1], d.dirs) PROVE y \in g[j + 1]
        OBVIOUS
      <4>1. CASE y \in {PlaceOf(a), PlaceOf(b)}
        <5>1. y \in NextPlaces(d)[PlaceOf(x)]
          BY <3>2, <4>1
        <5> QED
          BY <3>11, <3>12, <5>1
      <4>2. CASE y \in PlacesOf(Tail(w.todo))
        BY <2>2, <2>4, <3>11, <4>2
      <4> QED
        BY <3>5, <4>1, <4>2
    <3> HIDE DEF W
    <3>17. Entered(d, g, r, W)
      BY <3>7, <3>8, <3>9, <3>10, <3>13, <3>14, <3>15, <3>16 DEF Entered
    <3>18. Len(r.todo) + 2 * (Len(d.dirs) - (j + 1)) + (k + 1) <= 2 * Len(d.dirs) + 1
      BY <2>11, <3>5
    <3>19. Shrinks(d, k + 1, r)
      BY <3>10, <3>18 DEF Shrinks
    <3> QED
      BY <3>17, <3>19 DEF Walked
  <2> QED
    BY <1>4, <2>9, <2>10 DEF WalkStep, x
<1> QED
  BY <1>2, <1>3, <1>4 DEF WalkStep

\* What a walk that succeeds lists.
LEMMA WalkLists ==
  ASSUME NEW d \in DirIndex, NEW w, w = Io!Walk(d), ~w.err
  PROVE  w.list = AllListed(d, Io!Places(d)) /\ w.list \in SUBSET ListedFile
<1>1. PICK m \in Nat : m = Len(d.dirs)
  BY EntriesOf
<1>0. PICK n \in Nat : \E st : WalkRounds(d, n, st) /\ Io!Walk(d) = st[n]
  BY DirsAreWalked
<1>2. PICK st : WalkRounds(d, n, st) /\ Io!Walk(d) = st[n]
  BY <1>0
<1>3. PICK g : Grows(g, DirPlaces(d), Len(d.dirs), FirstPlace(d), NextPlaces(d)) /\ Io!Places(d) = g[m]
  BY <1>1, PlacesGrow
<1>4. /\ n = 2 * m + 1 /\ st \in [0..n -> Walking] /\ st[0] = WalkStart(d)
      /\ \A k \in 1..n : WalkStep(d, st[k - 1], st[k])
  BY <1>1, <1>2 DEF WalkRounds
<1>5. Walked(d, g, 0, st[0])
  <2> DEFINE s == st[0]
             x == Io!Visit(0, d.mount, 0)
  <2>1. s.todo = <<x>> /\ s.dirs = {} /\ s.list = {}
    BY <1>4 DEF WalkStart
  <2>2. PlacesOf(s.todo) = {<<0, d.mount>>}
    <3>1. Len(s.todo) = 1 /\ s.todo[1] = x /\ \A i \in 1..1 : i = 1
      BY <2>1
    <3>2. PlaceOf(x) = <<0, d.mount>>
      BY DEF PlaceOf, Io!Visit
    <3> HIDE DEF x, s
    <3>3. \A i \in 1..Len(s.todo) : PlaceOf(s.todo[i]) = <<0, d.mount>>
      BY <3>1, <3>2
    <3>4. 1 \in 1..Len(s.todo)
      BY <3>1
    <3> QED
      BY <3>3, <3>4 DEF PlacesOf
  <2>3. Cardinality({}) = 0 /\ g[0] = FirstPlace(d)
    BY <1>3, FS_EmptySet DEF Grows
  <2>4. Entered(d, g, s, {})
    <3> HIDE DEF x, s
    <3>1. AllListed(d, {}) = {} /\ s.dirs = {y[1] : y \in {}}
      BY <2>1 DEF AllListed
    <3>2. \A y \in PlacesOf(s.todo) : Io!IsEntry(y[1], d.dirs) => y \in g[0]
      BY <2>2, <2>3 DEF FirstPlace
    <3>3. Cardinality(s.dirs) = 0
      BY <2>1, <2>3
    <3>4. FirstPlace(d) \subseteq PlacesOf(s.todo)
      BY <2>2 DEF FirstPlace
    <3> QED
      BY <2>1, <3>1, <3>2, <3>3, <3>4 DEF Entered
  <2>5. Shrinks(d, 0, s)
    BY <1>1, <2>1, <2>3 DEF Shrinks
  <2> QED
    BY <2>4, <2>5 DEF Walked
<1> DEFINE Inv == {x \in (0..n) \X Walking : Walked(d, g, x[1], x[2])}
<1>6. <<0, st[0]>> \in Inv
  BY <1>4, <1>5
<1>7. ASSUME NEW k \in 1..n, <<k - 1, st[k - 1]>> \in Inv PROVE <<k, st[k]>> \in Inv
  <2>1. k - 1 \in Nat /\ k \in 0..n /\ (k - 1) + 1 = k
    OBVIOUS
  <2>2. st[k - 1] \in Walking /\ Walked(d, g, k - 1, st[k - 1]) /\ st[k] \in Walking
    BY <1>4, <1>7
  <2>3. Walked(d, g, (k - 1) + 1, st[k])
    BY <1>3, <1>4, <2>1, <2>2, NextIsWalked
  <2> QED
    BY <2>1, <2>2, <2>3
<1>8. \A x \in Inv : x[2] \in Walking /\ Walked(d, g, x[1], x[2])
  OBVIOUS
<1> HIDE DEF Inv
<1>9. <<n, st[n]>> \in Inv
  BY <1>6, <1>7, LoopInvariant
<1>10. w \in Walking /\ Walked(d, g, n, w)
  BY <1>2, <1>8, <1>9
<1>11. PICK V : Entered(d, g, w, V)
  BY <1>10 DEF Walked
<1>12. /\ V \in SUBSET DirPlaces(d) /\ w.dirs = {x[1] : x \in V} /\ w.list = AllListed(d, V)
       /\ V \subseteq g[Cardinality(w.dirs)] /\ FirstPlace(d) \subseteq V \cup PlacesOf(w.todo)
       /\ \A x \in V : NextPlaces(d)[x] \subseteq V \cup PlacesOf(w.todo)
  BY <1>11 DEF Entered
<1>13. Cardinality(w.dirs) \in 0..m
  <2>1. \A i \in w.dirs : i \in Nat /\ Io!IsEntry(i, d.dirs)
    BY <1>12 DEF DirPlaces
  <2> QED
    BY <1>1, <2>1, DirsAreFew
<1>14. w.todo = <<>>
  <2> SUFFICES ASSUME w.todo # <<>> PROVE FALSE
    OBVIOUS
  <2>1. Len(w.todo) + 2 * (m - Cardinality(w.dirs)) + n <= n
    BY <1>1, <1>4, <1>10 DEF Walked, Shrinks
  <2>2. Len(w.todo) \in Nat /\ Len(w.todo) # 0
    BY <1>10 DEF Walking
  <2> QED
    BY <1>13, <2>1, <2>2
<1>15. PlacesOf(w.todo) = {}
  BY <1>14 DEF PlacesOf
<1>16. g[m] \subseteq V /\ V \subseteq g[m]
  <2>1. /\ \A k \in 0..m : g[k] \subseteq g[m]
        /\ \A X \in SUBSET DirPlaces(d) : FirstPlace(d) \subseteq X /\ (\A x \in X : NextPlaces(d)[x] \subseteq X) => g[m] \subseteq X
    BY <1>1, <1>3, GrowthIsClosure
  <2> QED
    BY <1>12, <1>13, <1>15, <2>1
<1>17. V = Io!Places(d)
  BY <1>3, <1>16
<1> QED
  BY <1>10, <1>12, <1>17 DEF Walking

\* Each directory that was entered or is still to do, but the first, is named
\* by one that was entered; what is to do is new, and each is there once.
Findable(d, dirs, n) == n = 0 \/ \E q \in Io!DirsBefore(d, n) : q[1] \in dirs
AllNew(d, w) ==
  /\ \A i \in 1..Len(w.todo) : /\ w.todo[i].depth <= Cardinality(w.dirs)
                               /\ Io!IsEntry(w.todo[i].n, d.dirs) => w.todo[i].n \notin w.dirs /\ Findable(d, w.dirs, w.todo[i].n)
  /\ \A i, j \in 1..Len(w.todo) : i # j /\ Io!IsEntry(w.todo[i].n, d.dirs) => w.todo[i].n # w.todo[j].n
InTree(d, w) ==
  /\ ~w.err /\ Owned(d, w.dirs, w.files) /\ AllNew(d, w)
  /\ \A n \in w.dirs : Io!IsEntry(n, d.dirs) /\ Findable(d, w.dirs, n)

\* Field of directory n names m, which is new then.
LEMMA NamedOnce ==
  ASSUME NEW d \in DirIndex, Io!IsTree(d), NEW dirs, NEW n, n \notin dirs, NEW m \in Nat, Io!IsEntry(m, d.dirs),
         NEW field, <<n, field>> \in Io!DirsBefore(d, m)
  PROVE  ~Findable(d, dirs, m) /\ \A q \in Io!DirsBefore(d, m) : q = <<n, field>>
<1>1. m \in 0..(Len(d.dirs) - 1)
  BY EntriesOf
<1>2. \A q \in Io!DirsBefore(d, m) : q = <<n, field>>
  BY <1>1 DEF Io!IsTree
<1>3. m # 0
  BY DEF Io!IsTree
<1>4. <<n, field>>[1] = n
  OBVIOUS
<1> QED
  BY <1>2, <1>3, <1>4 DEF Findable

LEMMA CallsInFront ==
  ASSUME NEW q \in Seq(Call), q # <<>>, NEW a \in Call, NEW b \in Call, NEW r, r = <<a, b>> \o Tail(q)
  PROVE  /\ r \in Seq(Call) /\ Len(r) = Len(q) + 1 /\ r[1] = a /\ r[2] = b
         /\ \A i \in 3..Len(r) : i - 1 \in 2..Len(q) /\ r[i] = q[i - 1]
<1>1. PICK t \in Seq(Call) : t = Tail(q)
  <2>1. Tail(q) \in Seq(Call)
    OBVIOUS
  <2> QED
    BY <2>1
<1>2. Len(q) \in Nat /\ Len(t) \in Nat /\ Len(t) = Len(q) - 1 /\ \A i \in 1..Len(t) : t[i] = q[i + 1]
  BY <1>1
<1>3. PICK two \in Seq(Call) : two = <<a, b>>
  <2>1. <<a, b>> \in Seq(Call)
    OBVIOUS
  <2> QED
    BY <2>1
<1>4. Len(two) = 2 /\ two[1] = a /\ two[2] = b
  BY <1>3
<1>5. /\ two \o t \in Seq(Call) /\ Len(two \o t) = Len(two) + Len(t)
      /\ \A i \in 1..(Len(two) + Len(t)) : (two \o t)[i] = IF i <= Len(two) THEN two[i] ELSE t[i - Len(two)]
  BY ConcatProperties
<1>6. r = two \o t
  BY <1>1, <1>3
<1>7. r \in Seq(Call) /\ Len(r) = Len(q) + 1 /\ r[1] = a /\ r[2] = b /\ \A i \in 3..Len(r) : r[i] = t[i - 2]
  <2>1. \A i \in 3..(Len(t) + 2) : ~(i <= 2) /\ i \in 1..(2 + Len(t))
    BY <1>2
  <2>2. PICK u : u = two \o t
    OBVIOUS
  <2>3. /\ u \in Seq(Call) /\ Len(u) = 2 + Len(t)
        /\ \A i \in 1..(2 + Len(t)) : u[i] = IF i <= 2 THEN two[i] ELSE t[i - 2]
    BY <1>4, <1>5, <2>2
  <2>4. Len(u) = Len(q) + 1 /\ Len(u) = Len(t) + 2 /\ 1 \in 1..(2 + Len(t)) /\ 2 \in 1..(2 + Len(t))
    BY <1>2, <2>3
  <2>5. u[1] = a /\ u[2] = b /\ \A i \in 3..Len(u) : u[i] = t[i - 2]
    BY <1>4, <2>1, <2>3, <2>4
  <2> QED
    BY ONLY <1>6, <2>2, <2>3, <2>4, <2>5
<1>8. ASSUME NEW i \in 3..Len(r) PROVE i - 1 \in 2..Len(q) /\ r[i] = q[i - 1]
  <2>1. i - 2 \in 1..Len(t) /\ (i - 2) + 1 = i - 1 /\ i - 1 \in 2..Len(q)
    BY <1>2, <1>7
  <2>2. t[i - 2] = q[(i - 2) + 1]
    BY <1>2, <2>1
  <2> QED
    BY <1>7, <2>1, <2>2
<1> QED
  BY <1>7, <1>8

LEMMA NextIsInTree ==
  ASSUME NEW d \in DirIndex, Io!IsTree(d), Len(d.dirs) <= MaxDepth, Len(d.dirs) <= MaxEntries,
         NEW w \in Walking, NEW r, WalkStep(d, w, r), InTree(d, w)
  PROVE  InTree(d, r)
<1> DEFINE x == Head(w.todo)
           j == Cardinality(w.dirs)
<1>1. w.err \in BOOLEAN /\ w.todo \in Seq(Call) /\ w.dirs \in SUBSET Nat /\ w.files \in SUBSET Nat /\ w.list \in SUBSET ListedFile
  BY DEF Walking
<1>2. CASE (w.err \/ w.todo = <<>>) /\ r = w
  BY <1>2
<1>3. CASE ~w.err /\ w.todo # <<>> /\ WalkStep(d, w, r)
  <2>1. /\ Owned(d, w.dirs, w.files) /\ \A n \in w.dirs : Io!IsEntry(n, d.dirs) /\ Findable(d, w.dirs, n)
        /\ \A i \in 1..Len(w.todo) : /\ w.todo[i].depth <= j
                                     /\ Io!IsEntry(w.todo[i].n, d.dirs) => w.todo[i].n \notin w.dirs /\ Findable(d, w.dirs, w.todo[i].n)
        /\ \A i, k \in 1..Len(w.todo) : i # k /\ Io!IsEntry(w.todo[i].n, d.dirs) => w.todo[i].n # w.todo[k].n
    BY DEF InTree, AllNew
  <2>2. /\ x \in Call /\ x = w.todo[1] /\ Len(w.todo) \in Nat /\ 1 \in 1..Len(w.todo)
        /\ Tail(w.todo) \in Seq(Call) /\ Len(Tail(w.todo)) = Len(w.todo) - 1
        /\ \A i \in 1..Len(Tail(w.todo)) : Tail(w.todo)[i] = w.todo[i + 1] /\ i + 1 \in 1..Len(w.todo)
    BY <1>1, <1>3
  <2>3. IsFiniteSet(w.dirs) /\ j \in 0..Len(d.dirs) /\ Len(d.dirs) \in Nat
    BY <1>1, <2>1, DirsAreFew, EntriesOf
  <2> HIDE DEF x, j
  <2>4. CASE ~Io!IsEntry(x.n, d.dirs) /\ ~r.err /\ r.todo = Tail(w.todo) /\ r.dirs = w.dirs /\ r.files = w.files
    <3>1. Cardinality(r.dirs) = j
      BY <2>4 DEF j
    <3>2. \A i \in 1..Len(r.todo) : r.todo[i] = w.todo[i + 1] /\ i + 1 \in 1..Len(w.todo)
      BY <2>2, <2>4
    <3>3. \A i, k \in 1..Len(r.todo) : i # k => i + 1 # k + 1
      BY <2>2, <2>4
    <3>4. ASSUME NEW i \in 1..Len(r.todo)
          PROVE  /\ r.todo[i].depth <= j
                 /\ Io!IsEntry(r.todo[i].n, d.dirs) => r.todo[i].n \notin r.dirs /\ Findable(d, r.dirs, r.todo[i].n)
      <4>1. r.todo[i] = w.todo[i + 1] /\ i + 1 \in 1..Len(w.todo)
        BY <3>2
      <4> QED
        BY <2>1, <2>4, <4>1
    <3>5. ASSUME NEW i \in 1..Len(r.todo), NEW k \in 1..Len(r.todo), i # k, Io!IsEntry(r.todo[i].n, d.dirs)
          PROVE  r.todo[i].n # r.todo[k].n
      <4>1. r.todo[i] = w.todo[i + 1] /\ i + 1 \in 1..Len(w.todo) /\ r.todo[k] = w.todo[k + 1] /\ k + 1 \in 1..Len(w.todo)
        BY <3>2
      <4>2. i + 1 # k + 1
        BY <3>3, <3>5
      <4> QED
        BY <2>1, <3>5, <4>1, <4>2
    <3>6. AllNew(d, r)
      BY <3>1, <3>4, <3>5 DEF AllNew
    <3> QED
      BY <2>1, <2>4, <3>6 DEF InTree
  <2>5. CASE Io!IsEntry(x.n, d.dirs) /\ Refuses(w, x)
    <3>1. x.n \notin w.dirs /\ x.depth <= j
      BY <2>1, <2>2, <2>5
    <3>2. Io!Cardinality(w.dirs) = j
      BY CardinalityIsShared DEF j
    <3>3. x.depth \in Nat /\ MaxDepth \in Nat /\ MaxEntries \in Nat
      BY <2>2, StoreAssumption DEF Call
    <3>4. ~(x.depth > MaxDepth) /\ ~(j > MaxEntries)
      BY <2>3, <3>1, <3>3
    <3> QED
      BY <2>5, <3>1, <3>2, <3>4 DEF Refuses
  <2>6. CASE Io!IsEntry(x.n, d.dirs) /\ ~Refuses(w, x) /\ Enter(d, w, x, r)
    <3> DEFINE a == ToChild(d, x)
               b == ToSibling(d, x)
               read == FilesRead(d, x, w)
    <3>1. /\ EntryOf(d, x) \in DirEntry /\ Here(d, x) \in Seq(Nat) /\ a \in Call /\ b \in Call
          /\ x.n \in 0..(Len(d.dirs) - 1) /\ x.n \in Nat /\ x.depth \in Nat
      BY <2>2, <2>6, CallsFollow DEF Call
    <3>2. x.n \notin w.dirs /\ Findable(d, w.dirs, x.n) /\ x.depth <= j
      BY <2>1, <2>2, <2>6
    <3>3. r.err = read.err /\ r.dirs = w.dirs \cup {x.n} /\ r.files = read.files /\ r.todo = <<a, b>> \o Tail(w.todo)
      BY <2>6 DEF Enter
    <3>4. ~read.err /\ Owned(d, r.dirs, read.files)
      <4>1. PICK n \in 0..(Len(d.dirs) - 1), f \in Nat, path \in Seq(Nat) : n = x.n /\ f = EntryOf(d, x).file /\ path = Here(d, x)
        BY <3>1 DEF DirEntry
      <4>2. f = d.dirs[n + 1].file
        BY <4>1 DEF EntryOf
      <4>3. n \notin w.dirs /\ w.list \in SUBSET ListedFile /\ Owned(d, w.dirs, w.files)
        BY <1>1, <2>1, <3>2, <4>1
      <4>4. PICK y : y = Io!FileChain(d, f, path, w)
        OBVIOUS
      <4>5. ~y.err /\ Owned(d, w.dirs \cup {n}, y.files)
        BY ONLY <4>2, <4>3, <4>4, ChainIsFree, d \in DirIndex, Io!IsTree(d), n \in 0..(Len(d.dirs) - 1), f \in Nat, path \in Seq(Nat)
      <4>6. y = read
        BY <4>1, <4>4 DEF FilesRead
      <4> HIDE DEF read
      <4> QED
        BY <3>3, <4>1, <4>5, <4>6
    <3>5. /\ a.n \in Nat /\ b.n \in Nat /\ a.depth = x.depth + 1 /\ b.depth = x.depth
          /\ <<x.n, "child">> \in Io!DirsBefore(d, a.n) /\ <<x.n, "sibling">> \in Io!DirsBefore(d, b.n)
      <4>1. a.n = d.dirs[x.n + 1].child /\ b.n = d.dirs[x.n + 1].sibling /\ a.depth = x.depth + 1 /\ b.depth = x.depth
        BY DEF ToChild, ToSibling, Io!Visit, EntryOf
      <4>2. a.n \in Nat /\ b.n \in Nat
        BY <3>1 DEF Call
      <4> HIDE DEF a, b
      <4> QED
        BY <3>1, <4>1, <4>2, FieldsName
    <3> HIDE DEF a, b, read
    <3>6. Cardinality(r.dirs) = j + 1
      BY <2>3, <3>2, <3>3, FS_AddElement DEF j
    <3>7. \A n : Findable(d, w.dirs, n) => Findable(d, r.dirs, n)
      BY <3>3 DEF Findable
    <3>8. /\ Io!IsEntry(a.n, d.dirs) => ~Findable(d, w.dirs, a.n) /\ (\A q \in Io!DirsBefore(d, a.n) : q = <<x.n, "child">>)
          /\ Io!IsEntry(b.n, d.dirs) => ~Findable(d, w.dirs, b.n) /\ (\A q \in Io!DirsBefore(d, b.n) : q = <<x.n, "sibling">>)
      BY <3>2, <3>5, NamedOnce
    <3>9. Findable(d, r.dirs, a.n) /\ Findable(d, r.dirs, b.n)
      <4>1. <<x.n, "child">>[1] \in r.dirs /\ <<x.n, "sibling">>[1] \in r.dirs
        BY <3>3
      <4> QED
        BY <3>5, <4>1 DEF Findable
    <3>10. Io!IsEntry(a.n, d.dirs) /\ Io!IsEntry(b.n, d.dirs) => a.n # b.n
      <4>1. <<x.n, "child">> # <<x.n, "sibling">>
        OBVIOUS
      <4> QED
        BY <3>5, <3>8, <4>1
    <3>11. \A n : Io!IsEntry(n, d.dirs) /\ n \in {a.n, b.n} => n \notin r.dirs
      BY <2>1, <3>2, <3>3, <3>8
    <3>12. /\ r.todo \in Seq(Call) /\ Len(r.todo) = Len(w.todo) + 1 /\ r.todo[1] = a /\ r.todo[2] = b
           /\ \A i \in 3..Len(r.todo) : i - 1 \in 2..Len(w.todo) /\ r.todo[i] = w.todo[i - 1]
      <4>1. w.todo \in Seq(Call) /\ w.todo # <<>> /\ a \in Call /\ b \in Call
        BY <1>1, <1>3, <3>1
      <4>2. r.todo = <<a, b>> \o Tail(w.todo)
        BY <3>3
      <4> QED
        BY ONLY <4>1, <4>2, CallsInFront
    <3>13. \A i \in 1..Len(r.todo) : i = 1 \/ i = 2 \/ i \in 3..Len(r.todo)
      BY <2>2, <3>12
    <3>14. ASSUME NEW i \in 3..Len(r.todo)
           PROVE  /\ r.todo[i].depth <= j /\ r.todo[i].depth \in Nat
                  /\ Io!IsEntry(r.todo[i].n, d.dirs) =>
                       r.todo[i].n \notin r.dirs /\ Findable(d, r.dirs, r.todo[i].n) /\ Findable(d, w.dirs, r.todo[i].n)
      <4>1. i - 1 \in 2..Len(w.todo) /\ r.todo[i] = w.todo[i - 1]
        BY <3>12
      <4>2. i - 1 \in 1..Len(w.todo) /\ i - 1 # 1
        BY <2>2, <4>1
      <4>3. w.todo[i - 1] \in Call
        BY <1>1, <4>2
      <4>4. w.todo[i - 1].depth \in Nat
        BY <4>3 DEF Call
      <4>5. Io!IsEntry(w.todo[i - 1].n, d.dirs) => w.todo[i - 1].n # x.n
        BY <2>1, <2>2, <4>2
      <4> QED
        BY <2>1, <3>3, <3>7, <4>1, <4>2, <4>4, <4>5
    <3>15. ASSUME NEW i \in 1..Len(r.todo)
           PROVE  /\ r.todo[i].depth <= j + 1
                  /\ Io!IsEntry(r.todo[i].n, d.dirs) => r.todo[i].n \notin r.dirs /\ Findable(d, r.dirs, r.todo[i].n)
      <4>1. CASE i = 1 \/ i = 2
        <5>1. r.todo[i] \in {a, b}
          BY <3>12, <4>1
        <5>2. a.depth <= j + 1 /\ b.depth <= j + 1
          <6>1. x.depth + 1 <= j + 1 /\ x.depth <= j + 1
            BY <2>3, <3>1, <3>2
          <6> QED
            BY <3>5, <6>1
        <5>3. CASE r.todo[i] = a
          BY <3>9, <3>11, <5>2, <5>3
        <5>4. CASE r.todo[i] = b
          BY <3>9, <3>11, <5>2, <5>4
        <5> QED
          BY <5>1, <5>3, <5>4
      <4>2. CASE i \in 3..Len(r.todo)
        BY <2>3, <3>14, <4>2
      <4> QED
        BY <3>13, <4>1, <4>2
    <3>16. ASSUME NEW i \in 1..Len(r.todo), NEW k \in 1..Len(r.todo), i # k, Io!IsEntry(r.todo[i].n, d.dirs),
                  r.todo[i].n = r.todo[k].n
           PROVE  FALSE
      <4>1. CASE i \in 3..Len(r.todo) /\ k \in 3..Len(r.todo)
        <5>1. /\ i - 1 \in 1..Len(w.todo) /\ r.todo[i] = w.todo[i - 1]
              /\ k - 1 \in 1..Len(w.todo) /\ r.todo[k] = w.todo[k - 1] /\ i - 1 # k - 1
          BY <2>2, <3>12, <3>16, <4>1
        <5>2. r.todo[i].n # r.todo[k].n
          BY ONLY <2>1, <3>16, <5>1
        <5> QED
          BY ONLY <3>16, <5>2
      <4>2. CASE i \in 3..Len(r.todo) /\ (k = 1 \/ k = 2)
        BY <3>8, <3>12, <3>14, <3>16, <4>2
      <4>3. CASE (i = 1 \/ i = 2) /\ k \in 3..Len(r.todo)
        BY <3>8, <3>12, <3>14, <3>16, <4>3
      <4>4. CASE (i = 1 \/ i = 2) /\ (k = 1 \/ k = 2)
        BY <3>10, <3>12, <3>16, <4>4
      <4> QED
        BY <3>13, <4>1, <4>2, <4>3, <4>4
    <3>17. AllNew(d, r)
      BY <3>6, <3>15, <3>16 DEF AllNew
    <3>18. \A n \in r.dirs : Io!IsEntry(n, d.dirs) /\ Findable(d, r.dirs, n)
      BY <2>1, <2>6, <3>2, <3>3, <3>7
    <3> QED
      BY <3>3, <3>4, <3>17, <3>18 DEF InTree
  <2> QED
    BY <1>3, <2>4, <2>5, <2>6 DEF WalkStep, x
<1> QED
  BY <1>2, <1>3 DEF WalkStep, InTree

LEMMA WalkSucceeds ==
  ASSUME NEW d \in DirIndex, Io!IsTree(d), Len(d.dirs) <= MaxDepth, Len(d.dirs) <= MaxEntries
  PROVE  ~Io!Walk(d).err
<1>0. PICK n \in Nat : \E st : WalkRounds(d, n, st) /\ Io!Walk(d) = st[n]
  BY DirsAreWalked
<1>1. PICK st : WalkRounds(d, n, st) /\ Io!Walk(d) = st[n]
  BY <1>0
<1>2. /\ st \in [0..n -> Walking] /\ st[0] = WalkStart(d)
      /\ \A k \in 1..n : WalkStep(d, st[k - 1], st[k])
  BY <1>1 DEF WalkRounds
<1>3. InTree(d, st[0])
  <2> DEFINE x == Io!Visit(0, d.mount, 0)
  <2>1. PICK s : s = st[0]
    OBVIOUS
  <2>2. ~s.err /\ s.todo = <<x>> /\ s.dirs = {} /\ s.files = {} /\ x.n = 0 /\ x.depth = 0
    BY <1>2, <2>1 DEF WalkStart, Io!Visit
  <2> HIDE DEF x
  <2>3. Len(s.todo) = 1 /\ s.todo[1] = x /\ \A i \in 1..1 : i = 1
    BY <2>2
  <2>4. Cardinality(s.dirs) = 0
    BY <2>2, FS_EmptySet
  <2>5. AllNew(d, s)
    BY <2>2, <2>3, <2>4 DEF AllNew, Findable
  <2>6. Owned(d, s.dirs, s.files)
    BY <2>2 DEF Owned
  <2> QED
    BY <2>1, <2>2, <2>5, <2>6 DEF InTree
<1> DEFINE Inv == {x \in (0..n) \X Walking : InTree(d, x[2])}
<1>4. <<0, st[0]>> \in Inv
  BY <1>2, <1>3
<1>5. ASSUME NEW k \in 1..n, <<k - 1, st[k - 1]>> \in Inv PROVE <<k, st[k]>> \in Inv
  <2>1. st[k - 1] \in Walking /\ InTree(d, st[k - 1])
    BY <1>5
  <2>2. WalkStep(d, st[k - 1], st[k]) /\ st[k] \in Walking /\ k \in 0..n
    BY <1>2
  <2>3. InTree(d, st[k])
    BY <2>1, <2>2, NextIsInTree
  <2> QED
    BY <2>2, <2>3
<1>6. \A x \in Inv : InTree(d, x[2])
  OBVIOUS
<1> HIDE DEF Inv
<1>7. <<n, st[n]>> \in Inv
  <2>1. \A k \in 0..n : <<k, st[k]>> \in Inv
    BY ONLY <1>4, <1>5, LoopInvariant, n \in Nat
  <2> QED
    BY <2>1
<1>8. InTree(d, st[n])
  BY <1>6, <1>7
<1> QED
  BY <1>1, <1>8 DEF InTree

\* The files of the index, listed where they can be reached.
LEMMA TreeIsListed ==
  ASSUME NEW d \in DirIndex
  PROVE  Io!WalkListsTheTree(d)
<1> SUFFICES ASSUME NEW w, w = Io!Walk(d)
             PROVE  LET At(x) == x[2] \o Io!NameAt(d, d.dirs[x[1] + 1].name)
                        expected == UNION {{<<At(x) \o Io!NameAt(d, d.files[f + 1].name), d.files[f + 1].data>> :
                                            f \in Io!Chain(d, d.dirs[x[1] + 1].file)} : x \in Io!Places(d)}
                    IN /\ ~w.err => /\ w.list = {e \in expected : e[2] < d.chunks}
                                    /\ \A e \in w.list : Io!PathAnswers(w.list, e[1]) = {x \in w.list : x[1] = e[1]}
                       /\ Io!IsTree(d) /\ Len(d.dirs) <= MaxDepth /\ Len(d.dirs) <= MaxEntries => ~w.err
  BY Zenon DEF Io!WalkListsTheTree
<1> DEFINE FilesOf(x) == {<<PathAt(d, x) \o Io!NameAt(d, d.files[f + 1].name), d.files[f + 1].data>> :
                          f \in Io!Chain(d, d.dirs[x[1] + 1].file)}
           expected == UNION {FilesOf(x) : x \in Io!Places(d)}
<1>1. ASSUME ~w.err PROVE w.list = {e \in expected : e[2] < d.chunks}
  <2>1. w.list = AllListed(d, Io!Places(d))
    BY <1>1, WalkLists
  <2>2. \A x : FilesAt(d, x) = {e \in FilesOf(x) : e[2] < d.chunks}
    BY Zenon DEF FilesAt, ListedFrom
  <2> HIDE DEF FilesOf
  <2> QED
    BY <2>1, <2>2 DEF AllListed
<1>2. \A e \in w.list : Io!PathAnswers(w.list, e[1]) = {x \in w.list : x[1] = e[1]}
  BY DEF Io!PathAnswers
<1>3. Io!IsTree(d) /\ Len(d.dirs) <= MaxDepth /\ Len(d.dirs) <= MaxEntries => ~w.err
  BY WalkSucceeds
<1> QED
  BY <1>1, <1>2, <1>3, Zenon DEF PathAt

\* The fields of a case are of the kinds that the source has: what is read from
\* a file is a number of its width or a list of such, whatever the numbers are.
IsContainerCase ==
  /\ c.p = "chunks" => c.t \in ChunkTable /\ c.asked \in SUBSET Seq(Byte)
  /\ c.p = "tree" => c.d \in DirIndex
  /\ c.p = "range" => c.s \in Container
  /\ c.p = "open" => c.h \in TocHeader /\ c.units \in Nat /\ c.existing \in Nat

\* A container, for any table, index, partitions and blocks: it opens with all
\* that it needs or leaves nothing, a chunk that is found is the one asked for,
\* what is returned is the range of the content, across partitions and blocks,
\* and the walk of the directory index lists what its chains reach.
THEOREM ContainersStayWhole ==
  ASSUME IsContainerCase
  PROVE  ChunksAreWhole
<1>1. c.p = "chunks" => Io!ChunkFoundIsAsked(c.t, c.asked)
  BY ChunkIsFound DEF IsContainerCase
<1>2. c.p = "tree" => Io!WalkListsTheTree(c.d)
  BY TreeIsListed DEF IsContainerCase
<1>3. c.p = "range" => Io!ChunksAreTheContent(c.s)
  BY RangeIsRead DEF IsContainerCase
<1>4. c.p = "open" => Io!OpenIsWhole(c.h, c.units, c.existing)
  BY ContainerOpensWhole DEF IsContainerCase
<1> QED
  BY <1>1, <1>2, <1>3, <1>4 DEF ChunksAreWhole
-----------------------------------------------------------------------------
(* Texts: what they say, each line once, and in which order.                *)

Item == {"line", "open", "else", "close", "label"} \X Int
BodyText == Seq(Item)
Says(out) == {i \in Int : \E j \in DOMAIN out : out[j] = <<"line", i>>}
Follows(out, x, y) == \A j, k \in DOMAIN out : out[j] = <<"line", x>> /\ out[k] = <<"line", y>> => j < k

LEMMA PlacesJoined ==
  ASSUME NEW a \in BodyText, NEW b \in BodyText
  PROVE  /\ a \o b \in BodyText
         /\ \A j \in DOMAIN (a \o b) : \/ j \in DOMAIN a /\ (a \o b)[j] = a[j]
                                       \/ j > Len(a) /\ j - Len(a) \in DOMAIN b /\ (a \o b)[j] = b[j - Len(a)]
         /\ \A j \in DOMAIN a : j \in DOMAIN (a \o b) /\ (a \o b)[j] = a[j]
         /\ \A j \in DOMAIN b : j + Len(a) \in DOMAIN (a \o b) /\ (a \o b)[j + Len(a)] = b[j]
<1>1. /\ a \o b \in Seq(Item) /\ Len(a \o b) = Len(a) + Len(b)
      /\ \A i \in 1..(Len(a) + Len(b)) : (a \o b)[i] = IF i <= Len(a) THEN a[i] ELSE b[i - Len(a)]
  BY ConcatProperties DEF BodyText
<1>2. /\ DOMAIN (a \o b) = 1..Len(a \o b) /\ DOMAIN a = 1..Len(a) /\ DOMAIN b = 1..Len(b)
      /\ Len(a) \in Nat /\ Len(b) \in Nat
  BY <1>1, LenProperties DEF BodyText
<1> QED
  BY <1>1, <1>2 DEF BodyText

LEMMA OnceJoined ==
  ASSUME NEW a \in BodyText, NEW b \in BodyText, Bodies!OnlyOnce(a), Bodies!OnlyOnce(b), Says(a) \cap Says(b) = {}
  PROVE  a \o b \in BodyText /\ Bodies!OnlyOnce(a \o b) /\ Says(a \o b) = Says(a) \cup Says(b)
<1> DEFINE ab == a \o b
<1>1. /\ ab \in BodyText
      /\ \A j \in DOMAIN ab : \/ j \in DOMAIN a /\ ab[j] = a[j]
                              \/ j > Len(a) /\ j - Len(a) \in DOMAIN b /\ ab[j] = b[j - Len(a)]
      /\ \A j \in DOMAIN a : j \in DOMAIN ab /\ ab[j] = a[j]
      /\ \A j \in DOMAIN b : j + Len(a) \in DOMAIN ab /\ ab[j + Len(a)] = b[j]
  BY PlacesJoined
<1>2. DOMAIN ab \subseteq Int /\ Len(a) \in Int /\ \A x \in Item : x[1] = "line" => x = <<"line", x[2]>> /\ x[2] \in Int
  BY <1>1 DEF BodyText, Item
<1> HIDE DEF ab
<1>3. Says(ab) = Says(a) \cup Says(b)
  <2>1. Says(ab) \subseteq Says(a) \cup Says(b)
    BY <1>1 DEF Says
  <2>2. Says(a) \subseteq Says(ab) /\ Says(b) \subseteq Says(ab)
    BY <1>1 DEF Says
  <2> QED
    BY <2>1, <2>2
<1>4. ASSUME NEW j \in DOMAIN ab, NEW k \in DOMAIN ab, ab[j] = ab[k], ab[j][1] = "line" PROVE j = k
  <2>1. ab[j] \in Item
    BY <1>1 DEF BodyText
  <2>2. PICK i \in Int : ab[j] = <<"line", i>> /\ ab[k] = <<"line", i>>
    BY <1>2, <1>4, <2>1
  <2>3. CASE j \in DOMAIN a /\ ab[j] = a[j] /\ k \in DOMAIN a /\ ab[k] = a[k]
    BY <1>4, <2>3 DEF Bodies!OnlyOnce
  <2>4. CASE j > Len(a) /\ j - Len(a) \in DOMAIN b /\ ab[j] = b[j - Len(a)] /\ k > Len(a) /\ k - Len(a) \in DOMAIN b /\ ab[k] = b[k - Len(a)]
    <3>1. j - Len(a) = k - Len(a)
      BY <1>4, <2>4 DEF Bodies!OnlyOnce
    <3> QED
      BY <1>2, <3>1
  <2>5. ~(j \in DOMAIN a /\ ab[j] = a[j] /\ k - Len(a) \in DOMAIN b /\ ab[k] = b[k - Len(a)])
    BY <2>2 DEF Says
  <2>6. ~(k \in DOMAIN a /\ ab[k] = a[k] /\ j - Len(a) \in DOMAIN b /\ ab[j] = b[j - Len(a)])
    BY <2>2 DEF Says
  <2> QED
    BY <1>1, <2>3, <2>4, <2>5, <2>6
<1>5. Bodies!OnlyOnce(ab)
  BY <1>4 DEF Bodies!OnlyOnce
<1> QED
  BY <1>1, <1>3, <1>5 DEF ab

LEMMA FollowsJoined ==
  ASSUME NEW a \in BodyText, NEW b \in BodyText, NEW x \in Int, NEW y \in Int,
         Follows(a, x, y), Follows(b, x, y), y \notin Says(a) \/ x \notin Says(b)
  PROVE  Follows(a \o b, x, y)
<1> DEFINE ab == a \o b
<1>1. \A j \in DOMAIN ab : \/ j \in DOMAIN a /\ ab[j] = a[j]
                           \/ j > Len(a) /\ j - Len(a) \in DOMAIN b /\ ab[j] = b[j - Len(a)]
  BY PlacesJoined
<1>2. ab \in BodyText /\ DOMAIN ab \subseteq Int /\ Len(a) \in Int /\ DOMAIN a = 1..Len(a)
  BY PlacesJoined DEF BodyText
<1> HIDE DEF ab
<1>3. ASSUME NEW j \in DOMAIN ab, NEW k \in DOMAIN ab, ab[j] = <<"line", x>>, ab[k] = <<"line", y>> PROVE j < k
  <2>1. CASE j \in DOMAIN a /\ ab[j] = a[j] /\ k \in DOMAIN a /\ ab[k] = a[k]
    BY <1>3, <2>1 DEF Follows
  <2>2. CASE j > Len(a) /\ j - Len(a) \in DOMAIN b /\ ab[j] = b[j - Len(a)] /\ k > Len(a) /\ k - Len(a) \in DOMAIN b /\ ab[k] = b[k - Len(a)]
    <3>1. j - Len(a) < k - Len(a)
      BY <1>3, <2>2 DEF Follows
    <3> QED
      BY <1>2, <3>1
  <2>3. CASE j \in DOMAIN a /\ k > Len(a)
    BY <1>2, <2>3
  <2>4. ~(k \in DOMAIN a /\ ab[k] = a[k] /\ j - Len(a) \in DOMAIN b /\ ab[j] = b[j - Len(a)])
    BY <1>3 DEF Says
  <2> QED
    BY <1>1, <2>1, <2>2, <2>3, <2>4
<1> QED
  BY <1>3 DEF Follows, ab

LEMMA JoinedTextsGrow ==
  ASSUME NEW T, NEW P \in Seq(Seq(T))
  PROVE  \E g : /\ g[0] = <<>> /\ \A k \in 0..Len(P) : g[k] \in Seq(T)
                /\ \A k \in 1..Len(P) : g[k] = g[k - 1] \o P[k]
                /\ Bodies!Joined(P) = g[Len(P)]
<1>1. PICK g : /\ g = (CHOOSE h : Layout(P, Len(P), h))
               /\ g[0] = <<>> /\ \A k \in 0..Len(P) : g[k] \in Seq(T)
               /\ \A k \in 1..Len(P) : g[k] = g[k - 1] \o P[k]
  BY LayoutGrows
<1>2. Bodies!Joined(P) = g[Len(P)]
  BY <1>1, Zenon DEF Bodies!Joined, Layout
<1> QED
  BY <1>1, <1>2

\* The joined pieces say what the pieces say, where no line is in two.
Apart(P) == \A j, k \in 1..Len(P) : j # k => Says(P[j]) \cap Says(P[k]) = {}

LEMMA JoinedOnce ==
  ASSUME NEW P \in Seq(BodyText), \A k \in 1..Len(P) : Bodies!OnlyOnce(P[k]), Apart(P)
  PROVE  /\ Bodies!Joined(P) \in BodyText /\ Bodies!OnlyOnce(Bodies!Joined(P))
         /\ Says(Bodies!Joined(P)) = UNION {Says(P[k]) : k \in 1..Len(P)}
<1> DEFINE n == Len(P)
<1>0. n \in Nat /\ \A k \in 1..n : P[k] \in BodyText
  BY LenProperties
<1>1. PICK g : /\ g[0] = <<>> /\ \A k \in 0..n : g[k] \in BodyText
               /\ \A k \in 1..n : g[k] = g[k - 1] \o P[k]
               /\ Bodies!Joined(P) = g[n]
  BY JoinedTextsGrow DEF BodyText
<1>2. \A k \in 1..n : Bodies!OnlyOnce(P[k]) /\ \A j \in 1..n : j # k => Says(P[j]) \cap Says(P[k]) = {}
  BY DEF Apart
<1> HIDE DEF n
<1> DEFINE Done(k) == Bodies!OnlyOnce(g[k]) /\ Says(g[k]) = UNION {Says(P[j]) : j \in 1..k}
           Q == {k \in Nat : k <= n => Done(k)}
<1>3. 0 \in Q
  <2>1. Done(0)
    <3>1. Bodies!OnlyOnce(<<>>) /\ Says(<<>>) = {}
      BY DEF Bodies!OnlyOnce, Says
    <3>2. 1..0 = {}
      OBVIOUS
    <3>3. UNION {Says(P[j]) : j \in 1..0} = {}
      BY <3>2
    <3> QED
      BY <1>1, <3>1, <3>3
  <2> QED
    BY <2>1
<1>4. ASSUME NEW k \in Q PROVE k + 1 \in Q
  <2> SUFFICES ASSUME k + 1 <= n PROVE Done(k + 1)
    OBVIOUS
  <2>1. /\ k + 1 \in 1..n /\ k \in 0..n /\ k <= n /\ (k + 1) - 1 = k
        /\ \A j \in 1..k : j \in 1..n /\ j # k + 1
    BY <1>0
  <2>2. Done(k)
    BY <2>1
  <2>3. g[k + 1] = g[k] \o P[k + 1] /\ g[k] \in BodyText /\ P[k + 1] \in BodyText /\ Bodies!OnlyOnce(P[k + 1])
    BY <1>0, <1>1, <1>2, <2>1
  <2>4. Says(g[k]) \cap Says(P[k + 1]) = {}
    <3>1. Says(g[k]) = UNION {Says(P[j]) : j \in 1..k}
      BY <2>2
    <3>2. \A j \in 1..k : Says(P[j]) \cap Says(P[k + 1]) = {}
      BY <1>2, <2>1
    <3> QED
      BY <3>1, <3>2
  <2>5. Bodies!OnlyOnce(g[k + 1]) /\ Says(g[k + 1]) = Says(g[k]) \cup Says(P[k + 1])
    BY <2>2, <2>3, <2>4, OnceJoined
  <2>6. 1..(k + 1) = (1..k) \cup {k + 1}
    OBVIOUS
  <2> QED
    BY <2>2, <2>5, <2>6
<1> HIDE DEF Q
<1>5. Q = Nat
  BY <1>3, <1>4, NaturalsByInduction DEF Q
<1>6. Done(n)
  BY <1>0, <1>5 DEF Q
<1> QED
  BY <1>0, <1>1, <1>6 DEF n

LEMMA SaysEither ==
  ASSUME NEW a \in BodyText, NEW b \in BodyText
  PROVE  \A y \in Says(a \o b) : y \in Says(a) \/ y \in Says(b)
<1> DEFINE ab == a \o b
<1>1. \A j \in DOMAIN ab : \/ j \in DOMAIN a /\ ab[j] = a[j]
                           \/ j > Len(a) /\ j - Len(a) \in DOMAIN b /\ ab[j] = b[j - Len(a)]
  BY PlacesJoined
<1> HIDE DEF ab
<1>2. \A y \in Says(ab) : y \in Says(a) \/ y \in Says(b)
  BY <1>1 DEF Says
<1> QED
  BY <1>2 DEF ab

LEMMA JoinedFollows ==
  ASSUME NEW P \in Seq(BodyText), NEW x \in Int, NEW y \in Int, \A k \in 1..Len(P) : Follows(P[k], x, y),
         \A j, k \in 1..Len(P) : j < k => y \notin Says(P[j]) \/ x \notin Says(P[k]),
         \A k \in 1..Len(P) : Bodies!OnlyOnce(P[k]), Apart(P)
  PROVE  Follows(Bodies!Joined(P), x, y)
<1> DEFINE n == Len(P)
<1>0. n \in Nat /\ \A k \in 1..n : P[k] \in BodyText
  BY LenProperties
<1>1. PICK g : /\ g[0] = <<>> /\ \A k \in 0..n : g[k] \in BodyText
               /\ \A k \in 1..n : g[k] = g[k - 1] \o P[k]
               /\ Bodies!Joined(P) = g[n]
  BY JoinedTextsGrow DEF BodyText
<1> HIDE DEF n
<1> DEFINE Done(k) == Follows(g[k], x, y) /\ (y \in Says(g[k]) => \E j \in 1..k : y \in Says(P[j]))
           Q == {k \in Nat : k <= n => Done(k)}
<1>2. 0 \in Q
  <2>1. Follows(<<>>, x, y) /\ Says(<<>>) = {}
    BY DEF Follows, Says
  <2> QED
    BY <1>1, <2>1
<1>3. ASSUME NEW k \in Q PROVE k + 1 \in Q
  <2> SUFFICES ASSUME k + 1 <= n PROVE Done(k + 1)
    OBVIOUS
  <2>1. /\ k + 1 \in 1..n /\ k \in 0..n /\ k <= n /\ (k + 1) - 1 = k
        /\ \A j \in 1..k : j \in 1..n /\ j < k + 1 /\ j \in 1..(k + 1)
        /\ k + 1 \in 1..(k + 1)
    BY <1>0
  <2>2. Done(k)
    BY <2>1
  <2>3. g[k + 1] = g[k] \o P[k + 1] /\ g[k] \in BodyText /\ P[k + 1] \in BodyText /\ Follows(P[k + 1], x, y)
    BY <1>0, <1>1, <2>1 DEF n
  <2>4. y \notin Says(g[k]) \/ x \notin Says(P[k + 1])
    BY <2>1, <2>2 DEF n
  <2>5. Follows(g[k + 1], x, y)
    BY <2>2, <2>3, <2>4, FollowsJoined
  <2>6. y \in Says(g[k + 1]) => y \in Says(g[k]) \/ y \in Says(P[k + 1])
    BY <2>3, SaysEither
  <2> QED
    BY <2>1, <2>2, <2>5, <2>6
<1> HIDE DEF Q
<1>4. Q = Nat
  BY <1>2, <1>3, NaturalsByInduction DEF Q
<1>5. Done(n)
  BY <1>0, <1>4 DEF Q
<1> QED
  BY <1>1, <1>5

\* The lines of a range, each of which says at most its own number.
OwnLines(text) == \A i \in DOMAIN text : text[i] \in BodyText /\ Bodies!OnlyOnce(text[i]) /\ Says(text[i]) \subseteq {i}

LEMMA LinesAreOwn ==
  ASSUME NEW text \in Seq(BodyText), OwnLines(text), NEW from \in Nat \ {0}, NEW upto \in Int, upto <= Len(text)
  PROVE  /\ Bodies!Lines(text, from, upto) \in BodyText /\ Bodies!OnlyOnce(Bodies!Lines(text, from, upto))
         /\ Says(Bodies!Lines(text, from, upto)) = UNION {Says(text[i]) : i \in from..upto}
         /\ Says(Bodies!Lines(text, from, upto)) \subseteq from..upto
         /\ \A x, y \in Int : x < y => Follows(Bodies!Lines(text, from, upto), x, y)
<1> DEFINE P == SubSeq(text, from, upto)
<1>0. Len(text) \in Nat /\ DOMAIN text = 1..Len(text)
  BY LenProperties
<1>1. \A i \in from..upto : i \in DOMAIN text /\ text[i] \in BodyText /\ Bodies!OnlyOnce(text[i]) /\ Says(text[i]) \subseteq {i}
  BY <1>0 DEF OwnLines
<1>2. /\ P \in Seq(BodyText) /\ Len(P) = IF from <= upto THEN upto - from + 1 ELSE 0
      /\ \A i \in 1..(upto - from + 1) : P[i] = text[from + i - 1]
  BY <1>1, SubSeqProperties
<1>3. \A k \in 1..Len(P) : from + k - 1 \in from..upto /\ P[k] = text[from + k - 1]
  BY <1>2
<1>4. \A i \in from..upto : i - from + 1 \in 1..Len(P) /\ P[i - from + 1] = text[i]
  BY <1>2
<1>5. Bodies!Lines(text, from, upto) = Bodies!Joined(P)
  BY Zenon DEF Bodies!Lines
<1> HIDE DEF P
<1>6. \A k \in 1..Len(P) : Bodies!OnlyOnce(P[k]) /\ Says(P[k]) \subseteq {from + k - 1}
  BY <1>1, <1>3
<1>7. Len(P) \in Nat
  BY <1>2, LenProperties
<1>8. Apart(P)
  <2>1. ASSUME NEW j \in 1..Len(P), NEW k \in 1..Len(P), j # k PROVE Says(P[j]) \cap Says(P[k]) = {}
    <3>1. from + j - 1 # from + k - 1
      BY <1>7, <2>1
    <3> QED
      BY <1>6, <3>1
  <2> QED
    BY <2>1 DEF Apart
<1>9. /\ Bodies!Joined(P) \in BodyText /\ Bodies!OnlyOnce(Bodies!Joined(P))
      /\ Says(Bodies!Joined(P)) = UNION {Says(P[k]) : k \in 1..Len(P)}
  BY <1>2, <1>6, <1>8, JoinedOnce
<1>10. UNION {Says(P[k]) : k \in 1..Len(P)} = UNION {Says(text[i]) : i \in from..upto}
  <2>1. \A k \in 1..Len(P) : \E i \in from..upto : P[k] = text[i]
    BY <1>3
  <2>2. \A i \in from..upto : \E k \in 1..Len(P) : P[k] = text[i]
    BY <1>4
  <2>3. UNION {Says(P[k]) : k \in 1..Len(P)} \subseteq UNION {Says(text[i]) : i \in from..upto}
    BY <2>1
  <2>4. UNION {Says(text[i]) : i \in from..upto} \subseteq UNION {Says(P[k]) : k \in 1..Len(P)}
    BY <2>2
  <2> QED
    BY <2>3, <2>4
<1>11. UNION {Says(text[i]) : i \in from..upto} \subseteq from..upto
  <2>1. ASSUME NEW i \in from..upto, NEW x \in Says(text[i]) PROVE x \in from..upto
    <3>1. Says(text[i]) \subseteq {i}
      BY <1>1
    <3> QED
      BY <2>1, <3>1, Zenon
  <2> QED
    BY <2>1, Zenon
<1>12. ASSUME NEW x \in Int, NEW y \in Int, x < y PROVE Follows(Bodies!Joined(P), x, y)
  <2>1. \A k \in 1..Len(P) : Follows(P[k], x, y)
    <3>1. ASSUME NEW k \in 1..Len(P) PROVE Follows(P[k], x, y)
      <4>1. ~(x \in Says(P[k]) /\ y \in Says(P[k]))
        <5>1. Says(P[k]) \subseteq {from + k - 1}
          BY <1>6
        <5> QED
          BY <1>12, <5>1
      <4> QED
        BY <4>1 DEF Follows, Says
    <3> QED
      BY <3>1
  <2>2. \A j, k \in 1..Len(P) : j < k => y \notin Says(P[j]) \/ x \notin Says(P[k])
    <3>1. ASSUME NEW j \in 1..Len(P), NEW k \in 1..Len(P), j < k, y \in Says(P[j]), x \in Says(P[k]) PROVE FALSE
      <4>1. y = from + j - 1 /\ x = from + k - 1
        BY <1>6, <3>1
      <4> QED
        BY <1>7, <1>12, <3>1, <4>1
    <3> QED
      BY <3>1
  <2> QED
    BY <1>2, <1>6, <1>8, <2>1, <2>2, JoinedFollows
<1> QED
  BY <1>5, <1>9, <1>10, <1>11, <1>12

-----------------------------------------------------------------------------
(* What a statement is said to be.                                          *)

Script == {s \in Seq([op : STRING, to : Nat]) : Len(s) >= 1 /\ \A i \in 1..Len(s) : s[i].to <= Len(s)}

LEMMA ScriptIs ==
  ASSUME NEW s \in Script
  PROVE  /\ Len(s) \in Nat /\ Len(s) >= 1 /\ DOMAIN s = 1..Len(s)
         /\ \A i \in 1..Len(s) : s[i].op \in STRING /\ s[i].to \in 0..Len(s)
<1>1. s \in Seq([op : STRING, to : Nat]) /\ Len(s) >= 1 /\ \A i \in 1..Len(s) : s[i].to <= Len(s)
  BY DEF Script
<1>2. Len(s) \in Nat /\ DOMAIN s = 1..Len(s)
  BY <1>1, LenProperties
<1>3. \A i \in 1..Len(s) : s[i] \in [op : STRING, to : Nat]
  BY <1>1, ElementOfSeq
<1>4. \A r \in [op : STRING, to : Nat] : r.op \in STRING /\ r.to \in Nat
  OBVIOUS
<1>5. ASSUME NEW i \in 1..Len(s) PROVE s[i].op \in STRING /\ s[i].to \in 0..Len(s)
  <2>1. s[i].op \in STRING /\ s[i].to \in Nat /\ s[i].to <= Len(s)
    BY <1>1, <1>3, <1>4
  <2> QED
    BY <1>2, <2>1
<1> QED
  BY <1>1, <1>2, <1>5

LEMMA NothingIsText == <<>> \in BodyText /\ Bodies!OnlyOnce(<<>>) /\ Says(<<>>) = {}
BY DEF BodyText, Bodies!OnlyOnce, Says

LEMMA ItemIsText ==
  ASSUME NEW kind \in {"line", "open", "else", "close", "label"}, NEW i \in Int
  PROVE  /\ <<<<kind, i>>>> \in BodyText /\ Bodies!OnlyOnce(<<<<kind, i>>>>)
         /\ Says(<<<<kind, i>>>>) = IF kind = "line" THEN {i} ELSE {}
<1>1. <<kind, i>> \in Item
  BY DEF Item
<1>2. <<<<kind, i>>>> \in BodyText /\ DOMAIN <<<<kind, i>>>> = 1..1
  BY <1>1 DEF BodyText
<1>3. \A j \in 1..1 : j = 1
  OBVIOUS
<1> QED
  BY <1>2, <1>3 DEF Bodies!OnlyOnce, Says

LEMMA LineIsOwn ==
  ASSUME NEW s, NEW i \in Int
  PROVE  /\ Bodies!LineCpp(s, i) \in BodyText /\ Bodies!OnlyOnce(Bodies!LineCpp(s, i)) /\ Says(Bodies!LineCpp(s, i)) \subseteq {i}
         /\ s[i].op \in {"stmt", "let"} => Says(Bodies!LineCpp(s, i)) = {i}
<1> DEFINE L == Bodies!LineCpp(s, i)
<1>1. L = <<>> \/ \E kind \in {"line", "open", "close"} : L = <<<<kind, i>>>>
  BY Zenon DEF Bodies!LineCpp
<1>2. s[i].op \in {"stmt", "let"} => L = <<<<"line", i>>>>
  BY DEF Bodies!LineCpp
<1> HIDE DEF L
<1>3. L \in BodyText /\ Bodies!OnlyOnce(L) /\ Says(L) \subseteq {i}
  <2>1. CASE L = <<>>
    BY <2>1, NothingIsText
  <2>2. ASSUME NEW kind \in {"line", "open", "close"}, L = <<<<kind, i>>>> PROVE L \in BodyText /\ Bodies!OnlyOnce(L) /\ Says(L) \subseteq {i}
    BY <2>2, ItemIsText
  <2> QED
    BY <1>1, <2>1, <2>2
<1>4. s[i].op \in {"stmt", "let"} => Says(L) = {i}
  BY <1>2, ItemIsText
<1> QED
  BY <1>3, <1>4 DEF L

LEMMA PlainIsOwn ==
  ASSUME NEW s, NEW i \in Int
  PROVE  Bodies!PlainLine(s, i) \in BodyText /\ Bodies!OnlyOnce(Bodies!PlainLine(s, i)) /\ Says(Bodies!PlainLine(s, i)) \subseteq {i}
<1>1. Bodies!PlainLine(s, i) = <<>> \/ Bodies!PlainLine(s, i) = <<<<"line", i>>>>
  BY DEF Bodies!PlainLine
<1>2. CASE Bodies!PlainLine(s, i) = <<>>
  BY <1>2, NothingIsText
<1>3. CASE Bodies!PlainLine(s, i) = <<<<"line", i>>>>
  BY <1>3, ItemIsText
<1> QED
  BY <1>1, <1>2, <1>3

LEMMA LabelsSayNothing ==
  ASSUME NEW s, Len(s) \in Nat, NEW i
  PROVE  Bodies!LabelsBefore(s, i) \in BodyText /\ Bodies!OnlyOnce(Bodies!LabelsBefore(s, i)) /\ Says(Bodies!LabelsBefore(s, i)) = {}
<1> DEFINE Label(k) == IF k - 1 \in Bodies!JumpTargets(s) /\ Bodies!LabelPlace(s, k - 1) = i THEN <<<<"label", k - 1>>>> ELSE <<>>
           P == [k \in 1..(Len(s) + 1) |-> Label(k)]
<1>1. ASSUME NEW k \in 1..(Len(s) + 1)
      PROVE  Label(k) \in BodyText /\ Bodies!OnlyOnce(Label(k)) /\ Says(Label(k)) = {}
  <2>1. k - 1 \in Int
    OBVIOUS
  <2>2. Label(k) = <<<<"label", k - 1>>>> \/ Label(k) = <<>>
    OBVIOUS
  <2> HIDE DEF Label
  <2>3. CASE Label(k) = <<<<"label", k - 1>>>>
    BY <2>1, <2>3, ItemIsText
  <2>4. CASE Label(k) = <<>>
    BY <2>4, NothingIsText
  <2> QED
    BY <2>2, <2>3, <2>4
<1>2. Bodies!LabelsBefore(s, i) = Bodies!Joined(P)
  BY Zenon DEF Bodies!LabelsBefore
<1> HIDE DEF Label
<1>3. P \in Seq(BodyText) /\ Len(P) = Len(s) + 1 /\ \A k \in 1..(Len(s) + 1) : P[k] = Label(k)
  BY <1>1, IsASeq
<1> HIDE DEF P
<1>4. \A k \in 1..Len(P) : Bodies!OnlyOnce(P[k]) /\ Says(P[k]) = {}
  BY <1>1, <1>3
<1>5. Apart(P)
  BY <1>4 DEF Apart
<1>6. /\ Bodies!Joined(P) \in BodyText /\ Bodies!OnlyOnce(Bodies!Joined(P))
      /\ Says(Bodies!Joined(P)) = UNION {Says(P[k]) : k \in 1..Len(P)}
  BY <1>3, <1>4, <1>5, JoinedOnce
<1>7. UNION {Says(P[k]) : k \in 1..Len(P)} = {}
  BY <1>4
<1> QED
  BY <1>2, <1>6, <1>7

LEMMA LoopLineIsOwn ==
  ASSUME NEW s, NEW i \in Int
  PROVE  /\ Bodies!LoopLine(s, i) \in BodyText /\ Bodies!OnlyOnce(Bodies!LoopLine(s, i)) /\ Says(Bodies!LoopLine(s, i)) \subseteq {i}
         /\ s[i].op \in {"stmt", "let"} => Says(Bodies!LoopLine(s, i)) = {i}
<1> DEFINE a == IF i \in Bodies!JumpTargets(s) THEN <<<<"label", i>>>> ELSE <<>>
<1>1. a \in BodyText /\ Bodies!OnlyOnce(a) /\ Says(a) = {}
  BY NothingIsText, ItemIsText
<1>2. Bodies!LoopLine(s, i) = a \o Bodies!LineCpp(s, i)
  BY Zenon DEF Bodies!LoopLine
<1> HIDE DEF a
<1>3. Bodies!LineCpp(s, i) \in BodyText /\ Bodies!OnlyOnce(Bodies!LineCpp(s, i)) /\ Says(a) \cap Says(Bodies!LineCpp(s, i)) = {}
  BY <1>1, LineIsOwn
<1>4. /\ a \o Bodies!LineCpp(s, i) \in BodyText /\ Bodies!OnlyOnce(a \o Bodies!LineCpp(s, i))
      /\ Says(a \o Bodies!LineCpp(s, i)) = Says(a) \cup Says(Bodies!LineCpp(s, i))
  BY <1>1, <1>3, OnceJoined
<1> QED
  BY <1>1, <1>2, <1>4, LineIsOwn

\* A label or none of them in front of a line that says at most its number.
LEMMA LabelledIsOwn ==
  ASSUME NEW s, Len(s) \in Nat, NEW i \in Int, NEW line \in BodyText, Bodies!OnlyOnce(line), Says(line) \subseteq {i}
  PROVE  /\ Bodies!LabelsBefore(s, i) \o line \in BodyText /\ Bodies!OnlyOnce(Bodies!LabelsBefore(s, i) \o line)
         /\ Says(Bodies!LabelsBefore(s, i) \o line) \subseteq {i}
<1>1. Says(Bodies!LabelsBefore(s, i)) = {} /\ Says(Bodies!LabelsBefore(s, i)) \cap Says(line) = {}
  BY LabelsSayNothing
<1> QED
  BY <1>1, LabelsSayNothing, OnceJoined

LEMMA TextsOfLines ==
  ASSUME NEW s \in Script
  PROVE  \A text \in {[j \in DOMAIN s |-> Bodies!LineCpp(s, j)], [j \in DOMAIN s |-> Bodies!LoopLine(s, j)],
                      [j \in DOMAIN s |-> Bodies!PlainLine(s, j)],
                      [j \in DOMAIN s |-> Bodies!LabelsBefore(s, j) \o Bodies!PlainLine(s, j)]} :
           text \in Seq(BodyText) /\ OwnLines(text) /\ Len(text) = Len(s)
<1>0. Len(s) \in Nat /\ DOMAIN s = 1..Len(s)
  BY ScriptIs
<1>1. ASSUME NEW f, f = [j \in 1..Len(s) |-> f[j]],
             \A j \in 1..Len(s) : f[j] \in BodyText /\ Bodies!OnlyOnce(f[j]) /\ Says(f[j]) \subseteq {j}
      PROVE  f \in Seq(BodyText) /\ OwnLines(f) /\ Len(f) = Len(s)
  <2>1. f \in [1..Len(s) -> BodyText] /\ DOMAIN f = 1..Len(s)
    BY <1>1
  <2> QED
    BY <1>0, <1>1, <2>1 DEF OwnLines
<1>2. \A j \in 1..Len(s) : j \in Int
  BY <1>0
<1>3. \A j \in 1..Len(s) : /\ Bodies!LabelsBefore(s, j) \o Bodies!PlainLine(s, j) \in BodyText
                           /\ Bodies!OnlyOnce(Bodies!LabelsBefore(s, j) \o Bodies!PlainLine(s, j))
                           /\ Says(Bodies!LabelsBefore(s, j) \o Bodies!PlainLine(s, j)) \subseteq {j}
  BY <1>0, <1>2, PlainIsOwn, LabelledIsOwn
<1>4. ASSUME NEW f, f = [j \in DOMAIN s |-> Bodies!LineCpp(s, j)] PROVE f \in Seq(BodyText) /\ OwnLines(f) /\ Len(f) = Len(s)
  BY <1>0, <1>1, <1>2, <1>4, LineIsOwn
<1>5. ASSUME NEW f, f = [j \in DOMAIN s |-> Bodies!LoopLine(s, j)] PROVE f \in Seq(BodyText) /\ OwnLines(f) /\ Len(f) = Len(s)
  BY <1>0, <1>1, <1>2, <1>5, LoopLineIsOwn
<1>6. ASSUME NEW f, f = [j \in DOMAIN s |-> Bodies!PlainLine(s, j)] PROVE f \in Seq(BodyText) /\ OwnLines(f) /\ Len(f) = Len(s)
  BY <1>0, <1>1, <1>2, <1>6, PlainIsOwn
<1>7. ASSUME NEW f, f = [j \in DOMAIN s |-> Bodies!LabelsBefore(s, j) \o Bodies!PlainLine(s, j)]
      PROVE  f \in Seq(BodyText) /\ OwnLines(f) /\ Len(f) = Len(s)
  BY <1>0, <1>1, <1>3, <1>7
<1> QED
  BY <1>4, <1>5, <1>6, <1>7

-----------------------------------------------------------------------------
(* The patterns, and how far they reach.                                    *)

LEMMA LeastOfScript ==
  ASSUME NEW S, S # {}, NEW n \in Nat, S \subseteq 1..n
  PROVE  Bodies!Min(S) \in S /\ \A x \in S : Bodies!Min(S) <= x
<1>1. IsFiniteSet(S) /\ S \subseteq Int
  <2>1. IsFiniteSet(1..n)
    BY FS_Interval
  <2>2. IsFiniteSet(S)
    BY <2>1, FS_Subset
  <2>3. S \subseteq Int
    BY ONLY S \subseteq 1..n, n \in Nat
  <2> QED
    BY <2>2, <2>3
<1>2. Min(S) \in S /\ \A x \in S : Min(S) <= x
  BY <1>1, MinIsLeast
<1>3. Bodies!Min(S) = Min(S)
  BY Zenon DEF Bodies!Min, Min
<1> QED
  BY <1>2, <1>3

LEMMA FirstInIsFound ==
  ASSUME NEW n \in Nat, NEW S, S \subseteq 1..n
  PROVE  Bodies!FirstIn(S) = 0 \/ Bodies!FirstIn(S) \in S
<1>1. Bodies!FirstIn(S) = IF S = {} THEN 0 ELSE Bodies!Min(S)
  BY DEF Bodies!FirstIn
<1> QED
  BY <1>1, LeastOfScript

Kinds == {"for", "while", "push_pop", "if", "if_else", "switch"}
Spans(s, i, p) ==
  /\ p.start = i /\ p.kind \in Kinds /\ p.last \in 0..Len(s)
  /\ p.kind = "for" => /\ s[i].op = "ifnot" /\ p.from = i + 1 /\ p.inc \in (i + 2)..(p.last - 1) /\ p.upto = p.inc - 1
  /\ p.kind = "while" => /\ s[i].op = "ifnot" /\ p.from = i + 1 /\ p.upto = p.last - 1 /\ p.last > i
  /\ p.kind = "push_pop" => /\ s[i].op = "push" /\ p = Bodies!DetectPushPop(s, i)
                            /\ p.from \in (i + 2)..(p.other - 1) /\ p.upto = p.other - 2 /\ p.other \in 1..(Len(s) + 1)
  /\ p.kind = "if" => s[i].op = "ifnot" /\ p.from = i + 1 /\ p.upto = p.last /\ s[i].to # 0 /\ p.last = s[i].to - 1
  /\ p.kind = "if_else" => /\ s[i].op = "ifnot" /\ p.from = i + 1 /\ p.upto \in i..(p.other - 2) /\ p.other \in 1..p.last
  /\ p.kind = "switch" => s[i].op = "switch" /\ p.last = i

LEMMA WhileSpans ==
  ASSUME NEW s \in Script, NEW i \in 1..Len(s), Bodies!WhileEnd(s, i) # 0
  PROVE  s[i].op = "ifnot" /\ Bodies!WhileEnd(s, i) \in (i + 1)..Len(s)
<1> DEFINE S == {j \in (i + 1)..Len(s) : Bodies!IsJump(s[j]) /\ s[j].to \in 1..i}
<1>1. Bodies!WhileEnd(s, i) = IF s[i].op # "ifnot" THEN 0 ELSE Bodies!FirstIn(S)
  BY Zenon DEF Bodies!WhileEnd
<1>2. Len(s) \in Nat /\ S \subseteq 1..Len(s) /\ S \subseteq (i + 1)..Len(s)
  BY ScriptIs
<1> HIDE DEF S
<1> QED
  BY <1>1, <1>2, FirstInIsFound

LEMMA WhileIsSpan ==
  ASSUME NEW s \in Script, NEW i \in 1..Len(s), NEW p, p = Bodies!DetectWhile(s, i), p # Bodies!None
  PROVE  Spans(s, i, p)
<1> DEFINE w == Bodies!WhileEnd(s, i)
<1>1. p = IF w = 0 THEN Bodies!None ELSE [kind |-> "while", start |-> i, from |-> i + 1, upto |-> w - 1, last |-> w]
  BY Zenon DEF Bodies!DetectWhile
<1>2. w # 0
  BY <1>1
<1>3. s[i].op = "ifnot" /\ w \in (i + 1)..Len(s) /\ Len(s) \in Nat
  BY <1>2, WhileSpans, ScriptIs
<1> HIDE DEF w
<1> QED
  BY <1>1, <1>2, <1>3 DEF Spans, Kinds

LEMMA ForIsSpan ==
  ASSUME NEW s \in Script, NEW i \in 1..Len(s), NEW p, p = Bodies!DetectFor(s, i), p # Bodies!None
  PROVE  Spans(s, i, p)
<1> DEFINE w == Bodies!WhileEnd(s, i)
           S == {k \in (i + 1)..(w - 1) : \A m \in k..(w - 2) : s[m].op = "let"}
           inc == Bodies!Min(S)
<1>1. p = IF w <= i + 1 THEN Bodies!None
          ELSE IF s[inc].op # "let" \/ inc = i + 1 THEN Bodies!None
          ELSE [kind |-> "for", start |-> i, from |-> i + 1, upto |-> inc - 1, inc |-> inc, last |-> w]
  BY Zenon DEF Bodies!DetectFor
<1>2. ~(w <= i + 1) /\ inc # i + 1
  BY <1>1
<1>3. Len(s) \in Nat /\ (w = 0 \/ (s[i].op = "ifnot" /\ w \in (i + 1)..Len(s)))
  BY WhileSpans, ScriptIs
<1>4. s[i].op = "ifnot" /\ w \in (i + 2)..Len(s)
  BY <1>2, <1>3
<1>5. S \subseteq 1..Len(s) /\ S \subseteq (i + 1)..(w - 1) /\ w - 1 \in S
  <2>1. w - 1 \in (i + 1)..(w - 1) /\ (w - 1)..(w - 2) = {}
    BY <1>4
  <2> QED
    BY <1>3, <1>4, <2>1
<1>6. inc \in S
  BY <1>3, <1>5, LeastOfScript
<1>7. inc \in (i + 2)..(w - 1)
  BY <1>2, <1>4, <1>5, <1>6
<1> HIDE DEF w, inc
<1> QED
  BY <1>1, <1>2, <1>3, <1>4, <1>7 DEF Spans, Kinds

LEMMA PushPopIsSpan ==
  ASSUME NEW s \in Script, NEW i \in 1..Len(s), NEW p, p = Bodies!DetectPushPop(s, i), p # Bodies!None
  PROVE  Spans(s, i, p)
<1> DEFINE near == (i + 1)..Bodies!Min({i + 3, Len(s)})
           Stops(j) == s[j].op \in {"push", "end"}
           T == {k \in near : s[k].op = "ifnot" \/ Stops(k)}
           test == Bodies!FirstIn(T)
           U == {k \in (test + 1)..Len(s) : s[k].op = "pop" \/ Stops(k)}
           pop == Bodies!FirstIn(U)
<1>1. p = IF s[i].op # "push" \/ test = 0 THEN Bodies!None
          ELSE IF s[test].op # "ifnot" \/ pop = 0 THEN Bodies!None
          ELSE IF s[pop].op # "pop" THEN Bodies!None
          ELSE [kind |-> "push_pop", start |-> i, from |-> test + 1, upto |-> pop - 1, other |-> pop + 1,
                last |-> IF s[i].to = 0 THEN pop ELSE s[i].to]
  BY ZenonT(30) DEF Bodies!DetectPushPop
<1>2. s[i].op = "push" /\ test # 0 /\ pop # 0
      /\ p = [kind |-> "push_pop", start |-> i, from |-> test + 1, upto |-> pop - 1, other |-> pop + 1,
              last |-> IF s[i].to = 0 THEN pop ELSE s[i].to]
  BY <1>1, ZenonT(30)
<1>3. Len(s) \in Nat /\ s[i].to \in 0..Len(s)
  BY ScriptIs
<1>4. T \subseteq (i + 1)..Len(s)
  <2>1. Bodies!Min({i + 3, Len(s)}) \in {i + 3, Len(s)} /\ Bodies!Min({i + 3, Len(s)}) <= Len(s)
    <3>1. {i + 3, Len(s)} \subseteq 1..(Len(s) + i + 3) /\ Len(s) + i + 3 \in Nat /\ {i + 3, Len(s)} # {}
      BY <1>3
    <3> QED
      BY <3>1, LeastOfScript
  <2> QED
    BY <1>3, <2>1
<1>5. test \in (i + 1)..Len(s)
  <2> HIDE DEF T
  <2>1. T \subseteq 1..Len(s)
    BY <1>3, <1>4
  <2> QED
    BY <1>2, <1>3, <1>4, <2>1, FirstInIsFound
<1> HIDE DEF test
<1>6. pop \in (test + 1)..Len(s)
  <2>1. U \subseteq 1..Len(s) /\ U \subseteq (test + 1)..Len(s)
    BY <1>3, <1>5
  <2> HIDE DEF U
  <2> QED
    BY <1>2, <1>3, <2>1, FirstInIsFound
<1> HIDE DEF pop
<1>7. /\ p.kind = "push_pop" /\ p.start = i /\ p.from = test + 1 /\ p.upto = pop - 1 /\ p.other = pop + 1
      /\ p.last = IF s[i].to = 0 THEN pop ELSE s[i].to
  BY <1>2
<1>8. p.last \in 0..Len(s) /\ p.from \in (i + 2)..(p.other - 1) /\ p.upto = p.other - 2 /\ p.other \in 1..(Len(s) + 1)
  BY <1>3, <1>5, <1>6, <1>7
<1>9. p.kind \in Kinds /\ p.kind \notin {"for", "while", "if", "if_else", "switch"} /\ s[i].op = "push"
  BY <1>2, <1>7 DEF Kinds
<1> QED
  BY <1>7, <1>8, <1>9 DEF Spans

LEMMA IfElseIsSpan ==
  ASSUME NEW s \in Script, NEW i \in 1..Len(s), NEW p, p = Bodies!DetectIfElse(s, i), p # Bodies!None
  PROVE  Spans(s, i, p)
<1> DEFINE false == s[i].to
           L == {j \in (i + 1)..(false - 1) : Bodies!IsJump(s[j]) /\ s[j].to >= false}
           leave == Bodies!FirstIn(L)
<1>1. p = IF s[i].op # "ifnot" \/ false = 0 THEN Bodies!None
          ELSE IF leave = 0 THEN [kind |-> "if", start |-> i, from |-> i + 1, upto |-> false - 1, last |-> false - 1]
          ELSE [kind |-> "if_else", start |-> i, from |-> i + 1, upto |-> leave - 1, other |-> false, last |-> s[leave].to]
  BY Zenon DEF Bodies!DetectIfElse
<1>2. Len(s) \in Nat /\ false \in 0..Len(s) /\ s[i].op = "ifnot" /\ false # 0
  BY <1>1, ScriptIs
<1>3. L \subseteq 1..Len(s) /\ L \subseteq (i + 1)..(false - 1)
  BY <1>2
<1>4. leave = 0 \/ leave \in L
  <2> HIDE DEF L
  <2> QED
    BY <1>2, <1>3, FirstInIsFound
<1>5. CASE leave = 0
  <2>1. p = [kind |-> "if", start |-> i, from |-> i + 1, upto |-> false - 1, last |-> false - 1]
    BY <1>1, <1>2, <1>5
  <2>2. /\ p.kind = "if" /\ p.start = i /\ p.from = i + 1 /\ p.upto = false - 1 /\ p.last = false - 1
    BY <2>1
  <2> HIDE DEF leave
  <2>3. p.last \in 0..Len(s) /\ p.upto = p.last /\ s[i].to # 0 /\ p.last = s[i].to - 1
    BY <1>2, <2>2
  <2> QED
    BY <1>2, <2>2, <2>3 DEF Spans, Kinds
<1>6. CASE leave # 0
  <2>1. p = [kind |-> "if_else", start |-> i, from |-> i + 1, upto |-> leave - 1, other |-> false, last |-> s[leave].to]
    BY <1>1, <1>2, <1>6
  <2>2. /\ p.kind = "if_else" /\ p.start = i /\ p.from = i + 1 /\ p.upto = leave - 1 /\ p.other = false /\ p.last = s[leave].to
    BY <2>1
  <2>3. leave \in (i + 1)..(false - 1) /\ s[leave].to >= false /\ leave \in 1..Len(s)
    BY <1>3, <1>4, <1>6
  <2>4. s[leave].to \in 0..Len(s)
    BY <2>3, ScriptIs
  <2> HIDE DEF leave
  <2>5. p.last \in 0..Len(s) /\ p.upto \in i..(p.other - 2) /\ p.other \in 1..p.last
    BY <1>2, <2>2, <2>3, <2>4
  <2> QED
    BY <1>2, <2>2, <2>5 DEF Spans, Kinds
<1> QED
  BY <1>5, <1>6

LEMMA PatternSpans ==
  ASSUME NEW s \in Script, NEW i \in 1..Len(s), NEW p, p = Bodies!DetectPattern(s, i), p # Bodies!None
  PROVE  Spans(s, i, p)
<1> DEFINE tried == <<Bodies!DetectFor(s, i), Bodies!DetectWhile(s, i), Bodies!DetectPushPop(s, i),
                      Bodies!DetectIfElse(s, i), Bodies!DetectSwitch(s, i)>>
           found == {k \in DOMAIN tried : tried[k] # Bodies!None}
<1>1. p = IF found = {} THEN Bodies!None ELSE tried[Bodies!Min(found)]
  BY Zenon DEF Bodies!DetectPattern
<1>2. found \subseteq 1..5
  OBVIOUS
<1>3. PICK k \in found : p = tried[k]
  <2>1. found # {} /\ p = tried[Bodies!Min(found)]
    BY <1>1
  <2> HIDE DEF found
  <2>2. Bodies!Min(found) \in found
    BY <1>2, <2>1, LeastOfScript
  <2> QED
    BY <2>1, <2>2
<1>4. k \in 1..5 /\ p # Bodies!None
  BY <1>2, <1>3
<1>5. \/ p = Bodies!DetectFor(s, i) \/ p = Bodies!DetectWhile(s, i) \/ p = Bodies!DetectPushPop(s, i)
      \/ p = Bodies!DetectIfElse(s, i) \/ p = Bodies!DetectSwitch(s, i)
  <2>1. /\ tried[1] = Bodies!DetectFor(s, i) /\ tried[2] = Bodies!DetectWhile(s, i) /\ tried[3] = Bodies!DetectPushPop(s, i)
        /\ tried[4] = Bodies!DetectIfElse(s, i) /\ tried[5] = Bodies!DetectSwitch(s, i)
    OBVIOUS
  <2>2. k = 1 \/ k = 2 \/ k = 3 \/ k = 4 \/ k = 5
    BY ONLY k \in 1..5
  <2> HIDE DEF tried
  <2> QED
    BY <1>3, <2>1, <2>2
<1>6. CASE p = Bodies!DetectSwitch(s, i)
  <2>1. s[i].op = "switch" /\ p = [kind |-> "switch", start |-> i, last |-> i]
    BY <1>4, <1>6 DEF Bodies!DetectSwitch
  <2>2. i \in 0..Len(s)
    BY ScriptIs
  <2> QED
    BY <2>1, <2>2 DEF Spans, Kinds
<1> QED
  BY <1>4, <1>5, <1>6, ForIsSpan, WhileIsSpan, PushPopIsSpan, IfElseIsSpan

-----------------------------------------------------------------------------
(* The block of a pattern says no statement twice, and none in front of it   *)
(* or behind its end.                                                       *)

\* Two texts that share no statement, with a brace or two between them.
LEMMA BracesSayNothing ==
  ASSUME NEW i \in Int, NEW a \in BodyText, NEW b \in BodyText, Bodies!OnlyOnce(a), Bodies!OnlyOnce(b), Says(a) \cap Says(b) = {},
         NEW between \in BodyText, Bodies!OnlyOnce(between), Says(between) = {}
  PROVE  /\ a \o between \o b \in BodyText /\ Bodies!OnlyOnce(a \o between \o b)
         /\ Says(a \o between \o b) = Says(a) \cup Says(b)
<1>1. /\ a \o between \in BodyText /\ Bodies!OnlyOnce(a \o between) /\ Says(a \o between) = Says(a)
  BY OnceJoined
<1> QED
  BY <1>1, OnceJoined

LEMMA BlockIsOnce ==
  ASSUME NEW i \in Int, NEW head \in BodyText, NEW body \in BodyText, Bodies!OnlyOnce(head), Bodies!OnlyOnce(body),
         Says(head) \cap Says(body) = {}
  PROVE  LET out == head \o <<<<"open", i>>>> \o body \o <<<<"close", i>>>>
         IN out \in BodyText /\ Bodies!OnlyOnce(out) /\ Says(out) = Says(head) \cup Says(body)
<1> DEFINE open == <<<<"open", i>>>>
           close == <<<<"close", i>>>>
<1>1. /\ open \in BodyText /\ Bodies!OnlyOnce(open) /\ Says(open) = {}
      /\ close \in BodyText /\ Bodies!OnlyOnce(close) /\ Says(close) = {}
  BY ItemIsText
<1> HIDE DEF open, close
<1>2. /\ head \o open \o body \in BodyText /\ Bodies!OnlyOnce(head \o open \o body)
      /\ Says(head \o open \o body) = Says(head) \cup Says(body)
  BY <1>1, BracesSayNothing
<1>3. /\ head \o open \o body \o close \in BodyText /\ Bodies!OnlyOnce(head \o open \o body \o close)
      /\ Says(head \o open \o body \o close) = Says(head) \cup Says(body)
  BY <1>1, <1>2, OnceJoined
<1> QED
  BY <1>3 DEF open, close

LEMMA ThreeItems ==
  ASSUME NEW i \in Int
  PROVE  /\ LET Else == <<<<"close", i>>, <<"else", i>>, <<"open", i>>>>
            IN Else \in BodyText /\ Bodies!OnlyOnce(Else) /\ Says(Else) = {}
         /\ LET all == <<<<"open", i>>, <<"line", i>>, <<"close", i>>>>
            IN all \in BodyText /\ Bodies!OnlyOnce(all) /\ Says(all) = {i}
<1>1. \A kind \in {"line", "open", "else", "close"} : <<kind, i>> \in Item
  BY DEF Item
<1>2. ASSUME NEW a \in Item, NEW b \in Item, NEW d \in Item
      PROVE  <<a, b, d>> \in BodyText /\ DOMAIN <<a, b, d>> = {1, 2, 3}
  BY DEF BodyText
<1> DEFINE Else == <<<<"close", i>>, <<"else", i>>, <<"open", i>>>>
           all == <<<<"open", i>>, <<"line", i>>, <<"close", i>>>>
<1>3. Else \in BodyText /\ DOMAIN Else = {1, 2, 3} /\ all \in BodyText /\ DOMAIN all = {1, 2, 3}
  BY <1>1, <1>2
<1>4. /\ Else[1] = <<"close", i>> /\ Else[2] = <<"else", i>> /\ Else[3] = <<"open", i>>
      /\ all[1] = <<"open", i>> /\ all[2] = <<"line", i>> /\ all[3] = <<"close", i>>
  OBVIOUS
<1> HIDE DEF Else, all
<1>5. \A j \in DOMAIN Else : Else[j][1] # "line"
  BY <1>3, <1>4
<1>6. \A j \in DOMAIN all : IF j = 2 THEN all[j] = <<"line", i>> ELSE all[j][1] # "line"
  BY <1>3, <1>4
<1>7. Bodies!OnlyOnce(Else) /\ Says(Else) = {}
  BY <1>5 DEF Bodies!OnlyOnce, Says
<1>8. Bodies!OnlyOnce(all)
  BY <1>6 DEF Bodies!OnlyOnce
<1>9. Says(all) = {i}
  BY <1>3, <1>6 DEF Says
<1> QED
  BY <1>3, <1>7, <1>8, <1>9 DEF Else, all

LEMMA BlockSays ==
  ASSUME NEW s \in Script, NEW i \in 1..Len(s), NEW p, Spans(s, i, p), p.kind = "push_pop" => p.last >= p.other - 1
  PROVE  LET out == Bodies!EmitStructuredBlock(s, p)
         IN out \in BodyText /\ Bodies!OnlyOnce(out) /\ Says(out) \subseteq i..p.last
<1> DEFINE plain == [j \in DOMAIN s |-> Bodies!LineCpp(s, j)]
           looped == [j \in DOMAIN s |-> Bodies!LoopLine(s, j)]
           Else == <<<<"close", i>>, <<"else", i>>, <<"open", i>>>>
           all == <<<<"open", i>>, <<"line", i>>, <<"close", i>>>>
           Block(head, body) == head \o <<<<"open", i>>>> \o body \o <<<<"close", i>>>>
           Fine(out) == out \in BodyText /\ Bodies!OnlyOnce(out) /\ Says(out) \subseteq i..p.last
<1>1. p.start = i /\ p.kind \in Kinds /\ p.last \in 0..Len(s) /\ Len(s) \in Nat /\ i \in Int
  BY ScriptIs DEF Spans
<1>2. Bodies!EmitStructuredBlock(s, p) =
      CASE p.kind = "for" -> Block(Bodies!Lines(plain, p.inc, p.last - 1), Bodies!Lines(looped, p.from, p.upto))
        [] p.kind = "while" -> Block(<<>>, Bodies!Lines(looped, p.from, p.upto))
        [] p.kind \in {"if_else", "push_pop"} ->
             Block(<<>>, Bodies!Lines(plain, p.from, p.upto) \o Else \o Bodies!Lines(plain, p.other, p.last))
        [] p.kind = "if" -> Block(<<>>, Bodies!Lines(plain, p.from, p.upto))
        [] p.kind = "switch" -> all
  BY <1>1, Zenon DEF Bodies!EmitStructuredBlock
<1>3. plain \in Seq(BodyText) /\ OwnLines(plain) /\ Len(plain) = Len(s) /\ looped \in Seq(BodyText) /\ OwnLines(looped) /\ Len(looped) = Len(s)
  BY TextsOfLines
<1>4. /\ Else \in BodyText /\ Bodies!OnlyOnce(Else) /\ Says(Else) = {}
      /\ all \in BodyText /\ Bodies!OnlyOnce(all) /\ Says(all) = {i}
  BY <1>1, ThreeItems
<1>5. ASSUME NEW head \in BodyText, NEW body \in BodyText, Bodies!OnlyOnce(head), Bodies!OnlyOnce(body), Says(head) \cap Says(body) = {}
      PROVE  Block(head, body) \in BodyText /\ Bodies!OnlyOnce(Block(head, body)) /\ Says(Block(head, body)) = Says(head) \cup Says(body)
  BY <1>1, <1>5, BlockIsOnce
<1> HIDE DEF plain, looped, Else, all, Block
<1>6. ASSUME NEW text \in {plain, looped}, NEW from \in Nat \ {0}, NEW upto \in Int, upto <= Len(s)
      PROVE  /\ Bodies!Lines(text, from, upto) \in BodyText /\ Bodies!OnlyOnce(Bodies!Lines(text, from, upto))
             /\ Says(Bodies!Lines(text, from, upto)) \subseteq from..upto
  BY <1>3, <1>6, LinesAreOwn
<1>7. CASE p.kind = "for"
  <2>1. p.from = i + 1 /\ p.inc \in (i + 2)..(p.last - 1) /\ p.upto = p.inc - 1
    BY <1>7 DEF Spans
  <2>2. p.inc \in Nat \ {0} /\ p.last - 1 \in Int /\ p.last - 1 <= Len(s) /\ p.from \in Nat \ {0} /\ p.upto \in Int /\ p.upto <= Len(s)
    BY <1>1, <2>1
  <2>3. p.inc..(p.last - 1) \cap p.from..p.upto = {} /\ p.inc..(p.last - 1) \cup p.from..p.upto \subseteq i..p.last
    BY <1>1, <2>1
  <2> DEFINE a == Bodies!Lines(plain, p.inc, p.last - 1)
             b == Bodies!Lines(looped, p.from, p.upto)
  <2>4. /\ a \in BodyText /\ Bodies!OnlyOnce(a) /\ Says(a) \subseteq p.inc..(p.last - 1)
        /\ b \in BodyText /\ Bodies!OnlyOnce(b) /\ Says(b) \subseteq p.from..p.upto
    BY <1>6, <2>2
  <2>5. Bodies!EmitStructuredBlock(s, p) = Block(a, b)
    BY <1>2, <1>7
  <2> HIDE DEF a, b
  <2>6. Fine(Block(a, b))
    BY <1>5, <2>3, <2>4
  <2> QED
    BY <2>5, <2>6
<1>8. ASSUME NEW body \in BodyText, Bodies!OnlyOnce(body), Says(body) \subseteq i..p.last PROVE Fine(Block(<<>>, body))
  BY <1>5, <1>8, NothingIsText
<1>9. CASE p.kind = "while"
  <2>1. p.from = i + 1 /\ p.upto = p.last - 1 /\ p.last > i
    BY <1>9 DEF Spans
  <2>2. p.from \in Nat \ {0} /\ p.upto \in Int /\ p.upto <= Len(s) /\ p.from..p.upto \subseteq i..p.last
    BY <1>1, <2>1
  <2>3. Bodies!EmitStructuredBlock(s, p) = Block(<<>>, Bodies!Lines(looped, p.from, p.upto))
    BY <1>2, <1>9
  <2> QED
    BY <1>6, <1>8, <2>2, <2>3
<1>10. CASE p.kind = "if"
  <2>1. p.from = i + 1 /\ p.upto = p.last
    BY <1>10 DEF Spans
  <2>2. p.from \in Nat \ {0} /\ p.upto \in Int /\ p.upto <= Len(s) /\ p.from..p.upto \subseteq i..p.last
    BY <1>1, <2>1
  <2>3. Bodies!EmitStructuredBlock(s, p) = Block(<<>>, Bodies!Lines(plain, p.from, p.upto))
    BY <1>2, <1>10
  <2> QED
    BY <1>6, <1>8, <2>2, <2>3
<1>11. CASE p.kind \in {"if_else", "push_pop"}
  <2>1. p.from \in (i + 1)..(Len(s) + 1) /\ p.other \in 1..(p.last + 1) /\ p.upto \in i..(p.other - 2)
    <3>1. CASE p.kind = "if_else"
      <4>1. p.from = i + 1 /\ p.upto \in i..(p.other - 2) /\ p.other \in 1..p.last
        BY <3>1 DEF Spans
      <4> QED
        BY <1>1, <4>1
    <3>2. CASE p.kind = "push_pop"
      <4>1. p.from \in (i + 2)..(p.other - 1) /\ p.upto = p.other - 2 /\ p.other \in 1..(Len(s) + 1) /\ p.last >= p.other - 1
        BY <3>2 DEF Spans
      <4>2. p.from \in (i + 1)..(Len(s) + 1) /\ p.upto \in i..(p.other - 2)
        BY <1>1, <4>1, SMT
      <4>3. p.other \in 1..(p.last + 1)
        BY <1>1, <4>1
      <4> QED
        BY <4>2, <4>3
    <3> QED
      BY <1>11, <3>1, <3>2
  <2>2. /\ p.from \in Nat \ {0} /\ p.upto \in Int /\ p.upto <= Len(s) /\ p.other \in Nat \ {0} /\ p.last \in Int /\ p.last <= Len(s)
        /\ p.from..p.upto \subseteq i..p.last /\ p.other..p.last \subseteq i..p.last /\ p.from..p.upto \cap p.other..p.last = {}
    <3> DEFINE f == p.from
               u == p.upto
               o == p.other
               l == p.last
               n == Len(s)
    <3>1. /\ f \in Int /\ f > i /\ o \in Int /\ u \in Int /\ u >= i /\ u <= o - 2
          /\ l \in Int /\ o <= l + 1 /\ i \in Int /\ i >= 1 /\ n \in Int /\ l <= n
      BY <1>1, <2>1
    <3> HIDE DEF f, u, o, l, n
    <3>2. /\ f \in Nat \ {0} /\ u <= n /\ o \in Nat \ {0} /\ l >= i
          /\ f..u \subseteq i..l /\ o..l \subseteq i..l /\ f..u \cap o..l = {}
      BY ONLY <3>1
    <3> QED
      BY <3>1, <3>2 DEF f, u, o, l, n
  <2> DEFINE a == Bodies!Lines(plain, p.from, p.upto)
             b == Bodies!Lines(plain, p.other, p.last)
  <2>3. /\ a \in BodyText /\ Bodies!OnlyOnce(a) /\ Says(a) \subseteq p.from..p.upto
        /\ b \in BodyText /\ Bodies!OnlyOnce(b) /\ Says(b) \subseteq p.other..p.last
    BY <1>6, <2>2
  <2>4. Bodies!EmitStructuredBlock(s, p) = Block(<<>>, a \o Else \o b)
    BY <1>2, <1>11
  <2> HIDE DEF a, b
  <2>5. a \o Else \o b \in BodyText /\ Bodies!OnlyOnce(a \o Else \o b) /\ Says(a \o Else \o b) = Says(a) \cup Says(b)
    BY <1>1, <1>4, <2>2, <2>3, BracesSayNothing
  <2> QED
    BY <1>8, <2>2, <2>3, <2>4, <2>5
<1>12. CASE p.kind = "switch"
  <2>1. p.last = i
    BY <1>12 DEF Spans
  <2>2. Bodies!EmitStructuredBlock(s, p) = all
    BY <1>2, <1>12
  <2> QED
    BY <1>1, <1>4, <2>1, <2>2
<1> QED
  BY <1>1, <1>7, <1>9, <1>10, <1>11, <1>12 DEF Kinds

-----------------------------------------------------------------------------
(* The body with structure: one statement after the other.                  *)

Written(s) == [skip : 0..Len(s), out : BodyText]
WrittenOnce(k, st) == Bodies!OnlyOnce(st.out) /\ \A x \in Says(st.out) : x <= k \/ x <= st.skip

\* A turn of the loop says the statement, or the block that starts with it.
LEMMA StatementOnce ==
  ASSUME NEW s \in Script, Bodies!PushesAhead(s), NEW k \in 1..Len(s), NEW st \in Written(s), WrittenOnce(k - 1, st)
  PROVE  Bodies!Statement(s, st, k) \in Written(s) /\ WrittenOnce(k, Bodies!Statement(s, st, k))
<1> DEFINE p == Bodies!DetectPattern(s, k)
           skip == st.skip
           out == st.out
<1>1. /\ Len(s) \in Nat /\ k \in Int /\ DOMAIN s = 1..Len(s) /\ skip \in 0..Len(s) /\ out \in BodyText
      /\ st = [skip |-> skip, out |-> out] /\ Bodies!OnlyOnce(out) /\ \A x \in Says(out) : x \in Int /\ (x <= k - 1 \/ x <= skip)
  BY ScriptIs DEF Written, WrittenOnce, Says
<1>2. Bodies!Statement(s, st, k) =
        CASE k <= skip -> st
          [] k > skip /\ p # Bodies!None -> [skip |-> p.last, out |-> out \o Bodies!EmitStructuredBlock(s, p)]
          [] k > skip /\ p = Bodies!None -> [st EXCEPT !.out = @ \o Bodies!Labelled(s, k)]
  BY Zenon DEF Bodies!Statement
<1> HIDE DEF p, skip, out
<1>3. CASE k <= skip
  <2>1. Bodies!Statement(s, st, k) = st
    BY <1>1, <1>2, <1>3
  <2>2. \A x \in Says(out) : x <= k \/ x <= skip
    BY <1>1
  <2> QED
    BY <1>1, <2>1, <2>2 DEF WrittenOnce, skip, out
<1>4. ASSUME k > skip, NEW last \in 0..Len(s), NEW text \in BodyText, Bodies!OnlyOnce(text), \A x \in Says(text) : x = k \/ x \in k..last
      PROVE  LET next == [skip |-> last, out |-> out \o text] IN next \in Written(s) /\ WrittenOnce(k, next)
  <2>1. Says(out) \cap Says(text) = {}
    <3>1. \A x \in Says(out) : x < k
      BY <1>1, <1>4
    <3>2. \A x \in Says(text) : x >= k
      BY <1>1, <1>4
    <3> QED
      BY <1>1, <3>1, <3>2
  <2>2. out \o text \in BodyText /\ Bodies!OnlyOnce(out \o text) /\ Says(out \o text) = Says(out) \cup Says(text)
    BY <1>1, <1>4, <2>1, OnceJoined
  <2>3. \A x \in Says(out \o text) : x <= k \/ x <= last
    <3>1. \A x \in Says(out) : x <= k
      BY <1>1, <1>4
    <3>2. \A x \in Says(text) : x <= k \/ x <= last
      BY <1>1, <1>4
    <3> QED
      BY <2>2, <3>1, <3>2
  <2>4. [skip |-> last, out |-> out \o text].skip = last /\ [skip |-> last, out |-> out \o text].out = out \o text
    OBVIOUS
  <2> QED
    BY <1>4, <2>2, <2>3, <2>4 DEF Written, WrittenOnce
<1>5. CASE k > skip /\ p # Bodies!None
  <2>1. Spans(s, k, p)
    BY <1>5, PatternSpans DEF p
  <2>2. p.last \in 0..Len(s)
    BY <2>1 DEF Spans
  <2>3. p.kind = "push_pop" => p.last >= p.other - 1
    <3>1. p.kind = "push_pop" => p = Bodies!DetectPushPop(s, k)
      BY <2>1 DEF Spans
    <3>2. LET q == Bodies!DetectPushPop(s, k) IN q = Bodies!None \/ q.last >= q.other - 1
      BY <1>1 DEF Bodies!PushesAhead
    <3> QED
      BY <1>5, <3>1, <3>2
  <2>4. /\ Bodies!EmitStructuredBlock(s, p) \in BodyText /\ Bodies!OnlyOnce(Bodies!EmitStructuredBlock(s, p))
        /\ Says(Bodies!EmitStructuredBlock(s, p)) \subseteq k..p.last
    BY <2>1, <2>3, BlockSays
  <2>5. Bodies!Statement(s, st, k) = [skip |-> p.last, out |-> out \o Bodies!EmitStructuredBlock(s, p)]
    BY <1>1, <1>2, <1>5
  <2> QED
    BY <1>4, <1>5, <2>2, <2>4, <2>5
<1>6. CASE k > skip /\ p = Bodies!None
  <2>1. Bodies!Labelled(s, k) \in BodyText /\ Bodies!OnlyOnce(Bodies!Labelled(s, k)) /\ Says(Bodies!Labelled(s, k)) \subseteq {k}
    <3>1. CASE Bodies!LineCpp(s, k) = <<>>
      BY <3>1, NothingIsText DEF Bodies!Labelled
    <3>2. CASE Bodies!LineCpp(s, k) # <<>>
      <4>1. Bodies!Labelled(s, k) = Bodies!LabelsBefore(s, k) \o Bodies!LineCpp(s, k)
        BY <3>2 DEF Bodies!Labelled
      <4> QED
        BY <1>1, <4>1, LineIsOwn, LabelledIsOwn
    <3> QED
      BY <3>1, <3>2
  <2>2. Bodies!Statement(s, st, k) = [skip |-> skip, out |-> out \o Bodies!Labelled(s, k)]
    <3>1. Bodies!Statement(s, st, k) = [st EXCEPT !.out = @ \o Bodies!Labelled(s, k)]
      BY <1>1, <1>2, <1>6
    <3> QED
      BY <1>1, <3>1
  <2> QED
    BY <1>1, <1>4, <1>6, <2>1, <2>2
<1> QED
  BY <1>1, <1>3, <1>5, <1>6

IsBody(s, g) == g = [i \in 0..Len(s) |-> IF i = 0 THEN [skip |-> 0, out |-> <<>>] ELSE Bodies!Statement(s, g[i - 1], i)]

LEMMA BodyIsOnce ==
  ASSUME NEW s \in Script
  PROVE  Bodies!NothingTwice(s)
<1> SUFFICES ASSUME Bodies!PushesAhead(s) PROVE Bodies!OnlyOnce(Bodies!FunctionBody(s))
  BY DEF Bodies!NothingTwice
<1> DEFINE n == Len(s)
           start == [skip |-> 0, out |-> <<>>]
           h == [x \in (1..n) \X Written(s) |-> Bodies!Statement(s, x[2], x[1])]
           Inv == {x \in (0..n) \X Written(s) : WrittenOnce(x[1], x[2])}
<1>0. n \in Nat
  BY ScriptIs
<1>1. <<0, start>> \in Inv /\ Inv \in SUBSET ((0..n) \X Written(s))
  <2>1. start \in Written(s) /\ start.out = <<>>
    BY <1>0, NothingIsText DEF Written
  <2>2. WrittenOnce(0, start)
    BY <2>1, NothingIsText DEF WrittenOnce
  <2> QED
    BY <1>0, <2>1, <2>2
<1>2. ASSUME NEW k \in 1..n, NEW st, <<k - 1, st>> \in Inv
      PROVE  <<k, Bodies!Statement(s, st, k)>> \in Inv /\ h[<<k, st>>] = Bodies!Statement(s, st, k)
  <2>1. st \in Written(s) /\ WrittenOnce(k - 1, st)
    BY <1>2
  <2>2. Bodies!Statement(s, st, k) \in Written(s) /\ WrittenOnce(k, Bodies!Statement(s, st, k))
    BY <2>1, StatementOnce
  <2> QED
    BY <1>0, <2>1, <2>2
<1> HIDE DEF n, h, Inv, start
<1>3. PICK f : IsLoop(f, n, start, h) /\ \A k \in 0..n : <<k, f[k]>> \in Inv
  BY <1>0, <1>1, <1>2, LoopExists
<1>4. IsBody(s, f)
  <2>1. ASSUME NEW k \in 0..n, k # 0 PROVE h[<<k, f[k - 1]>>] = Bodies!Statement(s, f[k - 1], k)
    <3>1. k \in 1..n /\ k - 1 \in 0..n
      BY <1>0, <2>1
    <3>2. <<k - 1, f[k - 1]>> \in Inv
      BY <1>3, <3>1
    <3> QED
      BY <1>2, <3>1, <3>2
  <2> QED
    BY <1>3, <2>1 DEF IsLoop, IsBody, n, start
<1>5. PICK g : g = (CHOOSE y : IsBody(s, y)) /\ IsBody(s, g)
  BY <1>4
<1>6. Bodies!FunctionBody(s) = g[n].out
  BY <1>5, Zenon DEF Bodies!FunctionBody, IsBody, n
<1>7. \A k \in 0..n : g[k] = IF k = 0 THEN start ELSE Bodies!Statement(s, g[k - 1], k)
  BY <1>5 DEF IsBody, n, start
<1>8. \A k \in 0..n : <<k, g[k]>> \in Inv
  <2>1. g[0] = start /\ \A k \in 1..n : g[k] = Bodies!Statement(s, g[k - 1], k)
    BY <1>0, <1>7
  <2>2. \A k \in 1..n : <<k - 1, g[k - 1]>> \in Inv => <<k, g[k]>> \in Inv
    BY <1>2, <2>1
  <2> QED
    BY <1>0, <1>1, <2>1, <2>2, LoopInvariant
<1>9. WrittenOnce(n, g[n])
  <2>1. <<n, g[n]>> \in Inv
    BY <1>0, <1>8
  <2> QED
    BY <2>1 DEF Inv
<1> QED
  BY <1>6, <1>9 DEF WrittenOnce

-----------------------------------------------------------------------------
(* The regions, and one pass over them.                                     *)

IsRegion(s, r) == /\ r.start \in 1..Len(s) /\ r = Bodies!DetectPattern(s, r.start) /\ r # Bodies!None
                  /\ r.kind \in {"push_pop", "if_else", "while", "for"}

IsSearch(s, g) ==
  g = [i \in 0..Len(s) |->
         IF i = 0 THEN [used |-> {}, regions |-> {}]
         ELSE LET Turn(st, k, p) ==
                    IF k \in st.used \/ p.kind \notin {"push_pop", "if_else", "while", "for"} THEN st
                    ELSE [used |-> st.used \cup k..p.last, regions |-> st.regions \cup {p}]
              IN Turn(g[i - 1], i, Bodies!DetectPattern(s, i))]

LEMMA RegionsArePatterns ==
  ASSUME NEW s \in Script
  PROVE  \A r \in Bodies!DetectRegions(s) : IsRegion(s, r)
<1> DEFINE n == Len(s)
           four == {"push_pop", "if_else", "while", "for"}
           P(k) == Bodies!DetectPattern(s, k)
           R == {P(k) : k \in {j \in 1..n : P(j).kind \in four}}
           V == [used : SUBSET Int, regions : SUBSET R]
           Turn(st, k) == IF k \in st.used \/ P(k).kind \notin four THEN st
                          ELSE [used |-> st.used \cup k..P(k).last, regions |-> st.regions \cup {P(k)}]
           start == [used |-> {}, regions |-> {}]
           h == [x \in (1..n) \X V |-> Turn(x[2], x[1])]
           Inv == (0..n) \X V
<1>0. n \in Nat
  BY ScriptIs
<1>1. ASSUME NEW k \in 1..n, P(k).kind \in four PROVE IsRegion(s, P(k))
  <2>1. Bodies!None.kind = "none"
    BY DEF Bodies!None
  <2>2. P(k) # Bodies!None
    BY <1>1, <2>1
  <2>3. P(k).start = k
    BY <2>2, PatternSpans DEF Spans
  <2> QED
    BY <1>1, <2>2, <2>3 DEF IsRegion
<1>2. \A r \in R : IsRegion(s, r)
  BY <1>1
<1>3. ASSUME NEW k \in 1..n, NEW st \in V PROVE Turn(st, k) \in V /\ h[<<k, st>>] = Turn(st, k)
  <2>1. st.used \in SUBSET Int /\ st.regions \in SUBSET R /\ k \in Int
    BY <1>0
  <2>2. CASE k \in st.used \/ P(k).kind \notin four
    BY <2>2
  <2>3. CASE ~(k \in st.used \/ P(k).kind \notin four)
    <3>1. P(k) \in R
      BY <2>3
    <3>2. k..P(k).last \subseteq Int
      OBVIOUS
    <3> HIDE DEF P, R
    <3>3. Turn(st, k) = [used |-> st.used \cup k..P(k).last, regions |-> st.regions \cup {P(k)}]
      BY <2>3
    <3>4. st.used \cup k..P(k).last \in SUBSET Int /\ st.regions \cup {P(k)} \in SUBSET R
      BY <2>1, <3>1, <3>2
    <3> QED
      BY <3>3, <3>4
  <2> QED
    BY <2>2, <2>3
<1>4. <<0, start>> \in Inv /\ Inv \in SUBSET ((0..n) \X V)
  BY <1>0
<1>5. \A k \in 1..n : \A st \in V : <<k - 1, st>> \in Inv => <<k, h[<<k, st>>]>> \in Inv
  <2> HIDE DEF h, Turn, V
  <2>1. \A k \in 1..n : k \in 0..n
    BY <1>0
  <2> QED
    BY <1>3, <2>1
<1> HIDE DEF h, Inv
<1>6. PICK f : IsLoop(f, n, start, h) /\ \A k \in 0..n : <<k, f[k]>> \in Inv
  <2> HIDE DEF start, n, V
  <2> QED
    BY <1>0, <1>4, <1>5, LoopExists
<1>7. IsSearch(s, f)
  <2>1. ASSUME NEW k \in 0..n, k # 0 PROVE h[<<k, f[k - 1]>>] = Turn(f[k - 1], k)
    <3>1. k \in 1..n /\ k - 1 \in 0..n
      BY <1>0, <2>1
    <3>2. f[k - 1] \in V
      BY <1>6, <3>1 DEF Inv
    <3> QED
      BY <1>3, <3>1, <3>2
  <2>2. f = [k \in 0..n |-> IF k = 0 THEN start ELSE h[<<k, f[k - 1]>>]]
    BY <1>6 DEF IsLoop
  <2> HIDE DEF Turn, start, n
  <2>3. \A k \in 0..n : f[k] = IF k = 0 THEN start ELSE Turn(f[k - 1], k)
    BY <2>1, <2>2
  <2>4. f = [k \in 0..n |-> f[k]]
    BY <2>2
  <2>5. f = [k \in 0..n |-> IF k = 0 THEN start ELSE Turn(f[k - 1], k)]
    BY <2>3, <2>4
  <2> QED
    BY <2>5, Zenon DEF IsSearch, Turn, P, start, n
<1>8. PICK g : g = (CHOOSE y : IsSearch(s, y)) /\ IsSearch(s, g)
  BY <1>7
<1>9. Bodies!DetectRegions(s) = g[n].regions
  BY <1>8, Zenon DEF Bodies!DetectRegions, IsSearch, n
<1>10. \A k \in 0..n : g[k] = IF k = 0 THEN start ELSE Turn(g[k - 1], k)
  <2>1. g = [k \in 0..n |-> IF k = 0 THEN start ELSE Turn(g[k - 1], k)]
    BY <1>8, Zenon DEF IsSearch
  <2> HIDE DEF Turn, start, n
  <2> QED
    BY <2>1
<1> HIDE DEF Turn, start, n, V
<1>11. \A k \in 0..n : <<k, g[k]>> \in Inv
  <2>1. g[0] = start /\ \A k \in 1..n : g[k] = Turn(g[k - 1], k)
    BY <1>0, <1>10
  <2>2. \A k \in 1..n : k \in 0..n
    BY <1>0
  <2>3. \A k \in 1..n : <<k - 1, g[k - 1]>> \in Inv => <<k, g[k]>> \in Inv
    BY <1>3, <2>1, <2>2 DEF Inv
  <2> QED
    BY <1>0, <1>4, <2>1, <2>3, LoopInvariant
<1>12. g[n] \in V
  <2>1. <<n, g[n]>> \in Inv
    BY <1>0, <1>11
  <2> QED
    BY <2>1 DEF Inv
<1> QED
  BY <1>2, <1>9, <1>12 DEF V

\* What the pass writes for a region: its branches, and nothing outside.
LEMMA RegionSays ==
  ASSUME NEW s \in Script, Bodies!PushesAhead(s), NEW r, IsRegion(s, r)
  PROVE  LET i == r.start
             plain == [j \in DOMAIN s |-> Bodies!PlainLine(s, j)]
             Braced(from, upto) == <<<<"open", i>>>> \o Bodies!Lines(plain, from, upto) \o <<<<"close", i>>>>
             text == IF r.kind \in {"while", "for"} THEN Braced(r.from, r.last - 1)
                     ELSE Braced(r.from, r.upto) \o <<<<"else", i>>>> \o Braced(r.other, r.last)
         IN /\ r.last \in i..Len(s)
            /\ text \in BodyText /\ Bodies!OnlyOnce(text) /\ Says(text) \subseteq i..r.last
<1> DEFINE i == r.start
           plain == [j \in DOMAIN s |-> Bodies!PlainLine(s, j)]
           Braced(from, upto) == <<<<"open", i>>>> \o Bodies!Lines(plain, from, upto) \o <<<<"close", i>>>>
           else == <<<<"else", i>>>>
           Fine(text) == text \in BodyText /\ Bodies!OnlyOnce(text) /\ Says(text) \subseteq i..r.last
<1>1. i \in 1..Len(s) /\ r = Bodies!DetectPattern(s, i) /\ r # Bodies!None /\ r.kind \in {"push_pop", "if_else", "while", "for"}
  BY DEF IsRegion
<1>2. Spans(s, i, r) /\ Len(s) \in Nat /\ i \in Int /\ DOMAIN s = 1..Len(s)
  BY <1>1, PatternSpans, ScriptIs
<1>3. plain \in Seq(BodyText) /\ OwnLines(plain) /\ Len(plain) = Len(s)
  BY TextsOfLines
<1>4. /\ else \in BodyText /\ Bodies!OnlyOnce(else) /\ Says(else) = {}
      /\ <<<<"open", i>>>> \in BodyText /\ Bodies!OnlyOnce(<<<<"open", i>>>>) /\ Says(<<<<"open", i>>>>) = {}
      /\ <<<<"close", i>>>> \in BodyText /\ Bodies!OnlyOnce(<<<<"close", i>>>>) /\ Says(<<<<"close", i>>>>) = {}
  BY <1>2, ItemIsText
<1> HIDE DEF plain, else, i
<1>5. ASSUME NEW from \in Nat \ {0}, NEW upto \in Int, upto <= Len(s)
      PROVE  Braced(from, upto) \in BodyText /\ Bodies!OnlyOnce(Braced(from, upto)) /\ Says(Braced(from, upto)) \subseteq from..upto
  <2> DEFINE body == Bodies!Lines(plain, from, upto)
  <2>1. body \in BodyText /\ Bodies!OnlyOnce(body) /\ Says(body) \subseteq from..upto
    BY <1>3, <1>5, LinesAreOwn
  <2> HIDE DEF body
  <2> DEFINE open == <<<<"open", i>>>>
             close == <<<<"close", i>>>>
  <2>2. /\ open \in BodyText /\ Bodies!OnlyOnce(open) /\ Says(open) = {}
        /\ close \in BodyText /\ Bodies!OnlyOnce(close) /\ Says(close) = {}
    BY <1>4
  <2>3. Braced(from, upto) = open \o body \o close
    BY DEF body
  <2> HIDE DEF open, close, Braced
  <2>4. open \o body \in BodyText /\ Bodies!OnlyOnce(open \o body) /\ Says(open \o body) = Says(open) \cup Says(body)
    <3>1. Says(open) \cap Says(body) = {}
      BY <2>2
    <3> QED
      BY <2>1, <2>2, <3>1, OnceJoined
  <2> DEFINE front == open \o body
  <2>5. front \in BodyText /\ Bodies!OnlyOnce(front) /\ Says(front) \subseteq from..upto
    BY <2>1, <2>2, <2>4
  <2> HIDE DEF front
  <2>6. front \o close \in BodyText /\ Bodies!OnlyOnce(front \o close) /\ Says(front \o close) = Says(front) \cup Says(close)
    <3>1. Says(front) \cap Says(close) = {}
      BY <2>2
    <3> QED
      BY <2>2, <2>5, <3>1, OnceJoined
  <2>7. Braced(from, upto) = front \o close
    BY <2>3 DEF front
  <2> QED
    BY <2>2, <2>5, <2>6, <2>7
<1> HIDE DEF Braced
<1>6. CASE r.kind \in {"while", "for"}
  <2>1. r.from = i + 1 /\ r.last \in 0..Len(s) /\ r.last > i
    <3>1. CASE r.kind = "while"
      BY <1>2, <3>1 DEF Spans
    <3>2. CASE r.kind = "for"
      <4>1. r.from = i + 1 /\ r.last \in 0..Len(s) /\ r.inc \in (i + 2)..(r.last - 1)
        BY <1>2, <3>2 DEF Spans
      <4> QED
        BY <1>2, <4>1
    <3> QED
      BY <1>6, <3>1, <3>2
  <2>2. r.from \in Nat \ {0} /\ r.last - 1 \in Int /\ r.last - 1 <= Len(s) /\ r.from..(r.last - 1) \subseteq i..r.last /\ r.last \in i..Len(s)
    BY <1>1, <1>2, <2>1
  <2>3. Fine(Braced(r.from, r.last - 1))
    BY <1>5, <2>2
  <2> QED
    BY <1>6, <2>2, <2>3 DEF i, plain, Braced
<1>7. CASE r.kind \in {"push_pop", "if_else"}
  <2>1. r.from \in (i + 1)..(Len(s) + 1) /\ r.other \in 1..(r.last + 1) /\ r.upto \in i..(r.other - 2) /\ r.last \in 0..Len(s)
    <3>0. r.last \in 0..Len(s)
      BY <1>2 DEF Spans
    <3>1. CASE r.kind = "if_else"
      <4>1. r.from = i + 1 /\ r.upto \in i..(r.other - 2) /\ r.other \in 1..r.last
        BY <1>2, <3>1 DEF Spans
      <4> QED
        BY <1>1, <1>2, <3>0, <4>1
    <3>2. CASE r.kind = "push_pop"
      <4>1. r.from \in (i + 2)..(r.other - 1) /\ r.upto = r.other - 2 /\ r.other \in 1..(Len(s) + 1) /\ r = Bodies!DetectPushPop(s, i)
        BY <1>2, <3>2 DEF Spans
      <4>2. LET q == Bodies!DetectPushPop(s, i) IN q = Bodies!None \/ q.last >= q.other - 1
        BY <1>1, <1>2 DEF Bodies!PushesAhead
      <4>3. r.last >= r.other - 1
        BY <1>1, <4>1, <4>2
      <4>4. r.from \in (i + 1)..(Len(s) + 1) /\ r.upto \in i..(r.other - 2)
        BY <1>1, <1>2, <4>1
      <4>5. r.other \in 1..(r.last + 1)
        BY <1>2, <3>0, <4>1, <4>3
      <4> QED
        BY <3>0, <4>4, <4>5
    <3> QED
      BY <1>7, <3>1, <3>2
  <2>2. /\ r.from \in Nat \ {0} /\ r.upto \in Int /\ r.upto <= Len(s) /\ r.other \in Nat \ {0} /\ r.last \in Int /\ r.last <= Len(s)
        /\ r.from..r.upto \subseteq i..r.last /\ r.other..r.last \subseteq i..r.last /\ r.from..r.upto \cap r.other..r.last = {}
        /\ r.last >= i
    <3> DEFINE f == r.from
               u == r.upto
               o == r.other
               l == r.last
               n == Len(s)
    <3>1. /\ f \in Int /\ f > i /\ o \in Int /\ u \in Int /\ u >= i /\ u <= o - 2
          /\ l \in Int /\ o <= l + 1 /\ i \in Int /\ i >= 1 /\ n \in Int /\ l <= n
      BY <1>1, <1>2, <2>1
    <3> HIDE DEF f, u, o, l, n
    <3>2. /\ f \in Nat \ {0} /\ u <= n /\ o \in Nat \ {0} /\ l >= i
          /\ f..u \subseteq i..l /\ o..l \subseteq i..l /\ f..u \cap o..l = {}
      BY ONLY <3>1
    <3> QED
      BY <3>1, <3>2 DEF f, u, o, l, n
  <2> DEFINE a == Braced(r.from, r.upto)
             b == Braced(r.other, r.last)
  <2>3. /\ a \in BodyText /\ Bodies!OnlyOnce(a) /\ Says(a) \subseteq r.from..r.upto
        /\ b \in BodyText /\ Bodies!OnlyOnce(b) /\ Says(b) \subseteq r.other..r.last
    BY <1>5, <2>2
  <2> HIDE DEF a, b
  <2>4. a \o else \o b \in BodyText /\ Bodies!OnlyOnce(a \o else \o b) /\ Says(a \o else \o b) = Says(a) \cup Says(b)
    BY <1>2, <1>4, <2>2, <2>3, BracesSayNothing
  <2>5. Fine(a \o else \o b)
    BY <2>2, <2>3, <2>4
  <2>6. r.kind \notin {"while", "for"} /\ r.last \in i..Len(s)
    BY <1>2, <1>7, <2>2
  <2> QED
    BY <2>5, <2>6 DEF i, plain, else, a, b, Braced
<1> QED
  BY <1>1, <1>6, <1>7

Emitted(s) == [at : 1..(Len(s) + 1), out : BodyText]
EmittedOnce(s, k, st) == /\ st.at > k \/ st.at = Len(s) + 1
                         /\ Bodies!OnlyOnce(st.out) /\ \A x \in Says(st.out) : x < st.at

LEMMA EmitOnce ==
  ASSUME NEW s \in Script, Bodies!PushesAhead(s), NEW regions, \A r \in regions : IsRegion(s, r),
         NEW k \in 1..Len(s), NEW st \in Emitted(s), EmittedOnce(s, k - 1, st)
  PROVE  Bodies!Emit(s, regions, st) \in Emitted(s) /\ EmittedOnce(s, k, Bodies!Emit(s, regions, st))
<1> DEFINE i == st.at
           out == st.out
           plain == [j \in DOMAIN s |-> Bodies!PlainLine(s, j)]
           here == {x \in regions : x.start = i}
           r == CHOOSE x \in here : TRUE
           Braced(from, upto) == <<<<"open", i>>>> \o Bodies!Lines(plain, from, upto) \o <<<<"close", i>>>>
           text == CASE here = {} -> Bodies!PlainLine(s, i)
                     [] here # {} /\ r.kind \in {"while", "for"} -> Braced(r.from, r.last - 1)
                     [] OTHER -> Braced(r.from, r.upto) \o <<<<"else", i>>>> \o Braced(r.other, r.last)
<1>1. /\ Len(s) \in Nat /\ i \in 1..(Len(s) + 1) /\ out \in BodyText /\ i \in Int /\ k \in 1..Len(s)
      /\ Bodies!OnlyOnce(out) /\ (i > k - 1 \/ i = Len(s) + 1) /\ \A x \in Says(out) : x \in Int /\ x < i
  BY ScriptIs DEF Emitted, EmittedOnce, Says
<1>2. Bodies!Emit(s, regions, st) = IF i > Len(s) THEN st
                                     ELSE [at |-> IF here = {} THEN i + 1 ELSE r.last + 1, out |-> out \o text]
  BY Zenon DEF Bodies!Emit
<1>3. CASE i > Len(s)
  <2> HIDE DEF i, text, here, r, out
  <2>1. Bodies!Emit(s, regions, st) = st /\ i = Len(s) + 1
    BY <1>1, <1>2, <1>3
  <2> QED
    BY <1>1, <2>1 DEF EmittedOnce, i
<1>4. ASSUME i <= Len(s), NEW last \in i..Len(s), NEW t \in BodyText, Bodies!OnlyOnce(t), Says(t) \subseteq i..last
      PROVE  LET next == [at |-> last + 1, out |-> out \o t] IN next \in Emitted(s) /\ EmittedOnce(s, k, next)
  <2> HIDE DEF i, out
  <2>1. Says(out) \cap Says(t) = {}
    <3>1. \A x \in Says(out) : x < i
      BY <1>1, <1>4
    <3>2. \A x \in Says(t) : x >= i
      BY <1>1, <1>4
    <3> QED
      BY <1>1, <3>1, <3>2
  <2>2. out \o t \in BodyText /\ Bodies!OnlyOnce(out \o t) /\ Says(out \o t) = Says(out) \cup Says(t)
    BY <1>1, <1>4, <2>1, OnceJoined
  <2>3. \A x \in Says(out \o t) : x < last + 1
    <3>1. \A x \in Says(out) : x < last + 1
      BY <1>1, <1>4
    <3>2. \A x \in Says(t) : x < last + 1
      BY <1>1, <1>4
    <3> QED
      BY <2>2, <3>1, <3>2
  <2>4. last + 1 \in 1..(Len(s) + 1) /\ last + 1 > k
    BY <1>1, <1>4
  <2> DEFINE next == [at |-> last + 1, out |-> out \o t]
  <2>5. next.at = last + 1 /\ next.out = out \o t /\ next \in Emitted(s)
    BY <2>2, <2>4 DEF Emitted
  <2> HIDE DEF next
  <2>6. EmittedOnce(s, k, next)
    BY <2>2, <2>3, <2>4, <2>5 DEF EmittedOnce
  <2> QED
    BY <2>5, <2>6 DEF next
<1>5. CASE i <= Len(s) /\ here = {}
  <2>1. Bodies!Emit(s, regions, st) = [at |-> i + 1, out |-> out \o Bodies!PlainLine(s, i)]
    <3>1. text = Bodies!PlainLine(s, i)
      BY <1>5
    <3> HIDE DEF text, here, out, i
    <3> QED
      BY <1>1, <1>2, <1>5, <3>1
  <2>2. i \in i..Len(s) /\ i..i = {i}
    BY <1>1, <1>5
  <2> HIDE DEF i, out, text, here
  <2>3. /\ Bodies!PlainLine(s, i) \in BodyText /\ Bodies!OnlyOnce(Bodies!PlainLine(s, i)) /\ Says(Bodies!PlainLine(s, i)) \subseteq i..i
    BY <1>1, <2>2, PlainIsOwn
  <2> QED
    BY <1>4, <1>5, <2>1, <2>2, <2>3
<1>6. CASE i <= Len(s) /\ here # {}
  <2>1. r \in regions /\ r.start = i
    <3>1. r \in here
      BY <1>6
    <3> QED
      BY <3>1
  <2>2. text = IF r.kind \in {"while", "for"} THEN Braced(r.from, r.last - 1)
               ELSE Braced(r.from, r.upto) \o <<<<"else", i>>>> \o Braced(r.other, r.last)
    <3>1. CASE r.kind \in {"while", "for"}
      <4>1. text = Braced(r.from, r.last - 1)
        BY <1>6, <3>1, Zenon
      <4> QED
        BY <3>1, <4>1, Zenon
    <3>2. CASE r.kind \notin {"while", "for"}
      <4>1. text = Braced(r.from, r.upto) \o <<<<"else", i>>>> \o Braced(r.other, r.last)
        BY <1>6, <3>2, Zenon
      <4> QED
        BY <3>2, <4>1, Zenon
    <3> QED
      BY <3>1, <3>2
  <2>3. r.last \in i..Len(s) /\ text \in BodyText /\ Bodies!OnlyOnce(text) /\ Says(text) \subseteq i..r.last
    <3>1. IsRegion(s, r)
      BY <2>1
    <3> HIDE DEF r, text, here, i
    <3> QED
      BY <2>1, <2>2, <3>1, RegionSays
  <2> HIDE DEF i, out, text, here, r
  <2>4. Bodies!Emit(s, regions, st) = [at |-> r.last + 1, out |-> out \o text]
    <3>1. ~(i > Len(s)) /\ here # {}
      BY <1>1, <1>6
    <3> QED
      BY <1>2, <3>1, Zenon
  <2> QED
    BY <1>4, <1>6, <2>3, <2>4
<1> QED
  BY <1>1, <1>3, <1>5, <1>6

IsPass(s, regions, g) ==
  g = [k \in 0..Len(s) |-> IF k = 0 THEN [at |-> 1, out |-> <<>>] ELSE Bodies!Emit(s, regions, g[k - 1])]

LEMMA PassEnds ==
  ASSUME NEW s \in Script, Bodies!PushesAhead(s), NEW regions, \A r \in regions : IsRegion(s, r)
  PROVE  LET e == Bodies!EmitStructured(s, regions) IN e.done = TRUE /\ Bodies!OnlyOnce(e.out)
<1> DEFINE n == Len(s)
           start == [at |-> 1, out |-> <<>>]
           h == [x \in (1..n) \X Emitted(s) |-> Bodies!Emit(s, regions, x[2])]
           Inv == {x \in (0..n) \X Emitted(s) : EmittedOnce(s, x[1], x[2])}
<1>0. n \in Nat /\ n >= 1
  BY ScriptIs
<1>1. <<0, start>> \in Inv /\ Inv \in SUBSET ((0..n) \X Emitted(s))
  <2>1. start \in Emitted(s) /\ start.out = <<>> /\ start.at = 1
    BY <1>0, NothingIsText DEF Emitted
  <2>2. EmittedOnce(s, 0, start)
    BY <2>1, NothingIsText DEF EmittedOnce
  <2> QED
    BY <1>0, <2>1, <2>2
<1>2. ASSUME NEW k \in 1..n, NEW st, <<k - 1, st>> \in Inv
      PROVE  <<k, Bodies!Emit(s, regions, st)>> \in Inv /\ h[<<k, st>>] = Bodies!Emit(s, regions, st)
  <2>1. st \in Emitted(s) /\ EmittedOnce(s, k - 1, st)
    BY <1>2
  <2>2. Bodies!Emit(s, regions, st) \in Emitted(s) /\ EmittedOnce(s, k, Bodies!Emit(s, regions, st))
    BY <2>1, EmitOnce
  <2> QED
    BY <1>0, <2>1, <2>2
<1> HIDE DEF n, h, Inv, start
<1>3. PICK f : IsLoop(f, n, start, h) /\ \A k \in 0..n : <<k, f[k]>> \in Inv
  BY <1>0, <1>1, <1>2, LoopExists
<1>4. IsPass(s, regions, f)
  <2>1. ASSUME NEW k \in 0..n, k # 0 PROVE h[<<k, f[k - 1]>>] = Bodies!Emit(s, regions, f[k - 1])
    <3>1. k \in 1..n /\ k - 1 \in 0..n
      BY <1>0, <2>1
    <3>2. <<k - 1, f[k - 1]>> \in Inv
      BY <1>3, <3>1
    <3> QED
      BY <1>2, <3>1, <3>2
  <2> QED
    BY <1>3, <2>1 DEF IsLoop, IsPass, n, start
<1>5. PICK g : g = (CHOOSE y : IsPass(s, regions, y)) /\ IsPass(s, regions, g)
  BY <1>4
<1>6. Bodies!EmitStructured(s, regions) = [out |-> g[n].out, done |-> g[n].at > n]
  BY <1>5, Zenon DEF Bodies!EmitStructured, IsPass, n
<1>7. g[0] = start /\ \A k \in 1..n : g[k] = Bodies!Emit(s, regions, g[k - 1])
  <2>1. \A k \in 0..n : g[k] = IF k = 0 THEN start ELSE Bodies!Emit(s, regions, g[k - 1])
    BY <1>5 DEF IsPass, n, start
  <2> QED
    BY <1>0, <2>1
<1>8. \A k \in 0..n : <<k, g[k]>> \in Inv
  <2>1. \A k \in 1..n : <<k - 1, g[k - 1]>> \in Inv => <<k, g[k]>> \in Inv
    BY <1>2, <1>7
  <2> QED
    BY <1>0, <1>1, <1>7, <2>1, LoopInvariant
<1>9. EmittedOnce(s, n, g[n]) /\ g[n] \in Emitted(s)
  <2>1. <<n, g[n]>> \in Inv
    BY <1>0, <1>8
  <2> QED
    BY <2>1 DEF Inv
<1>10. g[n].at > n /\ Bodies!OnlyOnce(g[n].out)
  BY <1>0, <1>9 DEF EmittedOnce, Emitted, n
<1>11. Bodies!EmitStructured(s, regions).done = (g[n].at > n) /\ Bodies!EmitStructured(s, regions).out = g[n].out
  BY <1>6
<1> QED
  BY <1>10, <1>11

LEMMA RegionsAreWritten ==
  ASSUME NEW s \in Script
  PROVE  Bodies!ReconstructEnds(s)
<1> SUFFICES ASSUME Bodies!PushesAhead(s) PROVE Bodies!Reconstruct(s).done /\ Bodies!OnlyOnce(Bodies!Reconstruct(s).out)
  BY DEF Bodies!ReconstructEnds
<1>1. CASE Bodies!DetectRegions(s) = {}
  <2> DEFINE text == [i \in DOMAIN s |-> Bodies!LabelsBefore(s, i) \o Bodies!PlainLine(s, i)]
  <2>1. Bodies!Reconstruct(s) = [out |-> Bodies!GotoFallback(s), done |-> TRUE]
    BY <1>1 DEF Bodies!Reconstruct
  <2>2. Bodies!GotoFallback(s) = Bodies!Lines(text, 1, Len(s))
    BY Zenon DEF Bodies!GotoFallback
  <2>3. text \in Seq(BodyText) /\ OwnLines(text) /\ Len(text) = Len(s) /\ Len(s) \in Nat
    BY TextsOfLines, ScriptIs
  <2> HIDE DEF text
  <2>4. Bodies!OnlyOnce(Bodies!Lines(text, 1, Len(s)))
    <3>1. 1 \in Nat \ {0} /\ Len(s) \in Int /\ Len(s) <= Len(text)
      BY <2>3
    <3> QED
      BY <2>3, <3>1, LinesAreOwn
  <2> QED
    BY <2>1, <2>2, <2>4
<1>2. CASE Bodies!DetectRegions(s) # {}
  <2>1. Bodies!Reconstruct(s) = Bodies!EmitStructured(s, Bodies!DetectRegions(s))
    BY <1>2 DEF Bodies!Reconstruct
  <2> QED
    BY <2>1, RegionsArePatterns, PassEnds
<1> QED
  BY <1>1, <1>2

\* The rate: a jump that gets neither structure nor a reason has a pattern
\* that starts at it, and the pattern covers it.
LEMMA RateCoversJumps ==
  ASSUME NEW s \in Script
  PROVE  Bodies!RateAccountsForAll(s)
<1> SUFFICES ASSUME \A i \in DOMAIN s : s[i].op = "ifnot" => s[i].to = 0 \/ s[i].to > i \/ Bodies!IsWhileBackjump(s, i)
             PROVE  Bodies!Cardinality(Bodies!StructuredRate(s).structured \cup Bodies!StructuredRate(s).reasons)
                      = Bodies!StructuredRate(s).total
  BY Zenon DEF Bodies!RateAccountsForAll
<1> DEFINE jumps == {i \in DOMAIN s : Bodies!IsJump(s[i]) \/ s[i].op \in {"computed", "switch"}}
           taken == {i \in jumps : s[i].op # "switch" /\ ~Bodies!IsWhileBackjump(s, i)}
           found == [i \in taken |-> Bodies!DetectPattern(s, i)]
           cover == UNION {i..found[i].last : i \in {j \in taken : found[j] # Bodies!None}}
           reasons == {i \in taken : found[i] = Bodies!None}
<1>1. Bodies!StructuredRate(s) = [total |-> Bodies!Cardinality(jumps), structured |-> (jumps \ taken) \cup (jumps \cap cover), reasons |-> reasons]
  BY Zenon DEF Bodies!StructuredRate
<1>2. ASSUME NEW i \in taken, found[i] # Bodies!None PROVE i \in i..found[i].last
  <2> DEFINE p == found[i]
  <2>1. i \in 1..Len(s) /\ p = Bodies!DetectPattern(s, i) /\ s[i].op \in {"jump", "ifnot", "skip", "computed"} /\ Len(s) \in Nat
        /\ (s[i].op = "ifnot" => s[i].to = 0 \/ s[i].to > i) /\ s[i].to \in 0..Len(s)
    BY ScriptIs DEF Bodies!IsJump
  <2> HIDE DEF p
  <2>2. Spans(s, i, p)
    BY <1>2, <2>1, PatternSpans DEF p
  <2>3. p.last \in 0..Len(s) /\ p.last >= i
    <3>0. p.last \in 0..Len(s) /\ p.kind \in Kinds
      BY <2>2 DEF Spans
    <3>1. CASE p.kind = "for"
      <4>1. p.inc \in (i + 2)..(p.last - 1)
        BY <2>2, <3>1 DEF Spans
      <4> QED
        BY <2>1, <3>0, <4>1
    <3>2. CASE p.kind = "while"
      <4>1. p.last > i
        BY <2>2, <3>2 DEF Spans
      <4> QED
        BY <2>1, <3>0, <4>1
    <3>3. CASE p.kind = "push_pop"
      BY <2>1, <2>2, <3>3 DEF Spans
    <3>4. CASE p.kind = "if"
      <4>1. s[i].op = "ifnot" /\ s[i].to # 0 /\ p.last = s[i].to - 1
        BY <2>2, <3>4 DEF Spans
      <4> QED
        BY <2>1, <4>1
    <3>5. CASE p.kind = "if_else"
      <4>1. p.upto \in i..(p.other - 2) /\ p.other \in 1..p.last
        BY <2>2, <3>5 DEF Spans
      <4> QED
        BY <2>1, <3>0, <4>1
    <3>6. CASE p.kind = "switch"
      BY <2>1, <2>2, <3>6 DEF Spans
    <3> QED
      BY <3>0, <3>1, <3>2, <3>3, <3>4, <3>5, <3>6 DEF Kinds
  <2> QED
    BY <2>1, <2>3 DEF p
<1>3. taken \subseteq jumps
  OBVIOUS
<1>4. reasons = {i \in taken : found[i] = Bodies!None}
  OBVIOUS
<1>5. \A i \in taken : found[i] # Bodies!None => i \in cover
  BY <1>2
<1> HIDE DEF jumps, taken, found, cover, reasons
<1>6. ((jumps \ taken) \cup (jumps \cap cover)) \cup reasons = jumps
  BY <1>3, <1>4, <1>5
<1> QED
  BY <1>1, <1>6

-----------------------------------------------------------------------------
(* The blocks of a script.                                                  *)

LEMMA LeadersAre ==
  ASSUME NEW s \in Script
  PROVE  /\ Bodies!Leaders(s) \subseteq 1..Len(s) /\ 1 \in Bodies!Leaders(s)
         /\ \A i \in 1..Len(s) : Bodies!Resolved(s[i]) => s[i].to \in Bodies!Leaders(s)
<1>1. /\ Len(s) \in Nat /\ Len(s) >= 1 /\ DOMAIN s = 1..Len(s) /\ \A i \in 1..Len(s) : s[i].to \in 0..Len(s)
  BY ScriptIs
<1>2. \A i \in 1..Len(s) : Bodies!Resolved(s[i]) => s[i].to # 0
  BY DEF Bodies!Resolved
<1> DEFINE named == {s[i].to : i \in {j \in DOMAIN s : Bodies!Resolved(s[j])}}
           behind == {i + 1 : i \in {j \in 1..(Len(s) - 1) : Bodies!IsTerminator(s[j])}}
<1>3. Bodies!Leaders(s) = {1} \cup named \cup behind
  BY Zenon DEF Bodies!Leaders
<1>4. named \subseteq 1..Len(s) /\ \A i \in 1..Len(s) : Bodies!Resolved(s[i]) => s[i].to \in named
  BY <1>1, <1>2
<1>5. behind \subseteq 1..Len(s) /\ {1} \subseteq 1..Len(s)
  BY <1>1
<1> HIDE DEF named, behind
<1> QED
  BY <1>3, <1>4, <1>5

LEMMA BlocksEnd ==
  ASSUME NEW s \in Script, NEW b \in Bodies!Leaders(s)
  PROVE  /\ b \in 1..Len(s) /\ Bodies!BlockEnd(s, b) \in b..Len(s)
         /\ \A l \in Bodies!Leaders(s) : l > b => Bodies!BlockEnd(s, b) < l
         /\ Bodies!BlockEnd(s, b) = Len(s) \/ Bodies!BlockEnd(s, b) + 1 \in Bodies!Leaders(s)
<1> DEFINE L == Bodies!Leaders(s)
           n == Len(s)
           S == {l - 1 : l \in {m \in L : m > b}} \cup {n}
<1>1. n \in Nat /\ n >= 1 /\ L \subseteq 1..n /\ b \in L
  BY LeadersAre, ScriptIs
<1>2. Bodies!BlockEnd(s, b) = Bodies!Min(S)
  BY Zenon DEF Bodies!BlockEnd
<1> HIDE DEF L, n
<1>3. b \in 1..n /\ \A l \in L : l \in Int
  BY <1>1
<1>4. S \subseteq b..n /\ n \in S /\ \A l \in L : l > b => l - 1 \in S
  BY <1>1, <1>3
<1>5. \A x \in S : x = n \/ x + 1 \in L
  BY <1>1, <1>3
<1> HIDE DEF S
<1>6. S \subseteq 1..n /\ S # {}
  BY <1>3, <1>4
<1>7. Bodies!Min(S) \in S /\ \A x \in S : Bodies!Min(S) <= x
  BY <1>1, <1>6, LeastOfScript
<1> DEFINE end == Bodies!Min(S)
<1>8. end \in b..n /\ (end = n \/ end + 1 \in L)
  BY <1>4, <1>5, <1>7
<1>9. \A l \in L : l > b => end < l
  <2> SUFFICES ASSUME NEW l \in L, l > b PROVE end < l
    OBVIOUS
  <2>1. end <= l - 1
    BY <1>4, <1>7
  <2> HIDE DEF end
  <2> QED
    BY <1>3, <1>8, <2>1
<1> QED
  BY <1>2, <1>3, <1>8, <1>9 DEF L, n

\* A graph: finitely many blocks, every edge to one of them.
IsBlockGraph(G) == /\ IsFiniteSet(G.blocks) /\ G.entry \in G.blocks
              /\ \A b \in G.blocks : G.succ[b] \in Seq(G.blocks)

LEMMA EdgesLeadToBlocks ==
  ASSUME NEW s \in Script, NEW b \in Bodies!Leaders(s)
  PROVE  LET e == Bodies!EdgesOf(s, b)
         IN [i \in DOMAIN e |-> e[i][1]] \in Seq(Bodies!Leaders(s) \cup {Bodies!Sink(s)})
<1> DEFINE B == Bodies!Leaders(s) \cup {Bodies!Sink(s)}
           last == s[Bodies!BlockEnd(s, b)]
           after == Bodies!BlockEnd(s, b) + 1
           If(cond, dst, kind) == IF cond THEN <<<<dst, kind>>>> ELSE <<>>
           Kind == {"unconditional", "conditional", "false_branch", "fallthrough"}
           E == B \X Kind
<1>1. Bodies!BlockEnd(s, b) \in 1..Len(s) /\ after \in B
  <2>1. Bodies!BlockEnd(s, b) \in b..Len(s) /\ b \in 1..Len(s)
    BY BlocksEnd
  <2>2. Bodies!BlockEnd(s, b) = Len(s) \/ after \in Bodies!Leaders(s)
    BY BlocksEnd
  <2>3. Bodies!Sink(s) = Len(s) + 1
    BY DEF Bodies!Sink
  <2> QED
    BY <2>1, <2>2, <2>3
<1>2. Bodies!Resolved(last) => last.to \in B
  BY <1>1, LeadersAre
<1>3. Bodies!EdgesOf(s, b) =
        CASE last.op \in {"jump", "pop", "computed"} -> If(Bodies!Resolved(last), last.to, "unconditional")
          [] last.op \in {"ifnot", "popif"} ->
               If(Bodies!Resolved(last) /\ last.to # after, last.to, "conditional")
                 \o If(after \in Bodies!Leaders(s), after, "false_branch")
          [] last.op = "end" -> <<<<Bodies!Sink(s), "unconditional">>>>
          [] OTHER -> <<<<after, "fallthrough">>>>
  BY Zenon DEF Bodies!EdgesOf
<1> HIDE DEF last, after, B
<1>4. ASSUME NEW dst \in B, NEW kind \in Kind PROVE <<<<dst, kind>>>> \in Seq(E)
  <2>1. <<dst, kind>> \in E
    BY <1>4
  <2> HIDE DEF E
  <2> QED
    BY <2>1
<1> HIDE DEF E
<1>5. <<>> \in Seq(E) /\ \A x, y \in Seq(E) : x \o y \in Seq(E)
  OBVIOUS
<1>7. Bodies!Sink(s) \in B
  BY DEF B
<1>8. /\ If(Bodies!Resolved(last), last.to, "unconditional") \in Seq(E)
      /\ If(Bodies!Resolved(last) /\ last.to # after, last.to, "conditional") \in Seq(E)
      /\ If(after \in Bodies!Leaders(s), after, "false_branch") \in Seq(E)
  <2>1. "unconditional" \in Kind /\ "conditional" \in Kind /\ "false_branch" \in Kind
    OBVIOUS
  <2>2. If(Bodies!Resolved(last), last.to, "unconditional") \in Seq(E)
    BY <1>2, <1>4, <1>5, <2>1
  <2>3. If(Bodies!Resolved(last) /\ last.to # after, last.to, "conditional") \in Seq(E)
    BY <1>2, <1>4, <1>5, <2>1
  <2>4. If(after \in Bodies!Leaders(s), after, "false_branch") \in Seq(E)
    BY <1>1, <1>4, <1>5, <2>1
  <2> QED
    BY <2>2, <2>3, <2>4
<1> HIDE DEF If
<1> DEFINE e == Bodies!EdgesOf(s, b)
<1>9. e \in Seq(E)
  <2>1. <<<<Bodies!Sink(s), "unconditional">>>> \in Seq(E) /\ <<<<after, "fallthrough">>>> \in Seq(E)
    <3>1. "unconditional" \in Kind /\ "fallthrough" \in Kind
      OBVIOUS
    <3> QED
      BY <1>1, <1>4, <1>7, <3>1
  <2> QED
    BY <1>3, <1>5, <1>8, <2>1
<1> HIDE DEF e
<1>10. DOMAIN e = 1..Len(e) /\ Len(e) \in Nat /\ \A i \in 1..Len(e) : e[i] \in E
  BY <1>9, LenProperties, ElementOfSeq
<1>11. \A i \in 1..Len(e) : e[i][1] \in B
  BY <1>10 DEF E
<1>12. [i \in DOMAIN e |-> e[i][1]] \in Seq(B)
  BY <1>10, <1>11
<1> QED
  BY <1>12 DEF e, B

LEMMA ScriptIsGraph ==
  ASSUME NEW s \in Script
  PROVE  /\ IsBlockGraph(Bodies!BuildCFG(s)) /\ Bodies!BuildCFG(s).entry = 1
         /\ Bodies!BuildCFG(s).blocks = Bodies!Leaders(s) \cup {Bodies!Sink(s)} /\ Bodies!Sink(s) \notin Bodies!Leaders(s)
<1> DEFINE B == Bodies!Leaders(s) \cup {Bodies!Sink(s)}
           edges == [b \in B |-> IF b = Bodies!Sink(s) THEN <<>> ELSE Bodies!EdgesOf(s, b)]
           succ == [b \in B |-> [i \in DOMAIN edges[b] |-> edges[b][i][1]]]
           pred == [b \in B |-> Bodies!Predecessors(succ, b)]
           G == Bodies!BuildCFG(s)
<1>1. Bodies!Leaders(s) \subseteq 1..Len(s) /\ 1 \in Bodies!Leaders(s) /\ Len(s) \in Nat /\ Bodies!Sink(s) = Len(s) + 1
  BY LeadersAre, ScriptIs DEF Bodies!Sink
<1>2. G = [blocks |-> B, entry |-> 1, exit |-> Bodies!Sink(s), edges |-> edges, succ |-> succ, pred |-> pred]
  BY Zenon DEF Bodies!BuildCFG
<1> HIDE DEF pred
<1>3. G.blocks = B /\ G.entry = 1 /\ G.succ = succ
  <2> HIDE DEF B, edges, succ, G
  <2> QED
    BY <1>2
<1>4. Bodies!Sink(s) \notin Bodies!Leaders(s)
  BY <1>1
<1>5. IsFiniteSet(B)
  <2>1. B \subseteq 1..(Len(s) + 1) /\ IsFiniteSet(1..(Len(s) + 1))
    <3>1. B \subseteq 1..(Len(s) + 1) /\ 1 \in Int /\ Len(s) + 1 \in Int
      BY <1>1
    <3> HIDE DEF B
    <3> QED
      BY <3>1, FS_Interval
  <2> QED
    BY <2>1, FS_Subset
<1>6. ASSUME NEW b \in B PROVE succ[b] \in Seq(B)
  <2>1. CASE b = Bodies!Sink(s)
    <3>1. edges[b] = <<>>
      BY <2>1
    <3>2. succ[b] = [i \in DOMAIN <<>> |-> edges[b][i][1]]
      BY <3>1
    <3>3. DOMAIN <<>> = 1..0
      OBVIOUS
    <3> HIDE DEF edges, B
    <3> QED
      BY <3>2, <3>3
  <2>2. CASE b # Bodies!Sink(s)
    <3>1. edges[b] = Bodies!EdgesOf(s, b) /\ b \in Bodies!Leaders(s)
      BY <2>2
    <3>2. succ[b] = [i \in DOMAIN edges[b] |-> edges[b][i][1]]
      OBVIOUS
    <3> HIDE DEF edges, succ
    <3> QED
      BY <3>1, <3>2, EdgesLeadToBlocks
  <2> QED
    BY <2>1, <2>2
<1> QED
  BY <1>1, <1>3, <1>4, <1>5, <1>6 DEF IsBlockGraph

-----------------------------------------------------------------------------
(* What a graph's entry reaches: the least set of blocks that contains it    *)
(* and that no edge leaves.                                                  *)

Targets(G, b) == Bodies!ToSet(G.succ[b])
Closed(G, C) == C \in SUBSET G.blocks /\ \A b \in C : Targets(G, b) \subseteq C

IsReach(G, from, avoid, g) ==
  g = [n \in 0..Bodies!Cardinality(G.blocks) |->
         IF n = 0 THEN from
         ELSE LET seen == g[n - 1] IN seen \cup (UNION {Bodies!ToSet(G.succ[b]) : b \in seen} \ avoid)]

LEMMA CountIsShared == \A S : Bodies!Cardinality(S) = Cardinality(S)
BY Zenon DEF Bodies!Cardinality, Cardinality

LEMMA GraphTargets ==
  ASSUME NEW G, IsBlockGraph(G)
  PROVE  \A b \in G.blocks : Targets(G, b) \subseteq G.blocks /\ Targets(G, b) = {G.succ[b][k] : k \in 1..Len(G.succ[b])}
<1>1. \A b \in G.blocks : /\ G.succ[b] \in Seq(G.blocks) /\ DOMAIN G.succ[b] = 1..Len(G.succ[b])
                          /\ \A k \in 1..Len(G.succ[b]) : G.succ[b][k] \in G.blocks
  BY LenProperties, ElementOfSeq DEF IsBlockGraph
<1>2. \A b \in G.blocks : Targets(G, b) = {G.succ[b][k] : k \in DOMAIN G.succ[b]}
  BY DEF Targets, Bodies!ToSet
<1>3. ASSUME NEW b \in G.blocks
      PROVE  Targets(G, b) \subseteq G.blocks /\ Targets(G, b) = {G.succ[b][k] : k \in 1..Len(G.succ[b])}
  <2>1. Targets(G, b) = {G.succ[b][k] : k \in 1..Len(G.succ[b])}
    BY <1>1, <1>2, Zenon
  <2>2. \A k \in 1..Len(G.succ[b]) : G.succ[b][k] \in G.blocks
    BY <1>1
  <2> QED
    BY <2>1, <2>2
<1> QED
  BY <1>3

LEMMA ReachIsLeast ==
  ASSUME NEW G, IsBlockGraph(G)
  PROVE  LET R == Bodies!Reachable(G)
         IN /\ Closed(G, R) /\ G.entry \in R
            /\ \A C : Closed(G, C) /\ G.entry \in C => R \subseteq C
<1> DEFINE N == Bodies!Cardinality(G.blocks)
           V == SUBSET G.blocks
           start == {G.entry}
           Next(S) == S \cup (UNION {Bodies!ToSet(G.succ[b]) : b \in S} \ {})
           h == [x \in (1..N) \X V |-> Next(x[2])]
           Fine(k, S) == /\ G.entry \in S /\ (Closed(G, S) \/ Cardinality(S) >= k + 1)
                         /\ \A C : Closed(G, C) /\ G.entry \in C => S \subseteq C
           Inv == {x \in (0..N) \X V : Fine(x[1], x[2])}
<1>0. N = Cardinality(G.blocks) /\ N \in Nat /\ IsFiniteSet(G.blocks) /\ G.entry \in G.blocks
  BY CountIsShared, FS_CardinalityType DEF IsBlockGraph
<1>1. Fine(0, start) /\ start \in V
  <2>1. Cardinality(start) = 1 /\ start \in V
    BY <1>0, FS_Singleton
  <2> QED
    BY <2>1
<1>2. ASSUME NEW k \in 1..N, NEW S \in V, Fine(k - 1, S) PROVE Fine(k, Next(S)) /\ Next(S) \in V
  <2>1. Next(S) = S \cup UNION {Targets(G, b) : b \in S}
    BY DEF Targets
  <2>2. Next(S) \in V
    BY <2>1, GraphTargets
  <2>3. \A C : Closed(G, C) /\ G.entry \in C => Next(S) \subseteq C
    BY <1>2, <2>1 DEF Closed
  <2>4. CASE Closed(G, S)
    <3>1. Next(S) = S
      BY <2>1, <2>4 DEF Closed
    <3> HIDE DEF Next
    <3> QED
      BY <1>2, <2>2, <2>3, <2>4, <3>1
  <2>5. CASE ~Closed(G, S)
    <3>1. PICK x \in Next(S) : x \notin S
      BY <2>1, <2>5 DEF Closed
    <3>2. IsFiniteSet(S) /\ IsFiniteSet(Next(S)) /\ S \cup {x} \subseteq Next(S) /\ IsFiniteSet(S \cup {x})
      <4>1. IsFiniteSet(S) /\ IsFiniteSet(Next(S))
        BY <1>0, <2>2, FS_Subset
      <4>2. S \cup {x} \subseteq Next(S)
        BY <2>1, <3>1
      <4> QED
        BY <4>1, <4>2, FS_Subset
    <3> HIDE DEF Next
    <3>3. Cardinality(S \cup {x}) = Cardinality(S) + 1 /\ Cardinality(S \cup {x}) <= Cardinality(Next(S))
          /\ Cardinality(S) \in Nat /\ Cardinality(Next(S)) \in Nat
      BY <3>1, <3>2, FS_AddElement, FS_Subset, FS_CardinalityType
    <3>4. Cardinality(S) >= k
      BY <1>0, <1>2, <2>5
    <3>5. Cardinality(Next(S)) >= k + 1 /\ G.entry \in Next(S)
      BY <1>0, <1>2, <3>2, <3>3, <3>4
    <3> QED
      BY <2>2, <2>3, <3>5
  <2> QED
    BY <2>4, <2>5
<1>3. <<0, start>> \in Inv /\ Inv \in SUBSET ((0..N) \X V)
  <2>1. 0 \in 0..N
    BY <1>0
  <2> HIDE DEF start, N, V, Fine
  <2> QED
    BY <1>1, <2>1
<1>4. ASSUME NEW k \in 1..N, NEW S, <<k - 1, S>> \in Inv PROVE <<k, Next(S)>> \in Inv /\ h[<<k, S>>] = Next(S)
  <2>1. S \in V /\ Fine(k - 1, S) /\ k \in 0..N
    BY <1>0, <1>4
  <2>2. Fine(k, Next(S)) /\ Next(S) \in V
    BY <1>2, <2>1
  <2>3. h[<<k, S>>] = Next(S)
    BY <2>1
  <2> HIDE DEF Next, Fine, V
  <2> QED
    BY <2>1, <2>2, <2>3
<1> HIDE DEF h, Inv
<1>5. PICK f : IsLoop(f, N, start, h) /\ \A k \in 0..N : <<k, f[k]>> \in Inv
  <2> HIDE DEF start, N, V, Next
  <2>1. \A k \in 1..N : \A S \in V : <<k - 1, S>> \in Inv => <<k, h[<<k, S>>]>> \in Inv
    BY <1>4
  <2> QED
    BY <1>0, <1>3, <2>1, LoopExists
<1>6. IsReach(G, start, {}, f)
  <2> HIDE DEF start, N, Next
  <2>1. ASSUME NEW k \in 0..N, k # 0 PROVE h[<<k, f[k - 1]>>] = Next(f[k - 1])
    <3>1. k \in 1..N /\ k - 1 \in 0..N
      BY <1>0, <2>1
    <3>2. <<k - 1, f[k - 1]>> \in Inv
      BY <1>5, <3>1
    <3> QED
      BY <1>4, <3>1, <3>2
  <2>2. f = [k \in 0..N |-> IF k = 0 THEN start ELSE Next(f[k - 1])]
    BY <1>5, <2>1 DEF IsLoop
  <2> QED
    BY <2>2, Zenon DEF IsReach, N, Next
<1>7. PICK g : g = (CHOOSE y : IsReach(G, start, {}, y)) /\ IsReach(G, start, {}, g)
  <2> HIDE DEF start
  <2> QED
    BY <1>6
<1>8. Bodies!Reachable(G) = g[N]
  BY <1>7, Zenon DEF Bodies!Reachable, Bodies!Reach, IsReach, N
<1>9. g[0] = start /\ \A k \in 1..N : g[k] = Next(g[k - 1])
  <2>1. \A k \in 0..N : g[k] = IF k = 0 THEN start ELSE Next(g[k - 1])
    BY <1>7 DEF IsReach
  <2> HIDE DEF start, N, Next
  <2> QED
    BY <1>0, <2>1
<1>10. <<N, g[N]>> \in Inv
  <2> HIDE DEF start, N, Next, V
  <2>1. \A k \in 1..N : <<k - 1, g[k - 1]>> \in Inv => <<k, g[k]>> \in Inv
    BY <1>4, <1>9
  <2>2. \A k \in 0..N : <<k, g[k]>> \in Inv
    BY <1>0, <1>3, <1>9, <2>1, LoopInvariant
  <2> QED
    BY <1>0, <2>2
<1>11. Fine(N, g[N]) /\ g[N] \in V
  <2> HIDE DEF Fine, V, N
  <2> QED
    BY <1>10 DEF Inv
<1>12. Closed(G, g[N])
  <2> SUFFICES ASSUME ~Closed(G, g[N]) PROVE FALSE
    OBVIOUS
  <2>1. Cardinality(g[N]) >= N + 1
    BY <1>11
  <2>2. Cardinality(g[N]) <= N
    BY <1>0, <1>11, FS_Subset
  <2>3. Cardinality(g[N]) \in Nat
    BY <1>0, <1>11, FS_Subset, FS_CardinalityType
  <2> HIDE DEF N
  <2> QED
    BY <1>0, <2>1, <2>2, <2>3
<1> QED
  BY <1>8, <1>11, <1>12

-----------------------------------------------------------------------------
(* The walk through a graph enters every block that the entry reaches, once, *)
(* and no other.                                                            *)

BlockWalks(G) == [pre : Seq(G.blocks), post : Seq(G.blocks)]
Calls(G) == [G.blocks -> [BlockWalks(G) -> BlockWalks(G)]]
Seen(w) == Bodies!ToSet(w.pre)
Distinct(w) == \A i, j \in DOMAIN w.pre : w.pre[i] = w.pre[j] => i = j

IsBelow(G, F, b, w, g) ==
  g = [k \in 0..Len(G.succ[b]) |->
         IF k = 0 THEN [w EXCEPT !.pre = Append(@, b)] ELSE F[G.succ[b][k]][g[k - 1]]]
AfterBlock(G, F, b, w) == [(CHOOSE g : IsBelow(G, F, b, w, g))[Len(G.succ[b])] EXCEPT !.post = Append(@, b)]

IsDepthFirst(G, f) ==
  f = [depth \in 0..Bodies!Cardinality(G.blocks) |->
         [b \in G.blocks |-> [w \in BlockWalks(G) |->
            IF depth = 0 \/ b \in Bodies!ToSet(w.pre) THEN w ELSE AfterBlock(G, f[depth - 1], b, w)]]]

\* The walks behind the successors of a block, one call after the other.
BelowBlock(G, F, b, w, g) ==
  /\ AfterBlock(G, F, b, w) = [g[Len(G.succ[b])] EXCEPT !.post = Append(@, b)]
  /\ g[0] = [w EXCEPT !.pre = Append(@, b)]
  /\ \A k \in 1..Len(G.succ[b]) : g[k] = F[G.succ[b][k]][g[k - 1]]
  /\ \A k \in 0..Len(G.succ[b]) : g[k] \in BlockWalks(G)

\* What a call makes of a walk w.  It goes to the end when at most d blocks
\* are left to enter.
BlockWalked(G, d, b, w, u) ==
  /\ Distinct(u) /\ Seen(w) \subseteq Seen(u)
  /\ Cardinality(G.blocks \ Seen(w)) <= d =>
       b \in Seen(u) /\ \A x \in Seen(u) \ Seen(w) : Targets(G, x) \subseteq Seen(u)
  /\ \A C : Closed(G, C) /\ b \in C => Seen(u) \subseteq Seen(w) \cup C

LEMMA WalkIs ==
  ASSUME NEW G, NEW w \in BlockWalks(G)
  PROVE  /\ w = [pre |-> w.pre, post |-> w.post] /\ w.pre \in Seq(G.blocks) /\ w.post \in Seq(G.blocks)
         /\ DOMAIN w.pre = 1..Len(w.pre) /\ Len(w.pre) \in Nat /\ Seen(w) \subseteq G.blocks
<1>1. w = [pre |-> w.pre, post |-> w.post] /\ w.pre \in Seq(G.blocks) /\ w.post \in Seq(G.blocks)
  BY DEF BlockWalks
<1>2. DOMAIN w.pre = 1..Len(w.pre) /\ Len(w.pre) \in Nat /\ \A k \in 1..Len(w.pre) : w.pre[k] \in G.blocks
  BY <1>1, LenProperties, ElementOfSeq
<1>3. Seen(w) = {w.pre[k] : k \in DOMAIN w.pre}
  BY DEF Seen, Bodies!ToSet
<1> QED
  BY <1>1, <1>2, <1>3

LEMMA BlockAppended ==
  ASSUME NEW G, NEW w \in BlockWalks(G), NEW b \in G.blocks
  PROVE  LET v == [w EXCEPT !.pre = Append(@, b)]
         IN /\ v \in BlockWalks(G) /\ Seen(v) = Seen(w) \cup {b}
            /\ Distinct(w) /\ b \notin Seen(w) => Distinct(v)
<1> DEFINE v == [w EXCEPT !.pre = Append(@, b)]
           n == Len(w.pre)
<1>1. /\ w = [pre |-> w.pre, post |-> w.post] /\ w.pre \in Seq(G.blocks) /\ w.post \in Seq(G.blocks)
      /\ DOMAIN w.pre = 1..n /\ n \in Nat
  BY WalkIs
<1>2. v = [pre |-> Append(w.pre, b), post |-> w.post]
  <2> DEFINE a == w.pre
             z == w.post
  <2>1. w = [pre |-> a, post |-> z]
    BY <1>1
  <2> HIDE DEF a, z
  <2>2. v = [pre |-> Append(a, b), post |-> z]
    BY ONLY <2>1
  <2> QED
    BY <2>2 DEF a, z
<1>3. v.pre = Append(w.pre, b) /\ v \in BlockWalks(G)
  <2>1. Append(w.pre, b) \in Seq(G.blocks)
    BY <1>1, AppendProperties
  <2> HIDE DEF v
  <2> QED
    BY <1>1, <1>2, <2>1 DEF BlockWalks
<1>4. DOMAIN v.pre = 1..(n + 1) /\ v.pre[n + 1] = b /\ \A i \in 1..n : v.pre[i] = w.pre[i]
  BY <1>1, <1>3
<1> HIDE DEF v, n
<1>5. \A i \in 1..(n + 1) : i \in 1..n \/ i = n + 1
  BY <1>1
<1>5a. n + 1 \in 1..(n + 1) /\ \A i \in 1..n : i \in 1..(n + 1)
  BY <1>1
<1>6. Seen(v) = Seen(w) \cup {b}
  BY <1>1, <1>4, <1>5, <1>5a DEF Seen, Bodies!ToSet
<1>7. ASSUME Distinct(w), b \notin Seen(w) PROVE Distinct(v)
  <2>1. \A i \in 1..n : w.pre[i] # b
    BY <1>1, <1>7 DEF Seen, Bodies!ToSet
  <2> QED
    BY <1>1, <1>4, <1>5, <1>7, <2>1 DEF Distinct
<1> QED
  BY <1>3, <1>6, <1>7 DEF v

LEMMA BelowIsWalk ==
  ASSUME NEW G, IsBlockGraph(G), NEW F \in Calls(G), NEW b \in G.blocks, NEW w \in BlockWalks(G)
  PROVE  \E g : BelowBlock(G, F, b, w, g)
<1> DEFINE n == Len(G.succ[b])
           start == [w EXCEPT !.pre = Append(@, b)]
           h == [x \in (1..n) \X BlockWalks(G) |-> F[G.succ[b][x[1]]][x[2]]]
           Inv == (0..n) \X BlockWalks(G)
<1>1. n \in Nat /\ \A k \in 1..n : G.succ[b][k] \in G.blocks
  BY LenProperties, ElementOfSeq DEF IsBlockGraph
<1>2. start \in BlockWalks(G)
  BY BlockAppended
<1>3. ASSUME NEW k \in 1..n, NEW u \in BlockWalks(G)
      PROVE  h[<<k, u>>] = F[G.succ[b][k]][u] /\ F[G.succ[b][k]][u] \in BlockWalks(G)
  BY <1>1 DEF Calls
<1> HIDE DEF n, start, h
<1>4. <<0, start>> \in Inv /\ Inv \in SUBSET ((0..n) \X BlockWalks(G))
  BY <1>1, <1>2
<1>5. \A k \in 1..n : \A u \in BlockWalks(G) : <<k - 1, u>> \in Inv => <<k, h[<<k, u>>]>> \in Inv
  <2>1. \A k \in 1..n : k \in 0..n
    BY <1>1
  <2> QED
    BY <1>3, <2>1
<1> HIDE DEF Inv
<1>6. PICK f : IsLoop(f, n, start, h) /\ \A k \in 0..n : <<k, f[k]>> \in Inv
  BY <1>1, <1>4, <1>5, LoopExists
<1>7. IsBelow(G, F, b, w, f)
  <2>1. ASSUME NEW k \in 0..n, k # 0 PROVE h[<<k, f[k - 1]>>] = F[G.succ[b][k]][f[k - 1]]
    <3>1. k \in 1..n /\ k - 1 \in 0..n
      BY <1>1, <2>1
    <3>2. f[k - 1] \in BlockWalks(G)
      BY <1>6, <3>1 DEF Inv
    <3> QED
      BY <1>3, <3>1, <3>2
  <2>2. f = [k \in 0..n |-> IF k = 0 THEN start ELSE F[G.succ[b][k]][f[k - 1]]]
    BY <1>6, <2>1 DEF IsLoop
  <2> QED
    BY <2>2, Zenon DEF IsBelow, n, start
<1>8. PICK g : g = (CHOOSE y : IsBelow(G, F, b, w, y)) /\ IsBelow(G, F, b, w, g)
  BY <1>7
<1>9. AfterBlock(G, F, b, w) = [g[n] EXCEPT !.post = Append(@, b)]
  BY <1>8, Zenon DEF AfterBlock, n
<1>10. g[0] = start /\ \A k \in 1..n : g[k] = F[G.succ[b][k]][g[k - 1]]
  <2>1. \A k \in 0..n : g[k] = IF k = 0 THEN start ELSE F[G.succ[b][k]][g[k - 1]]
    BY <1>8, Zenon DEF IsBelow, n, start
  <2>2. 0 \in 0..n /\ \A k \in 1..n : k \in 0..n /\ k # 0
    BY <1>1
  <2> QED
    BY <2>1, <2>2, Zenon
<1>11. \A k \in 0..n : g[k] \in BlockWalks(G)
  <2>1. ASSUME NEW k \in 1..n, <<k - 1, g[k - 1]>> \in Inv PROVE <<k, g[k]>> \in Inv
    <3>1. g[k - 1] \in BlockWalks(G) /\ k \in 0..n
      BY <1>1, <2>1 DEF Inv
    <3> QED
      BY <1>3, <1>10, <3>1 DEF Inv
  <2>2. \A k \in 0..n : <<k, g[k]>> \in Inv
    BY <1>1, <1>4, <1>10, <2>1, LoopInvariant
  <2> QED
    BY <2>2 DEF Inv
<1> QED
  BY <1>9, <1>10, <1>11 DEF n, start, BelowBlock

\* One block further: what the calls below leave open is what was open.
LEMMA EnteredIsWalked ==
  ASSUME NEW G, IsBlockGraph(G), NEW d \in Nat, NEW F \in Calls(G), NEW b \in G.blocks, NEW w \in BlockWalks(G),
         Distinct(w), b \notin Seen(w),
         \A t \in G.blocks, u \in BlockWalks(G) : Distinct(u) => BlockWalked(G, d, t, u, F[t][u])
  PROVE  BlockWalked(G, d + 1, b, w, AfterBlock(G, F, b, w))
<1> DEFINE n == Len(G.succ[b])
           few == Cardinality(G.blocks \ Seen(w)) <= d + 1
           Stage(k, u) ==
             /\ Distinct(u) /\ Seen(w) \cup {b} \subseteq Seen(u)
             /\ few => /\ \A j \in 1..k : G.succ[b][j] \in Seen(u)
                       /\ \A x \in Seen(u) \ (Seen(w) \cup {b}) : Targets(G, x) \subseteq Seen(u)
             /\ \A C : Closed(G, C) /\ b \in C => Seen(u) \subseteq Seen(w) \cup C
           Inv == {x \in (0..n) \X BlockWalks(G) : Stage(x[1], x[2])}
<1>0. PICK g : BelowBlock(G, F, b, w, g)
  BY BelowIsWalk
<1>1. /\ AfterBlock(G, F, b, w) = [g[n] EXCEPT !.post = Append(@, b)]
      /\ g[0] = [w EXCEPT !.pre = Append(@, b)]
      /\ \A k \in 1..n : g[k] = F[G.succ[b][k]][g[k - 1]]
      /\ \A k \in 0..n : g[k] \in BlockWalks(G)
  BY <1>0 DEF BelowBlock
<1>2. n \in Nat /\ \A k \in 1..n : G.succ[b][k] \in G.blocks /\ G.succ[b][k] \in Targets(G, b)
  <2>1. G.succ[b] \in Seq(G.blocks)
    BY DEF IsBlockGraph
  <2>2. n \in Nat /\ \A k \in 1..n : G.succ[b][k] \in G.blocks
    BY <2>1, LenProperties, ElementOfSeq
  <2> QED
    BY <2>2, GraphTargets
<1>3. Targets(G, b) = {G.succ[b][k] : k \in 1..n}
  BY GraphTargets
<1> HIDE DEF n
<1>4. Stage(0, g[0])
  <2>1. Seen(g[0]) = Seen(w) \cup {b} /\ Distinct(g[0])
    <3> DEFINE v == [w EXCEPT !.pre = Append(@, b)]
    <3>1. v \in BlockWalks(G) /\ Seen(v) = Seen(w) \cup {b} /\ (Distinct(w) /\ b \notin Seen(w) => Distinct(v))
      BY BlockAppended, Zenon
    <3>2. g[0] = v
      BY <1>1
    <3> HIDE DEF v
    <3> QED
      BY <3>1, <3>2
  <2> HIDE DEF few
  <2>2. \A j \in 1..0 : FALSE
    OBVIOUS
  <2> QED
    BY <2>1, <2>2
<1>5. ASSUME NEW u \in BlockWalks(G), Seen(w) \cup {b} \subseteq Seen(u), few PROVE Cardinality(G.blocks \ Seen(u)) <= d
  <2> DEFINE open == G.blocks \ Seen(w)
             left == G.blocks \ Seen(u)
  <2>1. IsFiniteSet(open) /\ b \in open /\ left \subseteq open \ {b}
    <3>1. IsFiniteSet(G.blocks) /\ open \subseteq G.blocks
      BY DEF IsBlockGraph
    <3>2. IsFiniteSet(open)
      BY <3>1, FS_Subset
    <3> QED
      BY <1>5, <3>2
  <2> HIDE DEF open, left
  <2>2. Cardinality(open \ {b}) = Cardinality(open) - 1 /\ IsFiniteSet(open \ {b})
    BY <2>1, FS_RemoveElement
  <2>3. Cardinality(left) <= Cardinality(open \ {b}) /\ Cardinality(left) \in Nat /\ Cardinality(open) \in Nat
    BY <2>1, <2>2, FS_Subset, FS_CardinalityType
  <2>4. Cardinality(open) <= d + 1
    BY <1>5 DEF open
  <2> QED
    BY <2>2, <2>3, <2>4 DEF left
<1>6. ASSUME NEW k \in 1..n, Stage(k - 1, g[k - 1]) PROVE Stage(k, g[k])
  <2> DEFINE u == g[k - 1]
             v == g[k]
             t == G.succ[b][k]
  <2>1. u \in BlockWalks(G) /\ v = F[t][u] /\ t \in G.blocks /\ t \in Targets(G, b)
    <3>1. k - 1 \in 0..n
      BY <1>2
    <3> QED
      BY <1>1, <1>2, <3>1
  <2>2. BlockWalked(G, d, t, u, v)
    BY <1>6, <2>1
  <2> HIDE DEF u, v, t, few
  <2>3. Distinct(v) /\ Seen(u) \subseteq Seen(v) /\ Seen(w) \cup {b} \subseteq Seen(u)
    BY <1>6, <2>2 DEF BlockWalked, u
  <2>4. ASSUME few
        PROVE  /\ \A j \in 1..k : G.succ[b][j] \in Seen(v)
               /\ \A x \in Seen(v) \ (Seen(w) \cup {b}) : Targets(G, x) \subseteq Seen(v)
    <3>1. t \in Seen(v) /\ \A x \in Seen(v) \ Seen(u) : Targets(G, x) \subseteq Seen(v)
      <4>1. Cardinality(G.blocks \ Seen(u)) <= d
        BY <1>5, <2>1, <2>3, <2>4
      <4> QED
        BY <2>2, <4>1 DEF BlockWalked
    <3>2. \A j \in 1..(k - 1) : G.succ[b][j] \in Seen(u)
      BY <1>6, <2>4 DEF u
    <3>3. \A j \in 1..k : j \in 1..(k - 1) \/ j = k
      BY <1>2
    <3>4. \A j \in 1..k : G.succ[b][j] \in Seen(v)
      BY <2>3, <3>1, <3>2, <3>3 DEF t
    <3>5. \A x \in Seen(u) \ (Seen(w) \cup {b}) : Targets(G, x) \subseteq Seen(u)
      BY <1>6, <2>4 DEF u
    <3> QED
      BY <2>3, <3>1, <3>4, <3>5
  <2>5. ASSUME NEW C, Closed(G, C), b \in C PROVE Seen(v) \subseteq Seen(w) \cup C
    <3>1. Seen(u) \subseteq Seen(w) \cup C
      BY <1>6, <2>5 DEF u
    <3>2. t \in C
      BY <2>1, <2>5 DEF Closed
    <3>3. Seen(v) \subseteq Seen(u) \cup C
      BY <2>2, <2>5, <3>2 DEF BlockWalked
    <3> QED
      BY <3>1, <3>3
  <2> QED
    BY <2>3, <2>4, <2>5 DEF v
<1>7. Stage(n, g[n]) /\ g[n] \in BlockWalks(G)
  <2>1. ASSUME NEW k \in 1..n, <<k - 1, g[k - 1]>> \in Inv PROVE <<k, g[k]>> \in Inv
    <3>1. k \in 0..n /\ k - 1 \in 0..n
      BY <1>2
    <3>2. Stage(k - 1, g[k - 1])
      BY <2>1
    <3>3. Stage(k, g[k]) /\ g[k] \in BlockWalks(G)
      BY <1>1, <1>6, <3>1, <3>2
    <3> HIDE DEF Stage
    <3> QED
      BY <3>1, <3>3
  <2>2. 0 \in 0..n /\ n \in 0..n
    BY <1>2
  <2> HIDE DEF Stage
  <2>3. <<0, g[0]>> \in Inv
    BY <1>1, <1>4, <2>2
  <2> HIDE DEF Inv
  <2>4. \A k \in 0..n : <<k, g[k]>> \in Inv
    BY <1>2, <2>1, <2>3, LoopInvariant
  <2>5. <<n, g[n]>> \in Inv
    BY <2>2, <2>4
  <2> QED
    BY <2>5 DEF Inv
<1>8. AfterBlock(G, F, b, w).pre = g[n].pre
  <2>1. g[n] = [pre |-> g[n].pre, post |-> g[n].post]
    BY <1>7, WalkIs
  <2> QED
    BY <1>1, <2>1
<1>9. Seen(AfterBlock(G, F, b, w)) = Seen(g[n]) /\ (Distinct(g[n]) => Distinct(AfterBlock(G, F, b, w)))
  BY <1>8 DEF Seen, Distinct
<1>10. few => \A x \in Seen(g[n]) \ Seen(w) : Targets(G, x) \subseteq Seen(g[n])
  <2> HIDE DEF few
  <2> QED
    BY <1>3, <1>7
<1> HIDE DEF Inv
<1> QED
  BY <1>7, <1>9, <1>10 DEF BlockWalked

LEMMA EnteredIsWalk ==
  ASSUME NEW G, IsBlockGraph(G), NEW F \in Calls(G), NEW b \in G.blocks, NEW w \in BlockWalks(G)
  PROVE  AfterBlock(G, F, b, w) \in BlockWalks(G)
<1>1. PICK g : BelowBlock(G, F, b, w, g)
  BY BelowIsWalk
<1> DEFINE u == g[Len(G.succ[b])]
<1>2. AfterBlock(G, F, b, w) = [u EXCEPT !.post = Append(@, b)] /\ u \in BlockWalks(G)
  <2>1. Len(G.succ[b]) \in Nat
    BY LenProperties DEF IsBlockGraph
  <2>2. Len(G.succ[b]) \in 0..Len(G.succ[b])
    BY <2>1
  <2> QED
    BY <1>1, <2>2 DEF BelowBlock
<1> HIDE DEF u
<1>3. u = [pre |-> u.pre, post |-> u.post] /\ u.pre \in Seq(G.blocks) /\ u.post \in Seq(G.blocks)
  BY <1>2, WalkIs
<1>4. Append(u.post, b) \in Seq(G.blocks) /\ AfterBlock(G, F, b, w) = [pre |-> u.pre, post |-> Append(u.post, b)]
  BY <1>2, <1>3, AppendProperties
<1> QED
  BY <1>3, <1>4 DEF BlockWalks

\* A call with one more level below it.
Deeper(G, F) == [b \in G.blocks |-> [w \in BlockWalks(G) |-> IF b \in Seen(w) THEN w ELSE AfterBlock(G, F, b, w)]]
WalkedAll(G, d, F) == \A t \in G.blocks, u \in BlockWalks(G) : Distinct(u) => BlockWalked(G, d, t, u, F[t][u])

LEMMA DeeperIsWalked ==
  ASSUME NEW G, IsBlockGraph(G), NEW d \in Nat, NEW F \in Calls(G), WalkedAll(G, d, F)
  PROVE  Deeper(G, F) \in Calls(G) /\ WalkedAll(G, d + 1, Deeper(G, F))
<1>1. \A t \in G.blocks, u \in BlockWalks(G) : (IF t \in Seen(u) THEN u ELSE AfterBlock(G, F, t, u)) \in BlockWalks(G)
  BY EnteredIsWalk
<1>2. Deeper(G, F) \in Calls(G)
  BY <1>1 DEF Deeper, Calls
<1>3. ASSUME NEW t \in G.blocks, NEW u \in BlockWalks(G), Distinct(u) PROVE BlockWalked(G, d + 1, t, u, Deeper(G, F)[t][u])
  <2>1. Deeper(G, F)[t][u] = IF t \in Seen(u) THEN u ELSE AfterBlock(G, F, t, u)
    BY DEF Deeper
  <2>2. CASE t \in Seen(u)
    <3>1. BlockWalked(G, d + 1, t, u, u)
      BY <1>3, <2>2 DEF BlockWalked
    <3> QED
      BY <2>1, <2>2, <3>1
  <2>3. CASE t \notin Seen(u)
    <3>1. BlockWalked(G, d + 1, t, u, AfterBlock(G, F, t, u))
      BY <1>3, <2>3, EnteredIsWalked DEF WalkedAll
    <3> QED
      BY <2>1, <2>3, <3>1
  <2> QED
    BY <2>2, <2>3
<1> QED
  BY <1>2, <1>3 DEF WalkedAll

LEMMA WalkReachesAll ==
  ASSUME NEW G, IsBlockGraph(G)
  PROVE  LET w == Bodies!DepthFirst(G) IN w \in BlockWalks(G) /\ Distinct(w) /\ Seen(w) = Bodies!Reachable(G)
<1> DEFINE N == Bodies!Cardinality(G.blocks)
           start == [b \in G.blocks |-> [w \in BlockWalks(G) |-> w]]
           h == [x \in (1..N) \X Calls(G) |-> Deeper(G, x[2])]
           Inv == {x \in (0..N) \X Calls(G) : WalkedAll(G, x[1], x[2])}
           empty == [pre |-> <<>>, post |-> <<>>]
<1>0. N = Cardinality(G.blocks) /\ N \in Nat /\ IsFiniteSet(G.blocks) /\ G.entry \in G.blocks
  BY CountIsShared, FS_CardinalityType DEF IsBlockGraph
<1>1. start \in Calls(G) /\ WalkedAll(G, 0, start)
  <2>1. start \in Calls(G) /\ \A t \in G.blocks, u \in BlockWalks(G) : start[t][u] = u
    BY DEF Calls
  <2> HIDE DEF start
  <2>2. ASSUME NEW t \in G.blocks, NEW u \in BlockWalks(G), Distinct(u) PROVE BlockWalked(G, 0, t, u, u)
    <3>1. ASSUME Cardinality(G.blocks \ Seen(u)) <= 0 PROVE t \in Seen(u)
      <4>1. IsFiniteSet(G.blocks \ Seen(u))
        BY <1>0, FS_Subset
      <4>2. Cardinality(G.blocks \ Seen(u)) = 0
        BY <3>1, <4>1, FS_CardinalityType
      <4>3. G.blocks \ Seen(u) = {}
        BY <4>1, <4>2, FS_EmptySet
      <4> QED
        BY <4>3
    <3> QED
      BY <2>2, <3>1 DEF BlockWalked
  <2> QED
    BY <2>1, <2>2 DEF WalkedAll
<1>2. ASSUME NEW k \in 1..N, NEW F, <<k - 1, F>> \in Inv
      PROVE  <<k, Deeper(G, F)>> \in Inv /\ h[<<k, F>>] = Deeper(G, F) /\ F \in Calls(G)
  <2>1. F \in Calls(G) /\ WalkedAll(G, k - 1, F) /\ k - 1 \in Nat /\ (k - 1) + 1 = k /\ k \in 0..N
    BY <1>0, <1>2
  <2>2. Deeper(G, F) \in Calls(G) /\ WalkedAll(G, k, Deeper(G, F))
    BY <2>1, DeeperIsWalked
  <2> HIDE DEF N
  <2> QED
    BY <2>1, <2>2
<1> HIDE DEF N, start, h, empty
<1>3. <<0, start>> \in Inv /\ Inv \in SUBSET ((0..N) \X Calls(G))
  BY <1>0, <1>1
<1> HIDE DEF Inv
<1>4. PICK f : IsLoop(f, N, start, h) /\ \A k \in 0..N : <<k, f[k]>> \in Inv
  <2>1. \A k \in 1..N : \A F \in Calls(G) : <<k - 1, F>> \in Inv => <<k, h[<<k, F>>]>> \in Inv
    BY <1>2
  <2> QED
    BY <1>0, <1>3, <2>1, LoopExists
<1> DEFINE Level(F, depth) == [b \in G.blocks |-> [w \in BlockWalks(G) |->
                                 IF depth = 0 \/ b \in Bodies!ToSet(w.pre) THEN w ELSE AfterBlock(G, F, b, w)]]
<1>5. \A F : Level(F, 0) = start /\ \A k \in 1..N : Level(F, k) = Deeper(G, F)
  <2> SUFFICES ASSUME NEW F PROVE Level(F, 0) = start /\ \A k \in 1..N : Level(F, k) = Deeper(G, F)
    OBVIOUS
  <2>1. Level(F, 0) = start
    BY DEF start
  <2>2. ASSUME NEW k \in 1..N PROVE Level(F, k) = Deeper(G, F)
    <3>1. k # 0
      BY <1>0
    <3> QED
      BY <3>1, Zenon DEF Deeper, Seen
  <2> QED
    BY <2>1, <2>2
<1>6. IsDepthFirst(G, f)
  <2>1. ASSUME NEW k \in 0..N PROVE f[k] = Level(f[k - 1], k)
    <3>0. f[k] = IF k = 0 THEN start ELSE h[<<k, f[k - 1]>>]
      BY <1>4 DEF IsLoop
    <3> HIDE DEF Level
    <3>1. CASE k = 0
      BY <1>5, <3>0, <3>1
    <3>2. CASE k # 0
      <4>1. k \in 1..N /\ k - 1 \in 0..N
        BY <1>0, <3>2
      <4>2. h[<<k, f[k - 1]>>] = Deeper(G, f[k - 1])
        BY <1>2, <1>4, <4>1
      <4> QED
        BY <1>5, <3>0, <3>2, <4>1, <4>2
    <3> QED
      BY <3>1, <3>2
  <2>2. f = [k \in 0..N |-> f[k]]
    BY <1>4 DEF IsLoop
  <2> HIDE DEF Level
  <2>3. f = [k \in 0..N |-> Level(f[k - 1], k)]
    BY <2>1, <2>2
  <2> QED
    BY <2>3, Zenon DEF IsDepthFirst, Level, N
<1>7. PICK g : g = (CHOOSE y : IsDepthFirst(G, y)) /\ IsDepthFirst(G, g)
  BY <1>6
<1>8. Bodies!DepthFirst(G) = g[N][G.entry][empty]
  BY <1>7, Zenon DEF Bodies!DepthFirst, IsDepthFirst, AfterBlock, IsBelow, BlockWalks, N, empty
<1>9. g[0] = start /\ \A k \in 1..N : g[k] = Deeper(G, g[k - 1])
  <2>1. \A k \in 0..N : g[k] = Level(g[k - 1], k)
    BY <1>7 DEF IsDepthFirst, N
  <2> HIDE DEF Level
  <2>2. 0 \in 0..N /\ \A k \in 1..N : k \in 0..N
    BY <1>0
  <2> QED
    BY <1>5, <2>1, <2>2
<1>10. g[N] \in Calls(G) /\ WalkedAll(G, N, g[N])
  <2>1. \A k \in 1..N : <<k - 1, g[k - 1]>> \in Inv => <<k, g[k]>> \in Inv
    BY <1>2, <1>9
  <2>2. \A k \in 0..N : <<k, g[k]>> \in Inv
    BY <1>0, <1>3, <1>9, <2>1, LoopInvariant
  <2>3. <<N, g[N]>> \in Inv
    BY <1>0, <2>2
  <2> QED
    BY <2>3 DEF Inv
<1> DEFINE w == g[N][G.entry][empty]
<1>11. empty \in BlockWalks(G) /\ Seen(empty) = {} /\ Distinct(empty)
  <2>1. empty.pre = <<>> /\ empty.post = <<>> /\ empty \in BlockWalks(G)
    BY DEF empty, BlockWalks
  <2>2. DOMAIN <<>> = {}
    OBVIOUS
  <2> QED
    BY <2>1, <2>2 DEF Seen, Distinct, Bodies!ToSet
<1>12. w \in BlockWalks(G) /\ BlockWalked(G, N, G.entry, empty, w)
  BY <1>0, <1>10, <1>11 DEF Calls, WalkedAll
<1> HIDE DEF w
<1>13. G.entry \in Seen(w) /\ Closed(G, Seen(w))
  <2>1. Cardinality(G.blocks \ Seen(empty)) <= N
    <3>1. G.blocks \ Seen(empty) = G.blocks
      BY <1>11
    <3> QED
      BY <1>0, <3>1
  <2>2. G.entry \in Seen(w) /\ \A x \in Seen(w) \ Seen(empty) : Targets(G, x) \subseteq Seen(w)
    BY <1>12, <2>1 DEF BlockWalked
  <2> QED
    BY <1>11, <1>12, <2>2, WalkIs DEF Closed
<1>14. Seen(w) \subseteq Bodies!Reachable(G)
  <2>1. Closed(G, Bodies!Reachable(G)) /\ G.entry \in Bodies!Reachable(G)
    BY ReachIsLeast
  <2> QED
    BY <1>11, <1>12, <2>1 DEF BlockWalked
<1>15. Bodies!Reachable(G) \subseteq Seen(w)
  BY <1>13, ReachIsLeast
<1> QED
  BY <1>8, <1>12, <1>14, <1>15 DEF BlockWalked, w

-----------------------------------------------------------------------------
(* The body written along the graph.                                        *)

\* What a block's lines say, and that blocks do not share statements.
LEMMA BlocksArePlaces ==
  ASSUME NEW s \in Script, NEW a \in Bodies!Leaders(s), NEW b \in Bodies!Leaders(s), a # b
  PROVE  a..Bodies!BlockEnd(s, a) \cap b..Bodies!BlockEnd(s, b) = {}
<1>1. /\ a \in 1..Len(s) /\ b \in 1..Len(s) /\ Len(s) \in Nat
      /\ Bodies!BlockEnd(s, a) \in a..Len(s) /\ Bodies!BlockEnd(s, b) \in b..Len(s)
      /\ a < b => Bodies!BlockEnd(s, a) < b
      /\ b < a => Bodies!BlockEnd(s, b) < a
  BY BlocksEnd, ScriptIs
<1> QED
  BY <1>1

LEMMA BodyFollowsGraph ==
  ASSUME NEW s \in Script
  PROVE  Bodies!CfgBodyIsReachable(s)
<1> DEFINE G == Bodies!BuildCFG(s)
           walk == Bodies!DepthFirst(G)
           order == walk.pre
           n == Len(order)
           sink == Bodies!Sink(s)
           End(b) == Bodies!BlockEnd(s, b)
           looped == [j \in DOMAIN s |-> Bodies!LoopLine(s, j)]
           Piece(k) == IF order[k] = sink THEN <<>> ELSE Bodies!Lines(looped, order[k], End(order[k]))
           P == [k \in DOMAIN order |-> Piece(k)]
           out == Bodies!FunctionBodyCfg(s)
           live == UNION {b..Bodies!BlockEnd(s, b) : b \in Bodies!Reachable(G) \ {sink}}
<1>1. /\ IsBlockGraph(G) /\ G.blocks = Bodies!Leaders(s) \cup {sink} /\ sink \notin Bodies!Leaders(s)
      /\ Len(s) \in Nat /\ DOMAIN s = 1..Len(s)
  BY ScriptIsGraph, ScriptIs
<1>2. out = Bodies!Joined(P)
  BY Zenon DEF Bodies!FunctionBodyCfg
<1>3. looped \in Seq(BodyText) /\ OwnLines(looped) /\ Len(looped) = Len(s) /\ \A j \in 1..Len(s) : looped[j] = Bodies!LoopLine(s, j)
  BY <1>1, TextsOfLines
<1> HIDE DEF looped, G
<1>4. /\ walk \in BlockWalks(G) /\ Distinct(walk) /\ Seen(walk) = Bodies!Reachable(G)
      /\ order \in Seq(G.blocks) /\ DOMAIN order = 1..n /\ n \in Nat /\ Seen(walk) \subseteq G.blocks
  BY <1>1, WalkReachesAll, WalkIs
<1>5. /\ \A k \in 1..n : order[k] = sink \/ order[k] \in Bodies!Leaders(s)
      /\ \A j, k \in 1..n : order[j] = order[k] => j = k
      /\ Bodies!Reachable(G) = {order[k] : k \in 1..n}
  <2>1. Bodies!Reachable(G) = {order[k] : k \in 1..n}
    BY <1>4 DEF Seen, Bodies!ToSet
  <2>2. \A j, k \in 1..n : order[j] = order[k] => j = k
    BY <1>4 DEF Distinct
  <2>3. \A k \in 1..n : order[k] \in G.blocks
    BY <1>4, ElementOfSeq
  <2> QED
    BY <1>1, <2>1, <2>2, <2>3
<1> HIDE DEF walk, order, n, sink
<1>6. ASSUME NEW k \in 1..n, order[k] # sink
      PROVE  /\ Piece(k) \in BodyText /\ Bodies!OnlyOnce(Piece(k))
             /\ Says(Piece(k)) = UNION {Says(looped[i]) : i \in order[k]..End(order[k])}
             /\ Says(Piece(k)) \subseteq order[k]..End(order[k])
             /\ \A x, y \in Int : x < y => Follows(Piece(k), x, y)
             /\ order[k] \in Bodies!Leaders(s) /\ order[k]..End(order[k]) \subseteq 1..Len(s)
  <2>1. order[k] \in Bodies!Leaders(s) /\ Piece(k) = Bodies!Lines(looped, order[k], End(order[k]))
    BY <1>5, <1>6
  <2>2. order[k] \in 1..Len(s) /\ End(order[k]) \in order[k]..Len(s)
    BY <2>1, BlocksEnd
  <2> HIDE DEF Piece, End
  <2>3. order[k] \in Nat \ {0} /\ End(order[k]) \in Int /\ End(order[k]) <= Len(looped) /\ order[k]..End(order[k]) \subseteq 1..Len(s)
    BY <1>1, <1>3, <2>2
  <2> QED
    BY <1>3, <2>1, <2>3, LinesAreOwn
<1>7. ASSUME NEW k \in 1..n, order[k] = sink
      PROVE  Piece(k) = <<>> /\ Piece(k) \in BodyText /\ Bodies!OnlyOnce(Piece(k)) /\ Says(Piece(k)) = {}
             /\ \A x, y \in Int : Follows(Piece(k), x, y)
  <2>1. Piece(k) = <<>>
    BY <1>7
  <2>2. DOMAIN <<>> = {}
    OBVIOUS
  <2> HIDE DEF Piece
  <2> QED
    BY <2>1, <2>2, NothingIsText DEF Follows
<1>8. P \in Seq(BodyText) /\ Len(P) = n /\ \A k \in 1..n : P[k] = Piece(k)
  <2>1. \A k \in 1..n : Piece(k) \in BodyText
    BY <1>6, <1>7
  <2> HIDE DEF Piece
  <2> QED
    BY <1>4, <2>1, IsASeq
<1> HIDE DEF P, Piece
<1>9. Apart(P) /\ \A k \in 1..Len(P) : Bodies!OnlyOnce(P[k])
  <2>1. ASSUME NEW j \in 1..n, NEW k \in 1..n, j # k PROVE Says(P[j]) \cap Says(P[k]) = {}
    <3>1. CASE order[j] = sink \/ order[k] = sink
      BY <1>7, <1>8, <3>1
    <3>2. CASE order[j] # sink /\ order[k] # sink
      <4>1. /\ Says(P[j]) \subseteq order[j]..End(order[j]) /\ Says(P[k]) \subseteq order[k]..End(order[k])
            /\ order[j] \in Bodies!Leaders(s) /\ order[k] \in Bodies!Leaders(s) /\ order[j] # order[k]
        BY <1>5, <1>6, <1>8, <2>1, <3>2
      <4>2. order[j]..End(order[j]) \cap order[k]..End(order[k]) = {}
        BY <4>1, BlocksArePlaces
      <4> QED
        BY <4>1, <4>2
    <3> QED
      BY <3>1, <3>2
  <2> QED
    BY <1>6, <1>7, <1>8, <2>1 DEF Apart
<1>10. out \in BodyText /\ Bodies!OnlyOnce(out) /\ Says(out) = UNION {Says(P[k]) : k \in 1..Len(P)}
  BY <1>2, <1>8, <1>9, JoinedOnce
<1>11. \A i \in Int : i \in Says(out) <=> <<"line", i>> \in Bodies!ToSet(out)
  BY DEF Says, Bodies!ToSet
<1>12. live = UNION {order[k]..End(order[k]) : k \in {j \in 1..n : order[j] # sink}}
  BY <1>5
<1> HIDE DEF out, live
<1>13. ASSUME NEW i \in Says(out) PROVE i \in live
  <2>1. PICK k \in 1..n : i \in Says(Piece(k))
    BY <1>8, <1>10
  <2>2. order[k] # sink
    BY <1>7, <2>1
  <2>3. i \in order[k]..End(order[k])
    BY <1>6, <2>1, <2>2
  <2> QED
    BY <1>12, <2>2, <2>3
<1>14. ASSUME NEW i \in live, s[i].op \in {"stmt", "let"} PROVE i \in Says(out)
  <2>1. PICK k \in 1..n : order[k] # sink /\ i \in order[k]..End(order[k])
    BY <1>12
  <2>2. i \in 1..Len(s) /\ i \in Int
    BY <1>1, <1>6, <2>1
  <2>3. i \in Says(looped[i])
    BY <1>3, <1>14, <2>2, LoopLineIsOwn
  <2>4. i \in Says(Piece(k))
    BY <1>6, <2>1, <2>3
  <2> QED
    BY <1>8, <1>10, <2>4
<1>15. ASSUME NEW i \in (1..Len(s)) \ Bodies!Leaders(s) PROVE Follows(out, i - 1, i)
  <2>0. i \in Int /\ i - 1 \in Int /\ i - 1 < i
    BY <1>1
  <2>1. \A k \in 1..n : Follows(P[k], i - 1, i)
    BY <1>6, <1>7, <1>8, <2>0
  <2>2. ASSUME NEW j \in 1..n, NEW k \in 1..n, j < k, i \in Says(P[j]), i - 1 \in Says(P[k]) PROVE FALSE
    <3>1. order[j] # sink /\ order[k] # sink
      BY <1>7, <1>8, <2>2
    <3>2. /\ i \in order[j]..End(order[j]) /\ i - 1 \in order[k]..End(order[k])
          /\ order[j] \in Bodies!Leaders(s) /\ order[k] \in Bodies!Leaders(s)
      BY <1>6, <1>8, <2>2, <3>1
    <3>3. order[j] \in Int /\ End(order[j]) \in Int
      <4>1. order[j] \in 1..Len(s) /\ End(order[j]) \in order[j]..Len(s)
        BY <3>2, BlocksEnd
      <4> QED
        BY <1>1, <4>1
    <3>4. i # order[j]
      BY <3>2
    <3> HIDE DEF End
    <3>5. i - 1 \in order[j]..End(order[j])
      BY <2>0, <3>2, <3>3, <3>4
    <3>6. order[j] # order[k]
      <4>1. j # k
        BY <1>4, <2>2
      <4> QED
        BY <1>5, <4>1
    <3>7. order[j]..End(order[j]) \cap order[k]..End(order[k]) = {}
      BY <3>2, <3>6, BlocksArePlaces DEF End
    <3> QED
      BY <3>2, <3>5, <3>7
  <2>3. \A j, k \in 1..Len(P) : j < k => i \notin Says(P[j]) \/ i - 1 \notin Says(P[k])
    BY <1>8, <2>2
  <2> QED
    BY <1>2, <1>8, <1>9, <2>0, <2>1, <2>3, JoinedFollows
<1>16. /\ Bodies!OnlyOnce(out)
       /\ \A i \in DOMAIN s : <<"line", i>> \in Bodies!ToSet(out) => i \in live
       /\ \A i \in live : s[i].op \in {"stmt", "let"} => <<"line", i>> \in Bodies!ToSet(out)
       /\ \A j, k \in DOMAIN out : \A i \in (DOMAIN s) \ Bodies!Leaders(s) :
            out[j] = <<"line", i - 1>> /\ out[k] = <<"line", i>> => j < k
  <2>1. \A i \in DOMAIN s : <<"line", i>> \in Bodies!ToSet(out) => i \in live
    <3>1. \A i \in DOMAIN s : i \in Int
      BY <1>1
    <3> QED
      BY <1>11, <1>13, <3>1
  <2>2. \A i \in live : s[i].op \in {"stmt", "let"} => <<"line", i>> \in Bodies!ToSet(out)
    <3>1. \A i \in live : i \in Int
      BY <1>12
    <3> QED
      BY <1>11, <1>14, <3>1
  <2> QED
    BY <1>1, <1>10, <1>15, <2>1, <2>2 DEF Follows
<1> QED
  BY <1>16, Zenon DEF Bodies!CfgBodyIsReachable, out, live, G, sink

-----------------------------------------------------------------------------
\* Every script gives bodies that end, say no statement twice and, along the
\* graph, say what can run and nothing else; the rate covers every jump.
THEOREM BodiesStaySound ==
  ASSUME c.p = "script" => c.s \in Script
  PROVE  BodiesAreSound
<1> SUFFICES ASSUME c.p = "script"
             PROVE  /\ Bodies!NothingTwice(c.s) /\ Bodies!CfgBodyIsReachable(c.s)
                    /\ Bodies!ReconstructEnds(c.s) /\ Bodies!RateAccountsForAll(c.s)
  BY DEF BodiesAreSound
<1>1. c.s \in Script
  OBVIOUS
<1> QED
  BY <1>1, BodyIsOnce, BodyFollowsGraph, RegionsAreWritten, RateCoversJumps

=============================================================================
