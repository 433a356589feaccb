-------------------------- MODULE ReaderCases_proofs --------------------------
(***************************************************************************)
(* The archive over files of any length and any bytes, the pak container   *)
(* for any sizes of its fields, packages of any two files, the header of a *)
(* package and the objects of its linker for tables of any length; and of  *)
(* the IoStore container how it opens and finds a chunk, with the facts on *)
(* loops and ranges that the proofs of what it reads rest on.              *)
(***************************************************************************)
EXTENDS ReaderCases, DataInduction, SequenceTheorems

File == Seq(0..(Base - 1))

-----------------------------------------------------------------------------
(* Reads and words.                                                         *)

LEMMA ReadMoves ==
  ASSUME NEW f \in File, NEW at \in 0..Len(f), NEW n \in Int
  PROVE  /\ Bytes!Read(f, at, n).err \in BOOLEAN
         /\ Bytes!Read(f, at, n).at \in 0..Len(f)
         /\ Bytes!Read(f, at, n).err => Bytes!Read(f, at, n).at = at
         /\ ~Bytes!Read(f, at, n).err =>
              /\ n \in Nat /\ Bytes!Read(f, at, n).at = at + n
              /\ Bytes!Read(f, at, n).val = SubSeq(f, at + 1, at + n)
<1>1. Len(f) \in Nat
  BY DEF File
<1> QED
  BY <1>1 DEF Bytes!Read, Bytes!Ok, Bytes!Raise

\* The value of digits, as a recursive function over their number.
Numeral(ds, n, v) == v = [k \in 0..n |-> IF k = 0 THEN 0 ELSE v[k - 1] * Base + ds[k]]

LEMMA NextIsNumber ==
  ASSUME NEW m \in Nat, NEW d \in Nat
  PROVE  m * Base + d \in Nat
<1>1. Base \in Nat
  BY ArchiveAssumption
<1>2. m * Base \in Nat
  BY ONLY <1>1, m \in Nat
<1> QED
  BY ONLY <1>2, d \in Nat

LEMMA NumeralIsNumber ==
  ASSUME NEW n \in Nat, NEW ds \in [1..n -> Nat]
  PROVE  (CHOOSE v : Numeral(ds, n, v))[n] \in Nat
<1> DEFINE h == [x \in (1..n) \X Nat |-> x[2] * Base + ds[x[1]]]
<1>1. h \in [(1..n) \X Nat -> Nat]
  <2>1. ASSUME NEW x \in (1..n) \X Nat PROVE x[2] * Base + ds[x[1]] \in Nat
    <3>1. x[2] \in Nat /\ ds[x[1]] \in Nat
      OBVIOUS
    <3> QED
      BY <3>1, NextIsNumber
  <2> QED
    BY <2>1
<1>2. \A k \in 1..n : \A m \in Nat : h[<<k, m>>] = m * Base + ds[k]
  OBVIOUS
<1> HIDE DEF h
<1>3. PICK v \in [0..n -> Nat] : v[0] = 0 /\ \A k \in 1..n : v[k] = h[<<k, v[k - 1]>>]
  <2>1. HasRecursion(Nat, 0, n, h)
    BY <1>1, RecursiveFunction
  <2> QED
    BY <2>1 DEF HasRecursion
<1>4. Numeral(ds, n, v)
  <2>1. ASSUME NEW k \in 0..n PROVE v[k] = IF k = 0 THEN 0 ELSE v[k - 1] * Base + ds[k]
    <3>1. CASE k # 0
      <4>1. k \in 1..n /\ v[k - 1] \in Nat
        BY <3>1
      <4> QED
        BY <1>2, <1>3, <3>1, <4>1
    <3> QED
      BY <1>3, <3>1
  <2> QED
    BY <2>1 DEF Numeral
<1>5. PICK w : w = (CHOOSE u : Numeral(ds, n, u)) /\ Numeral(ds, n, w)
  BY <1>4
<1>6. w[0] = 0 /\ \A k \in 1..n : w[k] = w[k - 1] * Base + ds[k]
  <2>1. 0 \in 0..n /\ \A k \in 1..n : k \in 0..n /\ k # 0
    OBVIOUS
  <2>2. \A k \in 0..n : w[k] = IF k = 0 THEN 0 ELSE w[k - 1] * Base + ds[k]
    BY <1>5 DEF Numeral
  <2> QED
    BY <2>1, <2>2
<1> DEFINE P == {k \in Nat : k <= n => w[k] \in Nat}
<1>7. 0 \in P
  BY <1>6
<1>8. ASSUME NEW k \in P PROVE k + 1 \in P
  <2> SUFFICES ASSUME k + 1 <= n PROVE w[k + 1] \in Nat
    OBVIOUS
  <2>1. k + 1 \in 1..n /\ k + 1 - 1 = k /\ w[k] \in Nat /\ ds[k + 1] \in Nat
    OBVIOUS
  <2>2. w[k + 1] = w[k] * Base + ds[k + 1]
    BY <1>6, <2>1
  <2>3. w[k] * Base + ds[k + 1] \in Nat
    BY <2>1, NextIsNumber
  <2> QED
    BY <2>2, <2>3
<1> HIDE DEF P
<1>9. P = Nat
  BY <1>7, <1>8, NaturalsByInduction DEF P
<1> QED
  BY <1>5, <1>9 DEF P

LEMMA ValueIsNumber ==
  ASSUME NEW ds \in File, NEW swapped \in BOOLEAN
  PROVE  Bytes!Value(ds, swapped) \in Nat
<1> DEFINE back == [i \in DOMAIN ds |-> ds[Len(ds) - i + 1]]
           big == IF swapped THEN ds ELSE back
           n == Len(ds)
<1>1. n \in Nat /\ big \in [1..n -> Nat]
  <2>1. n \in Nat /\ ds \in [1..n -> Nat]
    BY ArchiveAssumption DEF File
  <2>2. back = [i \in 1..n |-> ds[n - i + 1]]
    BY <2>1
  <2>3. \A i \in 1..n : n - i + 1 \in 1..n
    BY <2>1
  <2> HIDE DEF n
  <2> QED
    BY <2>1, <2>2, <2>3
<1>2. Bytes!Value(ds, swapped) = (CHOOSE v : Numeral(big, n, v))[n]
  BY Zenon DEF Bytes!Value, Numeral
<1> QED
  BY <1>1, <1>2, NumeralIsNumber

LEMMA SubSeqIsFile ==
  ASSUME NEW f \in File, NEW at \in 0..Len(f), NEW n \in Nat, at + n <= Len(f)
  PROVE  SubSeq(f, at + 1, at + n) \in File
<1>1. /\ at + 1 \in Int /\ at + n \in Int
      /\ \A i \in (at + 1)..(at + n) : f[i] \in 0..(Base - 1)
  BY ArchiveAssumption DEF File
<1> QED
  BY ONLY SubSeqProperties, <1>1 DEF File

LEMMA WordIsRead ==
  ASSUME NEW f \in File, NEW at \in 0..Len(f), NEW swapped \in BOOLEAN
  PROVE  LET r == Bytes!ReadU(f, at, swapped) IN
         /\ r.err \in BOOLEAN /\ r.at \in 0..Len(f)
         /\ r.err => r.at = at /\ at + WordBytes > Len(f)
         /\ ~r.err => r.at = at + WordBytes /\ r.val \in Nat
<1> DEFINE r == Bytes!Read(f, at, WordBytes)
<1>1. /\ r.err \in BOOLEAN /\ r.at \in 0..Len(f)
      /\ r.err => r.at = at
      /\ ~r.err => r.at = at + WordBytes /\ r.val = SubSeq(f, at + 1, at + WordBytes)
  BY ReadMoves, ArchiveAssumption
<1>2. r.err => at + WordBytes > Len(f)
  BY ArchiveAssumption DEF Bytes!Read, Bytes!Ok, File
<1>3. ~r.err => r.val \in File
  <2>1. ~r.err => SubSeq(f, at + 1, at + WordBytes) \in File
    <3>1. ~r.err => at + WordBytes <= Len(f)
      BY <1>1 DEF File
    <3> QED
      BY <3>1, SubSeqIsFile, ArchiveAssumption
  <2> QED
    BY <1>1, <2>1
<1>4. ~r.err => Bytes!Value(r.val, swapped) \in Nat
  BY <1>3, ValueIsNumber
<1> HIDE DEF r
<1>5. Bytes!ReadU(f, at, swapped) = IF r.err THEN r ELSE Bytes!Ok(r.at, Bytes!Value(r.val, swapped))
  BY DEF Bytes!ReadU, r
<1>6. CASE r.err
  BY <1>1, <1>2, <1>5, <1>6
<1>7. CASE ~r.err
  BY <1>1, <1>4, <1>5, <1>7 DEF Bytes!Ok
<1> QED
  BY <1>1, <1>6, <1>7

LEMMA NumberIsRead ==
  ASSUME NEW f \in File, NEW at \in 0..Len(f), NEW swapped \in BOOLEAN
  PROVE  LET r == Bytes!ReadI(f, at, swapped) IN
         /\ r.err \in BOOLEAN /\ r.at \in 0..Len(f)
         /\ r.err => r.at = at /\ at + WordBytes > Len(f)
         /\ ~r.err => r.at = at + WordBytes /\ r.val \in Int
<1> DEFINE r == Bytes!ReadU(f, at, swapped)
           number == IF 2 * r.val >= Base ^ WordBytes THEN r.val - Base ^ WordBytes ELSE r.val
<1>1. /\ r.err \in BOOLEAN /\ r.at \in 0..Len(f)
      /\ r.err => r.at = at /\ at + WordBytes > Len(f)
      /\ ~r.err => r.at = at + WordBytes /\ r.val \in Nat
  BY WordIsRead
<1>2. Base ^ WordBytes \in Int
  BY ArchiveAssumption
<1>3. ~r.err => number \in Int
  BY <1>1, <1>2
<1> HIDE DEF r
<1>4. Bytes!ReadI(f, at, swapped) = IF r.err THEN r ELSE Bytes!Ok(r.at, number)
  BY DEF Bytes!ReadI, r
<1> HIDE DEF number
<1>5. CASE r.err
  BY <1>1, <1>4, <1>5
<1>6. CASE ~r.err
  BY <1>1, <1>3, <1>4, <1>6 DEF Bytes!Ok
<1> QED
  BY <1>1, <1>5, <1>6

-----------------------------------------------------------------------------
(* Strings: what reading one does to the position, and how a tolerant       *)
(* archive follows a strict one.                                            *)

\* What is promised of the answer x of a read at "at", and of the answers of
\* the two modes.
Answer(f, at, x) == x.err \in BOOLEAN /\ x.at \in 0..Len(f) /\ (~x.err => x.at >= at)
Restores(f, at, strict, kind) ==
  /\ Answer(f, at, strict) /\ Answer(f, at, kind)
  /\ strict.err => strict.at = at
  /\ ~strict.err => kind = strict /\ strict.at >= at + WordBytes
  /\ ~kind.err
  /\ kind.val # <<>> => ~strict.err

\* Refused by both; blank and so refused by the strict one; read by both.
LEMMA AnswersRestore ==
  ASSUME NEW f \in File, NEW at \in 0..Len(f), NEW end \in 0..Len(f), end >= at, NEW val
  PROVE  /\ Restores(f, at, Bytes!Raise(at), Bytes!Ok(end, <<>>))
         /\ end >= at + WordBytes => Restores(f, at, Bytes!Ok(end, val), Bytes!Ok(end, val))
<1>1. Len(f) \in Nat /\ WordBytes \in Nat
  BY ArchiveAssumption DEF File
<1>2. /\ Answer(f, at, Bytes!Raise(at)) /\ Bytes!Raise(at).err = TRUE /\ Bytes!Raise(at).at = at
      /\ \A v : /\ Answer(f, at, Bytes!Ok(end, v)) /\ Bytes!Ok(end, v).err = FALSE
                /\ Bytes!Ok(end, v).at = end /\ Bytes!Ok(end, v).val = v
  BY <1>1 DEF Answer, Bytes!Raise, Bytes!Ok
<1> QED
  BY <1>1, <1>2 DEF Restores

LEMMA Utf16Restores ==
  ASSUME NEW f \in File, NEW at \in 0..Len(f), NEW n \in Nat, at + WordBytes <= Len(f)
  PROVE  Restores(f, at, Bytes!Utf16(f, at, n, FALSE), Bytes!Utf16(f, at, n, TRUE))
<1> DEFINE text == Bytes!RStrip(Bytes!Units(SubSeq(f, at + WordBytes + 1, at + WordBytes + n)))
           end == at + WordBytes + n
<1>1. Len(f) \in Nat /\ WordBytes \in Nat /\ end \in Nat /\ end >= at + WordBytes /\ end >= at
  BY ArchiveAssumption DEF File
<1>2. ~Bytes!TooLong(f, at, n) => end \in 0..Len(f)
  BY <1>1 DEF Bytes!TooLong
<1>3. Bytes!Utf16(f, at, n, FALSE) = IF Bytes!TooLong(f, at, n) \/ text = <<>> THEN Bytes!Raise(at)
                                     ELSE Bytes!Ok(end, text)
  BY DEF Bytes!Utf16, Bytes!Refuse
<1>4. Bytes!Utf16(f, at, n, TRUE) = IF Bytes!TooLong(f, at, n) THEN Bytes!Ok(at, <<>>)
                                    ELSE Bytes!Ok(end, text)
  BY DEF Bytes!Utf16, Bytes!Refuse
<1> HIDE DEF text, end
<1>5. CASE Bytes!TooLong(f, at, n)
  <2>1. Restores(f, at, Bytes!Raise(at), Bytes!Ok(at, <<>>))
    BY <1>1, AnswersRestore
  <2> QED
    BY <1>3, <1>4, <1>5, <2>1
<1>6. CASE ~Bytes!TooLong(f, at, n) /\ text = <<>>
  BY <1>1, <1>2, <1>3, <1>4, <1>6, AnswersRestore
<1>7. CASE ~Bytes!TooLong(f, at, n) /\ text # <<>>
  BY <1>1, <1>2, <1>3, <1>4, <1>7, AnswersRestore
<1> QED
  BY <1>5, <1>6, <1>7

LEMMA Utf8Restores ==
  ASSUME NEW f \in File, NEW at \in 0..Len(f), NEW n \in Nat, at + WordBytes <= Len(f)
  PROVE  Restores(f, at, Bytes!Utf8(f, at, n, FALSE), Bytes!Utf8(f, at, n, TRUE))
<1> DEFINE text == Bytes!RStrip(SubSeq(f, at + WordBytes + 1, at + WordBytes + n))
           end == at + WordBytes + n
           nulls == {k \in DOMAIN text : text[k] = 0}
           blank == text = <<>> \/ (nulls # {} /\ Bytes!Min(nulls) = 1)
           padded == IF text = <<>> THEN end ELSE Bytes!AfterLeadingNull(f, end)
           cut == SubSeq(text, 1, IF nulls = {} THEN Len(text) ELSE Bytes!Min(nulls) - 1)
<1>1. Len(f) \in Nat /\ WordBytes \in Nat /\ end \in Nat /\ end >= at + WordBytes /\ end >= at
  BY ArchiveAssumption DEF File
<1>2. ~Bytes!TooLong(f, at, n) => end \in 0..Len(f)
  BY <1>1 DEF Bytes!TooLong
<1>3. padded \in {end, Len(f)}
  BY DEF Bytes!AfterLeadingNull
<1>4. Bytes!Utf8(f, at, n, FALSE) = IF Bytes!TooLong(f, at, n) \/ blank THEN Bytes!Raise(at)
                                    ELSE Bytes!Ok(end, cut)
  BY DEF Bytes!Utf8, Bytes!Refuse
<1>5. Bytes!Utf8(f, at, n, TRUE) = IF Bytes!TooLong(f, at, n) THEN Bytes!Ok(at, <<>>)
                                   ELSE IF blank THEN Bytes!Ok(padded, <<>>) ELSE Bytes!Ok(end, cut)
  BY DEF Bytes!Utf8, Bytes!Refuse
<1> HIDE DEF text, end, nulls, blank, padded, cut
<1>6. CASE Bytes!TooLong(f, at, n)
  <2>1. Restores(f, at, Bytes!Raise(at), Bytes!Ok(at, <<>>))
    BY <1>1, AnswersRestore
  <2> QED
    BY <1>4, <1>5, <1>6, <2>1
<1>7. CASE ~Bytes!TooLong(f, at, n) /\ blank
  <2>1. padded \in 0..Len(f) /\ padded >= at
    BY <1>1, <1>2, <1>3, <1>7
  <2> QED
    BY <1>4, <1>5, <1>7, <2>1, AnswersRestore
<1>8. CASE ~Bytes!TooLong(f, at, n) /\ ~blank
  BY <1>1, <1>2, <1>4, <1>5, <1>8, AnswersRestore
<1> QED
  BY <1>6, <1>7, <1>8

\* A string in either encoding, or a length that cannot be read.
StringRestores(f, at, swapped, strict, kind) ==
  IF Bytes!ReadI(f, at, swapped).err
  THEN /\ strict = Bytes!ReadI(f, at, swapped) /\ kind = strict
       /\ strict.err = TRUE /\ strict.at = at
  ELSE Restores(f, at, strict, kind)

LEMMA FStringRestores ==
  ASSUME NEW f \in File, NEW at \in 0..Len(f), NEW swapped \in BOOLEAN
  PROVE  StringRestores(f, at, swapped, Bytes!FString(f, at, swapped, FALSE),
                                        Bytes!FString(f, at, swapped, TRUE))
<1> DEFINE size == Bytes!ReadI(f, at, swapped)
<1>1. /\ size.err \in BOOLEAN /\ size.at \in 0..Len(f)
      /\ size.err => size.at = at
      /\ ~size.err => size.at = at + WordBytes /\ size.val \in Int
  BY NumberIsRead
<1>2. /\ Bytes!FString(f, at, swapped, FALSE) = Bytes!Characters(f, at, size, FALSE)
      /\ Bytes!FString(f, at, swapped, TRUE) = Bytes!Characters(f, at, size, TRUE)
  BY DEF Bytes!FString
<1>3. CASE size.err
  <2>1. /\ Bytes!Characters(f, at, size, FALSE) = size
        /\ Bytes!Characters(f, at, size, TRUE) = size
    BY <1>3 DEF Bytes!Characters
  <2> QED
    BY <1>1, <1>2, <1>3, <2>1 DEF StringRestores
<1>4. CASE ~size.err
  <2> DEFINE v == size.val
             Both(strict, kind) == /\ Bytes!Characters(f, at, size, FALSE) = strict
                                   /\ Bytes!Characters(f, at, size, TRUE) = kind
  <2>1. v \in Int /\ at + WordBytes <= Len(f) /\ size.at = at + WordBytes /\ Len(f) \in Nat /\ WordBytes \in Nat
    BY <1>1, <1>4, ArchiveAssumption DEF File
  <2>2. CASE v = 0
    <3>1. Both(Bytes!Ok(at + WordBytes, <<>>), Bytes!Ok(at + WordBytes, <<>>))
      BY <1>4, <2>1, <2>2 DEF Bytes!Characters
    <3>2. Restores(f, at, Bytes!Ok(at + WordBytes, <<>>), Bytes!Ok(at + WordBytes, <<>>))
      BY <2>1, AnswersRestore
    <3> QED
      BY <1>2, <1>4, <3>1, <3>2 DEF StringRestores
  <2>3. CASE v < 0
    <3>1. Both(Bytes!Utf16(f, at, -2 * v, FALSE), Bytes!Utf16(f, at, -2 * v, TRUE))
      <4>1. ~(v = 0) /\ ~(v > 0)
        BY <2>1, <2>3
      <4> QED
        BY <1>4, <2>3, <4>1, Zenon DEF Bytes!Characters
    <3>2. -2 * v \in Nat
      BY <2>1, <2>3
    <3> HIDE DEF v
    <3>3. Restores(f, at, Bytes!Utf16(f, at, -2 * v, FALSE), Bytes!Utf16(f, at, -2 * v, TRUE))
      BY <2>1, <3>2, Utf16Restores
    <3> QED
      BY <1>2, <1>4, <3>1, <3>3 DEF StringRestores
  <2>4. CASE v > 0
    <3>1. Both(Bytes!Utf8(f, at, v, FALSE), Bytes!Utf8(f, at, v, TRUE))
      <4>1. ~(v = 0) /\ ~(v < 0)
        BY <2>1, <2>4
      <4> QED
        BY <1>4, <2>4, <4>1, Zenon DEF Bytes!Characters
    <3>2. v \in Nat
      BY <2>1, <2>4
    <3> HIDE DEF v
    <3>3. Restores(f, at, Bytes!Utf8(f, at, v, FALSE), Bytes!Utf8(f, at, v, TRUE))
      BY <2>1, <3>2, Utf8Restores
    <3> QED
      BY <1>2, <1>4, <3>1, <3>3 DEF StringRestores
  <2>5. v = 0 \/ v < 0 \/ v > 0
    BY <2>1
  <2> HIDE DEF v
  <2> QED
    BY <2>2, <2>3, <2>4, <2>5
<1> QED
  BY <1>1, <1>3, <1>4

LEMMA FStringAnswers ==
  ASSUME NEW f \in File, NEW at \in 0..Len(f), NEW swapped \in BOOLEAN, NEW tolerant \in BOOLEAN
  PROVE  Bytes!FString(f, at, swapped, tolerant).at \in 0..Len(f)
<1> DEFINE strict == Bytes!FString(f, at, swapped, FALSE)
           kind == Bytes!FString(f, at, swapped, TRUE)
<1>1. StringRestores(f, at, swapped, strict, kind)
  BY FStringRestores
<1> HIDE DEF strict, kind
<1>2. strict.at \in 0..Len(f) /\ kind.at \in 0..Len(f)
  BY <1>1 DEF StringRestores, Restores, Answer
<1>3. tolerant = FALSE \/ tolerant = TRUE
  OBVIOUS
<1> QED
  BY <1>2, <1>3, Zenon DEF strict, kind

\* read_utf8_string and read_soft_object_path stay in the file as well.
LEMMA Utf8StringAnswers ==
  ASSUME NEW f \in File, NEW at \in 0..Len(f), NEW swapped \in BOOLEAN, NEW tolerant \in BOOLEAN
  PROVE  Bytes!Utf8String(f, at, swapped, tolerant).at \in 0..Len(f)
<1> DEFINE size == Bytes!ReadI(f, at, swapped)
           v == size.val
           text == Bytes!RStrip(SubSeq(f, at + WordBytes + 1, at + WordBytes + size.val))
           x == Bytes!Utf8Characters(f, at, size, tolerant)
           blank == text = <<>> /\ ~tolerant
<1>1. /\ size.err \in BOOLEAN /\ size.at \in 0..Len(f)
      /\ ~size.err => size.at = at + WordBytes /\ size.val \in Int
  BY NumberIsRead
<1>2. Len(f) \in Nat /\ WordBytes \in Nat
  BY ArchiveAssumption DEF File
<1>3. Bytes!Utf8String(f, at, swapped, tolerant) = x
  BY DEF Bytes!Utf8String
<1> HIDE DEF size
<1>4. CASE size.err
  <2>1. x = size
    BY <1>4 DEF Bytes!Utf8Characters
  <2> QED
    BY <1>1, <1>3, <2>1
<1>5. CASE ~size.err /\ v = 0
  <2>1. x = Bytes!Ok(size.at, <<>>)
    BY <1>5 DEF Bytes!Utf8Characters
  <2> QED
    BY <1>1, <1>3, <2>1 DEF Bytes!Ok
<1>6. CASE ~size.err /\ v < 0
  <2>1. ~(v = 0) /\ ~(v > 0)
    BY <1>1, <1>6
  <2>2. x = Bytes!Raise(size.at)
    BY <1>6, <2>1, Zenon DEF Bytes!Utf8Characters
  <2> QED
    BY <1>1, <1>3, <2>2 DEF Bytes!Raise
<1>7. CASE ~size.err /\ v > 0
  <2>1. ~(v = 0) /\ ~(v < 0) /\ v \in Nat
    BY <1>1, <1>7
  <2>2. CASE Bytes!TooLong(f, at, v)
    <3>1. x = Bytes!Refuse(at, tolerant)
      BY <1>7, <2>1, <2>2, Zenon DEF Bytes!Utf8Characters
    <3>2. Bytes!Refuse(at, tolerant).at = at
      BY DEF Bytes!Refuse, Bytes!Ok, Bytes!Raise
    <3> QED
      BY <1>3, <3>1, <3>2
  <2>3. CASE ~Bytes!TooLong(f, at, v)
    <3>1. x = IF blank THEN Bytes!Raise(at) ELSE Bytes!Ok(size.at + v, text)
      BY <1>7, <2>1, <2>3, Zenon DEF Bytes!Utf8Characters
    <3>2. size.at + v \in 0..Len(f)
      BY <1>1, <1>2, <1>7, <2>1, <2>3 DEF Bytes!TooLong
    <3> HIDE DEF x, text, v, blank
    <3>3. x.at \in {at, size.at + v}
      BY <3>1 DEF Bytes!Raise, Bytes!Ok
    <3> QED
      BY <1>3, <3>2, <3>3
  <2> QED
    BY <2>2, <2>3
<1>8. size.err \/ (~size.err /\ (v = 0 \/ v < 0 \/ v > 0))
  BY <1>1
<1> QED
  BY <1>4, <1>5, <1>6, <1>7, <1>8

LEMMA SoftObjectPathAnswers ==
  ASSUME NEW f \in File, NEW at \in 0..Len(f), NEW swapped \in BOOLEAN, NEW tolerant \in BOOLEAN
  PROVE  Bytes!SoftObjectPath(f, at, swapped, tolerant).at \in 0..Len(f)
<1>1. PICK path : path = Bytes!FString(f, at, swapped, tolerant) /\ path.at \in 0..Len(f)
  BY FStringAnswers
<1>2. Bytes!FString(f, path.at, swapped, tolerant).at \in 0..Len(f)
  BY <1>1, FStringAnswers
<1>3. Bytes!SoftObjectPath(f, at, swapped, tolerant) =
        IF path.err THEN path ELSE Bytes!FString(f, path.at, swapped, tolerant)
  BY <1>1 DEF Bytes!SoftObjectPath
<1> QED
  BY <1>1, <1>2, <1>3

\* The other moves of a reader, for every offset and every count.
LEMMA MovesAnswer ==
  ASSUME NEW f \in File, NEW at \in 0..Len(f), NEW n \in Int
  PROVE  /\ Bytes!Seek(f, at, n).at \in 0..Len(f)
         /\ Bytes!Seek(f, at, at + n).at \in 0..Len(f)
         /\ Bytes!SeekSafe(f, at, n).at \in 0..Len(f)
         /\ Bytes!ReadSafe(f, at, n).at \in 0..Len(f)
         /\ Bytes!CheckRemaining(f, at, n).at \in 0..Len(f)
         /\ Bytes!ReadArray(f, at, n, 2).at \in 0..Len(f)
         /\ Bytes!ReadBulkArray(f, at, 2, n).at \in 0..Len(f)
<1>1. Len(f) \in Nat /\ n * 2 \in Int /\ 2 * n \in Int
  BY DEF File
<1>2. \A m \in Int : Bytes!Read(f, at, m).at \in 0..Len(f)
  BY ReadMoves
<1>3. /\ Bytes!Seek(f, at, n).at \in 0..Len(f)
      /\ Bytes!Seek(f, at, at + n).at \in 0..Len(f)
      /\ Bytes!SeekSafe(f, at, n).at \in 0..Len(f)
      /\ Bytes!CheckRemaining(f, at, n).at \in 0..Len(f)
  BY <1>1 DEF Bytes!Seek, Bytes!SeekSafe, Bytes!CheckRemaining, Bytes!Ok, Bytes!Raise
<1>4. Bytes!ReadSafe(f, at, n).at \in 0..Len(f)
  BY <1>1, <1>2 DEF Bytes!ReadSafe, Bytes!Ok
<1>5. Bytes!ReadArray(f, at, n, 2).at \in 0..Len(f)
  BY <1>1, <1>2 DEF Bytes!ReadArray, Bytes!Raise
<1>6. Bytes!ReadBulkArray(f, at, 2, n).at \in 0..Len(f)
  BY <1>1, <1>2 DEF Bytes!ReadBulkArray, Bytes!Raise
<1> QED
  BY <1>3, <1>4, <1>5, <1>6

LEMMA PositionsStay ==
  ASSUME NEW f \in File, NEW swapped \in BOOLEAN, NEW tolerant \in BOOLEAN
  PROVE  Bytes!StaysInFile(f, swapped, tolerant)
<1> SUFFICES ASSUME NEW at \in 0..Len(f)
             PROVE  /\ Bytes!Left(f, at, swapped, tolerant) \subseteq 0..Len(f)
                    /\ \A n \in Bytes!Sizes(f) : Bytes!Read(f, at, n).err => Bytes!Read(f, at, n).at = at
  BY DEF Bytes!StaysInFile
<1>1. Bytes!Sizes(f) \subseteq Int
  BY DEF Bytes!Sizes, File
<1>2. \A n \in Bytes!Sizes(f) :
        /\ Bytes!Read(f, at, n).at \in 0..Len(f)
        /\ Bytes!Read(f, at, n).err => Bytes!Read(f, at, n).at = at
        /\ Bytes!Seek(f, at, n).at \in 0..Len(f)
        /\ Bytes!Seek(f, at, at + n).at \in 0..Len(f)
        /\ Bytes!SeekSafe(f, at, n).at \in 0..Len(f)
        /\ Bytes!ReadSafe(f, at, n).at \in 0..Len(f)
        /\ Bytes!CheckRemaining(f, at, n).at \in 0..Len(f)
        /\ Bytes!ReadArray(f, at, n, 2).at \in 0..Len(f)
        /\ Bytes!ReadBulkArray(f, at, 2, n).at \in 0..Len(f)
  BY <1>1, ReadMoves, MovesAnswer
<1>3. Bytes!ReadU(f, at, swapped).at \in 0..Len(f)
  BY WordIsRead
<1>4. Bytes!Peek(f, at, swapped).at \in 0..Len(f)
  <2>1. Bytes!ReadI(f, at, swapped).at \in 0..Len(f)
    BY NumberIsRead
  <2>2. Bytes!Peek(f, at, swapped).at = at
    BY DEF Bytes!Peek, Bytes!ReadI, Bytes!ReadU, Bytes!Read, Bytes!Ok, Bytes!Raise
  <2> QED
    BY <2>2
<1>5. /\ Bytes!FString(f, at, swapped, tolerant).at \in 0..Len(f)
      /\ Bytes!Utf8String(f, at, swapped, tolerant).at \in 0..Len(f)
      /\ Bytes!SoftObjectPath(f, at, swapped, tolerant).at \in 0..Len(f)
  BY FStringAnswers, Utf8StringAnswers, SoftObjectPathAnswers
<1>6. ASSUME NEW x \in Bytes!Left(f, at, swapped, tolerant)
      PROVE  x \in 0..Len(f)
  BY <1>2, <1>3, <1>4, <1>5, ZenonT(40) DEF Bytes!Left
<1> QED
  BY <1>2, <1>6

LEMMA StringsGoBack ==
  ASSUME NEW f \in File, NEW at \in 0..Len(f), NEW swapped \in BOOLEAN
  PROVE  Bytes!StringsRestore(f, at, swapped)
<1> DEFINE size == Bytes!ReadI(f, at, swapped)
           strict == Bytes!FString(f, at, swapped, FALSE)
           kind == Bytes!FString(f, at, swapped, TRUE)
<1>1. StringRestores(f, at, swapped, strict, kind)
  BY FStringRestores
<1>2. size.err \in BOOLEAN
  BY NumberIsRead
<1> HIDE DEF strict, kind
<1>3. /\ strict.err => strict.at = at
      /\ ~strict.err => kind = strict /\ strict.at >= at + WordBytes
      /\ kind.err => size.err
      /\ ~kind.err => kind.at >= at /\ (kind.val # <<>> => ~strict.err)
  BY <1>1, <1>2 DEF StringRestores, Restores, Answer
<1> QED
  BY <1>3 DEF Bytes!StringsRestore, strict, kind

-----------------------------------------------------------------------------
(* Names.                                                                   *)

\* What the recovery finds: a place in the file whose first word is an index.
LEMMA RecoveredIsOfTheTable ==
  ASSUME NEW f \in File, NEW at \in 0..Len(f), NEW swapped \in BOOLEAN, NEW names \in Nat
  PROVE  LET x == Bytes!TryRecover(f, at, swapped, names) IN
         /\ x.err \in BOOLEAN
         /\ ~x.err => x.at <= Len(f) /\ x.val # <<>> /\ x.val[1] < names
<1> DEFINE Fits(d) == /\ at + d >= 0 /\ at + d + 2 * WordBytes <= Len(f)
                      /\ Bytes!ReadU(f, at + d, swapped).val < names
           fits == {d \in {-2, -1, 1, 2} : Fits(d)}
           least == Bytes!Min(fits)
           p == at + least
           found == <<Bytes!ReadU(f, p, swapped).val, Bytes!ReadU(f, p + WordBytes, swapped).val>>
           x == Bytes!TryRecover(f, at, swapped, names)
<1>1. x = IF fits = {} THEN Bytes!Raise(at) ELSE Bytes!Ok(p + 2 * WordBytes, found)
  BY DEF Bytes!TryRecover
<1>2. fits # {} => least \in fits
  <2>1. fits \subseteq Int
    OBVIOUS
  <2>2. IsFiniteSet(fits)
    <3>1. PICK a \in Int : a = 0 - 2
      OBVIOUS
    <3>2. IsFiniteSet(a..2)
      BY ONLY FS_Interval, a \in Int
    <3>3. fits \subseteq a..2
      BY <3>1
    <3> QED
      BY <3>2, <3>3, FS_Subset
  <2> HIDE DEF fits
  <2>3. fits # {} => Min(fits) \in fits
    BY <2>1, <2>2, MinIsLeast
  <2>4. Bytes!Min(fits) = Min(fits)
    BY Zenon DEF Bytes!Min, Min
  <2> QED
    BY <2>3, <2>4
<1>3. fits # {} => p + 2 * WordBytes <= Len(f) /\ Bytes!ReadU(f, p, swapped).val < names
  <2> HIDE DEF least
  <2> QED
    BY <1>2
<1> HIDE DEF x, fits, p, least
<1>4. CASE fits = {}
  <2>1. x.err = TRUE
    BY <1>1, <1>4 DEF Bytes!Raise
  <2> QED
    BY <2>1 DEF x
<1>5. CASE fits # {}
  <2>1. /\ x.err = FALSE /\ x.at = p + 2 * WordBytes
        /\ x.val = found
    BY <1>1, <1>5 DEF Bytes!Ok
  <2>2. found # <<>> /\ found[1] = Bytes!ReadU(f, p, swapped).val
    OBVIOUS
  <2> QED
    BY <1>3, <1>5, <2>1, <2>2 DEF x
<1> QED
  BY <1>4, <1>5

LEMMA NamesAreOfTheTable ==
  ASSUME NEW f \in File, NEW at \in 0..Len(f), NEW swapped \in BOOLEAN, NEW names \in Nat
  PROVE  Bytes!NameIsOfTheTable(f, at, swapped, names)
<1> DEFINE index == Bytes!ReadU(f, at, swapped)
           number == Bytes!ReadU(f, index.at, swapped)
           shifted == Bytes!TryRecover(f, at, swapped, names)
           read == <<index.val, number.val>>
           strict == Bytes!ReadName(f, at, swapped, FALSE, names)
           kind == Bytes!ReadName(f, at, swapped, TRUE, names)
           whole == ~index.err /\ ~number.err
<1>1. Len(f) \in Nat /\ WordBytes \in Nat /\ at \in Nat
  BY ArchiveAssumption DEF File
<1>2. /\ index.err \in BOOLEAN /\ index.at \in 0..Len(f)
      /\ index.err => at + WordBytes > Len(f)
      /\ ~index.err => index.at = at + WordBytes /\ index.val \in Nat
  BY WordIsRead
<1>3. /\ number.err \in BOOLEAN /\ number.at \in 0..Len(f)
      /\ number.err => index.at + WordBytes > Len(f)
      /\ ~number.err => number.at = index.at + WordBytes
  <2>1. index.at \in 0..Len(f)
    BY <1>2
  <2> HIDE DEF index
  <2> QED
    BY <2>1, WordIsRead
<1>4. shifted.err \in BOOLEAN /\ (~shifted.err => shifted.at <= Len(f) /\ shifted.val[1] < names)
  BY RecoveredIsOfTheTable
<1>5. strict = IF index.err THEN index ELSE IF number.err THEN number
               ELSE IF index.val < names THEN Bytes!Ok(number.at, read) ELSE Bytes!Raise(number.at)
  BY DEF Bytes!ReadName
<1>6. kind = IF index.err THEN index ELSE IF number.err THEN number
             ELSE IF index.val > Threshold /\ ~shifted.err THEN shifted
             ELSE IF index.val < names THEN Bytes!Ok(number.at, read) ELSE Bytes!Ok(number.at, <<>>)
  BY DEF Bytes!ReadName
<1>7. read[1] = index.val
  OBVIOUS
<1> HIDE DEF index, number, shifted, read, strict, kind
<1>8. whole => number.at = at + 2 * WordBytes
  BY <1>1, <1>2, <1>3
<1>9. ~whole => at + 2 * WordBytes > Len(f)
  BY <1>1, <1>2, <1>3
<1>10. ASSUME ~strict.err
       PROVE  strict.val[1] = index.val /\ strict.val[1] < names /\ strict.at = at + 2 * WordBytes
  <2>1. whole /\ index.val < names
    BY <1>5, <1>10 DEF Bytes!Raise
  <2>2. strict = Bytes!Ok(number.at, read)
    BY <1>5, <2>1
  <2> QED
    BY <1>7, <1>8, <2>1, <2>2 DEF Bytes!Ok
<1>11. ASSUME kind.err PROVE at + 2 * WordBytes > Len(f)
  <2>1. ~whole
    BY <1>4, <1>6, <1>11 DEF Bytes!Ok
  <2> QED
    BY <1>9, <2>1
<1>12. ASSUME ~kind.err PROVE kind.at <= Len(f) /\ (kind.val # <<>> => kind.val[1] < names)
  <2>1. whole
    BY <1>6, <1>12
  <2>2. CASE kind = shifted /\ ~shifted.err
    BY <1>4, <2>2
  <2>3. CASE kind = Bytes!Ok(number.at, read) /\ index.val < names
    BY <1>1, <1>3, <1>7, <2>3 DEF Bytes!Ok
  <2>4. CASE kind = Bytes!Ok(number.at, <<>>)
    BY <1>1, <1>3, <2>4 DEF Bytes!Ok
  <2> QED
    BY <1>6, <2>1, <2>2, <2>3, <2>4
<1> QED
  BY <1>10, <1>11, <1>12 DEF Bytes!NameIsOfTheTable, index, strict, kind

-----------------------------------------------------------------------------
\* Whatever the bytes and the size of a file, in both modes and byte orders: no
\* read, seek or string leaves the file, a refused string gives its position
\* back, a tolerant archive differs only where the strict one refuses, and a
\* name is one of the table (FArchive).
THEOREM ReadsAlwaysStayInside ==
  ASSUME c.f \in Seq(0..(Base - 1))
  PROVE  ReadsStayInside
<1>1. c.f \in File
  BY DEF File
<1>2. \A swapped \in BOOLEAN : \A tolerant \in BOOLEAN : Bytes!StaysInFile(c.f, swapped, tolerant)
  BY <1>1, PositionsStay
<1>3. \A swapped \in BOOLEAN : \A at \in 0..Len(c.f) : Bytes!StringsRestore(c.f, at, swapped)
  BY <1>1, StringsGoBack
<1>4. \A swapped \in BOOLEAN : \A at \in 0..Len(c.f) : \A names \in TableSizes :
        Bytes!NameIsOfTheTable(c.f, at, swapped, names)
  BY <1>1, NamesAreOfTheTable, ArchiveAssumption
<1> QED
  BY <1>2, <1>3, <1>4 DEF ReadsStayInside

\* No read that is refused has consumed a byte, for any count asked of it
\* (FArchive.read).
THEOREM RefusedReadsStay ==
  \A f \in Seq(0..(Base - 1)) : \A at \in 0..Len(f), n \in Int :
    /\ Bytes!Read(f, at, n).at \in 0..Len(f)
    /\ Bytes!Read(f, at, n).err <=> n < 0 \/ at + n > Len(f)
    /\ Bytes!Read(f, at, n).at # at => ~Bytes!Read(f, at, n).err
<1> SUFFICES ASSUME NEW f \in File, NEW at \in 0..Len(f), NEW n \in Int
             PROVE  /\ Bytes!Read(f, at, n).at \in 0..Len(f)
                    /\ Bytes!Read(f, at, n).err <=> n < 0 \/ at + n > Len(f)
                    /\ Bytes!Read(f, at, n).at # at => ~Bytes!Read(f, at, n).err
  BY DEF File
<1>1. Len(f) \in Nat
  BY DEF File
<1>2. Bytes!Read(f, at, n).err <=> n < 0 \/ at + n > Len(f)
  BY <1>1 DEF Bytes!Read, Bytes!Ok, Bytes!Raise
<1> QED
  BY <1>2, ReadMoves

-----------------------------------------------------------------------------
(* Packed entries.                                                          *)

PackedEntry == [at : Nat, full : Nat, size : Nat, method : Nat, encrypted : BOOLEAN, count : Nat, blockSize : Nat]

\* The number at the head of words, as wide as it is packed, and what is behind.
Taken(ws, n) == IF n < Word32 THEN ws[1] ELSE ws[1] + Word32 * ws[2]
Behind(ws, n) == SubSeq(ws, IF n < Word32 THEN 2 ELSE 3, Len(ws))

LEMMA PackedIsWords ==
  ASSUME NEW n \in Nat
  PROVE  Pak!Packed(n) \in Seq(Nat)
<1>1. n % Word32 \in Nat /\ n \div Word32 \in Nat
  BY PakAssumption
<1> QED
  BY <1>1 DEF Pak!Packed

\* A number is the words it was packed in, whatever comes behind them.
LEMMA PackedIsTaken ==
  ASSUME NEW n \in Nat, NEW rest \in Seq(Nat), NEW ws, ws = Pak!Packed(n) \o rest
  PROVE  Taken(ws, n) = n /\ Behind(ws, n) = rest
<1>1. Word32 \in Nat \ {0}
  BY PakAssumption
<1>2. n % Word32 \in Nat /\ n \div Word32 \in Nat /\ (n % Word32) + Word32 * (n \div Word32) = n
  BY ONLY <1>1, n \in Nat
<1>3. CASE n < Word32
  <2>1. ws = <<n>> \o rest
    BY <1>3 DEF Pak!Packed
  <2>2. ws \in Seq(Nat) /\ Len(ws) = 1 + Len(rest) /\ ws[1] = n /\ \A i \in 1..Len(rest) : ws[i + 1] = rest[i]
    BY <2>1
  <2>3. SubSeq(ws, 2, Len(ws)) = rest
    BY <2>2
  <2> QED
    BY <1>3, <2>2, <2>3 DEF Taken, Behind
<1>4. CASE ~(n < Word32)
  <2>1. PICK lo \in Nat, hi \in Nat : lo = n % Word32 /\ hi = n \div Word32
    BY <1>2
  <2>2. lo + Word32 * hi = n
    BY <1>2, <2>1
  <2>3. ws = <<lo, hi>> \o rest
    BY <1>4, <2>1 DEF Pak!Packed
  <2>4. /\ ws \in Seq(Nat) /\ Len(ws) = 2 + Len(rest) /\ ws[1] = lo /\ ws[2] = hi
        /\ \A i \in 1..Len(rest) : ws[i + 2] = rest[i]
    BY <2>3
  <2>5. SubSeq(ws, 3, Len(ws)) = rest
    BY <2>4
  <2> QED
    BY <1>4, <2>2, <2>4, <2>5 DEF Taken, Behind
<1> QED
  BY <1>3, <1>4

Chained(u, x, y, z) == ((u \o x) \o y) \o z
Nested(u, x, y, z) == u \o (x \o (y \o z))

LEMMA WordsAssociate ==
  ASSUME NEW u \in Seq(Nat), NEW x \in Seq(Nat), NEW y \in Seq(Nat), NEW z \in Seq(Nat)
  PROVE  Chained(u, x, y, z) = Nested(u, x, y, z)
<1> DEFINE left == ((u \o x) \o y) \o z
           right == u \o (x \o (y \o z))
<1>1. left \in Seq(Nat) /\ right \in Seq(Nat) /\ Len(left) = Len(right)
  OBVIOUS
<1>2. \A i \in 1..Len(left) : left[i] = right[i]
  OBVIOUS
<1> QED
  BY <1>1, <1>2, SeqEqual DEF Chained, Nested

LEMMA HeadIsTaken ==
  ASSUME NEW n \in Nat, NEW rest \in Seq(Nat), NEW ws, ws = <<n>> \o rest
  PROVE  ws[1] = n /\ Tail(ws) = rest
<1>1. ws \in Seq(Nat) /\ Len(ws) = 1 + Len(rest) /\ ws[1] = n /\ \A i \in 1..Len(rest) : ws[i + 1] = rest[i]
  OBVIOUS
<1> QED
  BY <1>1

LEMMA PackedReturns ==
  ASSUME NEW e \in PackedEntry
  PROVE  Pak!PackedEntryReturns(e)
<1> DEFINE b == Pak!EncodeBitfield(e)
           d == Pak!DecodeBitfield(b.val)
           inUnits == e.blockSize % SizeUnit = 0 /\ e.blockSize \div SizeUnit < Reserved
           index == IF inUnits THEN e.blockSize \div SizeUnit ELSE Reserved
           first == IF index = Reserved /\ e.blockSize > 0 THEN <<e.blockSize>> ELSE <<>>
           last == IF e.method > 0 THEN Pak!Packed(e.size) ELSE <<>>
           words == first \o Pak!Packed(e.at) \o Pak!Packed(e.full) \o last
           fulls == Pak!Packed(e.full) \o last
           ats == Pak!Packed(e.at) \o fulls
<1> SUFFICES ASSUME ~b.err, e.method < Methods, e.count < MaxBlocks
             PROVE  d = [e EXCEPT !.size = IF e.method = 0 THEN e.full ELSE @]
  BY DEF Pak!PackedEntryReturns
<1>1. /\ e.at \in Nat /\ e.full \in Nat /\ e.size \in Nat /\ e.method \in Nat /\ e.encrypted \in BOOLEAN
      /\ e.count \in Nat /\ e.blockSize \in Nat
  BY DEF PackedEntry
<1>2. ~(e.method > 0 /\ e.blockSize = 0)
  BY DEF Pak!EncodeBitfield, Pak!Fail
<1>3. b.val = [at32 |-> e.at < Word32, full32 |-> e.full < Word32, size32 |-> e.size < Word32,
               method |-> e.method % Methods, encrypted |-> e.encrypted,
               count |-> e.count % MaxBlocks, index |-> index, words |-> words]
  BY <1>2 DEF Pak!EncodeBitfield, Pak!Fine
<1>4. /\ Methods \in Nat /\ MaxBlocks \in Nat /\ Reserved \in Nat \ {0} /\ SizeUnit \in Nat \ {0}
  BY PakAssumption
<1>5. e.method % Methods = e.method /\ e.count % MaxBlocks = e.count
  BY <1>1, <1>4
<1>6. /\ inUnits => index # Reserved /\ index * SizeUnit = e.blockSize
      /\ ~inUnits => index = Reserved /\ e.blockSize > 0
  <2>1. e.blockSize \div SizeUnit \in Nat /\ (e.blockSize % SizeUnit) + SizeUnit * (e.blockSize \div SizeUnit) = e.blockSize
    BY <1>1, <1>4
  <2>2. e.blockSize = 0 => e.blockSize % SizeUnit = 0 /\ e.blockSize \div SizeUnit = 0
    BY <1>1, <1>4
  <2>3. ~inUnits => e.blockSize > 0
    BY <1>1, <1>4, <2>2
  <2>4. inUnits => (e.blockSize \div SizeUnit) * SizeUnit = e.blockSize
    BY <1>1, <1>4, <2>1
  <2>5. inUnits => index = e.blockSize \div SizeUnit /\ e.blockSize \div SizeUnit < Reserved
    OBVIOUS
  <2> QED
    BY <1>4, <2>1, <2>3, <2>4, <2>5
<1>7. last \in Seq(Nat) /\ fulls \in Seq(Nat) /\ ats \in Seq(Nat) /\ Pak!Packed(e.at) \in Seq(Nat) /\ Pak!Packed(e.full) \in Seq(Nat)
  <2>1. Pak!Packed(e.size) \in Seq(Nat) /\ Pak!Packed(e.at) \in Seq(Nat) /\ Pak!Packed(e.full) \in Seq(Nat)
    BY <1>1, PackedIsWords
  <2> QED
    BY <2>1
<1>8. words = first \o ats /\ first \in Seq(Nat)
  <2>1. first \in Seq(Nat)
    BY <1>1
  <2> HIDE DEF first, last
  <2>2. words = first \o ats
    <3>1. last \in Seq(Nat) /\ Pak!Packed(e.at) \in Seq(Nat) /\ Pak!Packed(e.full) \in Seq(Nat)
      BY <1>7
    <3>2. Chained(first, Pak!Packed(e.at), Pak!Packed(e.full), last) = Nested(first, Pak!Packed(e.at), Pak!Packed(e.full), last)
      BY ONLY ZenonT(30), WordsAssociate, <2>1, <3>1
    <3> QED
      BY <3>2 DEF Chained, Nested
  <2> QED
    BY <2>1, <2>2
<1>9. (IF index = Reserved THEN Tail(words) ELSE words) = ats /\ (index = Reserved => words[1] = e.blockSize)
  <2>1. first = IF index = Reserved /\ e.blockSize > 0 THEN <<e.blockSize>> ELSE <<>>
    OBVIOUS
  <2> HIDE DEF words, ats, fulls, last, first, index, inUnits, b, d
  <2>2. CASE inUnits
    <3>1. index # Reserved /\ first = <<>>
      BY <1>6, <2>1, <2>2
    <3>2. <<>> \o ats = ats
      BY ONLY <1>7, ConcatEmptySeq
    <3> QED
      BY ONLY <1>8, <3>1, <3>2
  <2>3. CASE ~inUnits
    <3>1. index = Reserved /\ first = <<e.blockSize>>
      BY <1>6, <2>1, <2>3
    <3>2. e.blockSize \in Nat /\ ats \in Seq(Nat) /\ words = <<e.blockSize>> \o ats
      BY <1>1, <1>7, <1>8, <3>1
    <3>3. words[1] = e.blockSize /\ Tail(words) = ats
      BY ONLY Zenon, HeadIsTaken, <3>2
    <3> QED
      BY ONLY <3>1, <3>3
  <2> QED
    BY ONLY <2>2, <2>3
<1>10. Taken(ats, e.at) = e.at /\ Behind(ats, e.at) = fulls
  <2> HIDE DEF fulls
  <2> QED
    BY PackedIsTaken, <1>1, <1>7
<1>11. Taken(fulls, e.full) = e.full /\ Behind(fulls, e.full) = last
  <2> HIDE DEF last
  <2> QED
    BY PackedIsTaken, <1>1, <1>7
<1>12. e.method > 0 => Taken(last, e.size) = e.size
  <2>1. Pak!Packed(e.size) \o <<>> = Pak!Packed(e.size)
    BY <1>1, PackedIsWords
  <2> QED
    BY <1>1, <2>1, PackedIsTaken, <<>> \in Seq(Nat)
<1> HIDE DEF words, ats, fulls, last, index, inUnits, first
<1>13. /\ d.at = Taken(ats, e.at) /\ d.full = Taken(fulls, e.full)
       /\ d.size = IF e.method > 0 THEN Taken(last, e.size) ELSE Taken(fulls, e.full)
  <2> DEFINE as == IF b.val.index = Reserved THEN Tail(b.val.words) ELSE b.val.words
             fs == SubSeq(as, IF b.val.at32 THEN 2 ELSE 3, Len(as))
             ss == SubSeq(fs, IF b.val.full32 THEN 2 ELSE 3, Len(fs))
  <2>1. /\ d.at = IF b.val.at32 THEN as[1] ELSE as[1] + Word32 * as[2]
        /\ d.full = IF b.val.full32 THEN fs[1] ELSE fs[1] + Word32 * fs[2]
        /\ d.size = IF b.val.method > 0 THEN (IF b.val.size32 THEN ss[1] ELSE ss[1] + Word32 * ss[2]) ELSE d.full
    BY ZenonT(30) DEF Pak!DecodeBitfield
  <2>2. /\ b.val.at32 = (e.at < Word32) /\ b.val.full32 = (e.full < Word32) /\ b.val.size32 = (e.size < Word32)
        /\ b.val.method = e.method
    BY <1>3, <1>5
  <2>3. as = ats
    <3>1. b.val.index = index /\ b.val.words = words
      BY <1>3
    <3> QED
      BY Zenon, <1>9, <3>1
  <2> HIDE DEF as
  <2>4. fs = Behind(ats, e.at)
    BY <2>2, <2>3 DEF Behind
  <2>5. fs = fulls
    BY <2>4, <1>10
  <2> HIDE DEF fs
  <2>6. ss = last
    BY <1>11, <2>2, <2>5 DEF Behind
  <2> HIDE DEF ss, d, b
  <2> QED
    BY <2>1, <2>2, <2>3, <2>5, <2>6 DEF Taken
<1>14. d.method = e.method /\ d.encrypted = e.encrypted /\ d.count = e.count /\ d.blockSize = e.blockSize
  BY <1>1, <1>3, <1>5, <1>6, <1>9 DEF Pak!DecodeBitfield
<1>15. d = [at |-> d.at, full |-> d.full, size |-> d.size, method |-> d.method, encrypted |-> d.encrypted,
            count |-> d.count, blockSize |-> d.blockSize]
  BY ZenonT(30) DEF Pak!DecodeBitfield
<1> HIDE DEF b, d
<1>16. d.at = e.at /\ d.full = e.full /\ d.size = IF e.method = 0 THEN e.full ELSE e.size
  BY <1>1, <1>10, <1>11, <1>12, <1>13
<1> QED
  BY <1>14, <1>15, <1>16 DEF PackedEntry

-----------------------------------------------------------------------------
(* Trailers.                                                                *)

LEMMA GreatestIsMax ==
  ASSUME NEW S, S \subseteq Int, NEW m \in S, \A x \in S : m >= x
  PROVE  Pak!Max(S) = m
<1>1. Pak!Max(S) \in S /\ \A x \in S : Pak!Max(S) >= x
  BY DEF Pak!Max
<1>2. Pak!Max(S) >= m /\ m >= Pak!Max(S) /\ Pak!Max(S) \in Int /\ m \in Int
  BY <1>1
<1> QED
  BY <1>2

LEMMA TrailerSizes ==
  ASSUME NEW v \in Nat
  PROVE  Pak!TrailerSize(v) = IF v <= 6 THEN 45 ELSE IF v = 7 THEN 61 ELSE IF v = 9 THEN 222 ELSE 221
<1>1. CASE v <= 6
  BY <1>1 DEF Pak!TrailerSize
<1>2. CASE v = 7
  BY <1>2 DEF Pak!TrailerSize
<1>3. CASE v = 8
  BY <1>3 DEF Pak!TrailerSize
<1>4. CASE v = 9
  BY <1>4 DEF Pak!TrailerSize
<1>5. CASE v >= 10
  BY <1>5 DEF Pak!TrailerSize
<1> QED
  BY <1>1, <1>2, <1>3, <1>4, <1>5

LEMMA GroupsGreatest ==
  /\ DOMAIN Pak!Groups = 1..5
  /\ Pak!Groups[1] = {12, 11, 10} /\ Pak!Groups[2] = {9} /\ Pak!Groups[3] = {8}
  /\ Pak!Groups[4] = {7} /\ Pak!Groups[5] = 1..6
  /\ Pak!Max(Pak!Groups[1]) = 12 /\ Pak!Max(Pak!Groups[2]) = 9 /\ Pak!Max(Pak!Groups[3]) = 8
  /\ Pak!Max(Pak!Groups[4]) = 7 /\ Pak!Max(Pak!Groups[5]) = 6
<1>1. DOMAIN Pak!Groups = 1..5
  BY DEF Pak!Groups
<1>2. /\ Pak!Groups[1] = {12, 11, 10} /\ Pak!Groups[2] = {9} /\ Pak!Groups[3] = {8}
      /\ Pak!Groups[4] = {7} /\ Pak!Groups[5] = 1..6
  BY DEF Pak!Groups
<1>3. Pak!Max({12, 11, 10}) = 12
  BY GreatestIsMax
<1>4. Pak!Max({9}) = 9 /\ Pak!Max({8}) = 8 /\ Pak!Max({7}) = 7
  BY GreatestIsMax
<1>5. Pak!Max(1..6) = 6
  BY GreatestIsMax
<1> QED
  BY <1>1, <1>2, <1>3, <1>4, <1>5

\* Where the magic of a group is looked for, and how long its trailer is.
Place(g) == Pak!TrailerSize(Pak!Max(Pak!Groups[g])) - (IF Pak!Max(Pak!Groups[g]) >= 7 THEN 17 ELSE 1)
Room(g) == Pak!TrailerSize(Pak!Max(Pak!Groups[g]))

LEMMA PlacesAndRooms ==
  /\ Place(1) = 204 /\ Place(2) = 205 /\ Place(3) = 204 /\ Place(4) = 44 /\ Place(5) = 44
  /\ Room(1) = 221 /\ Room(2) = 222 /\ Room(3) = 221 /\ Room(4) = 61 /\ Room(5) = 45
BY GroupsGreatest, TrailerSizes DEF Place, Room

LEMMA TrailerIsFound ==
  ASSUME NEW v \in Nat \ {0}, NEW fileSize \in Nat
  PROVE  Pak!TrailerIsItsVersion(v, fileSize)
<1> DEFINE at == Pak!TrailerSize(v) - (IF v >= 7 THEN 17 ELSE 1)
           magics == [place \in {at} |-> v]
           Tells(g) == IF g = 1 THEN magics[Place(g)] >= 10 ELSE magics[Place(g)] \in Pak!Groups[g]
           Matches(g) == fileSize >= Room(g) /\ Place(g) \in DOMAIN magics /\ Tells(g)
           found == {g \in DOMAIN Pak!Groups : Matches(g)}
           its == IF v >= 10 THEN 1 ELSE IF v = 9 THEN 2 ELSE IF v = 8 THEN 3 ELSE IF v = 7 THEN 4 ELSE 5
           info == Pak!DeserializeInfo(fileSize, magics)
<1>1. info = IF found = {} THEN Pak!Fail
             ELSE Pak!Fine([version |-> magics[Place(Pak!Min(found))], guid |-> magics[Place(Pak!Min(found))] >= 7,
                            methods |-> magics[Place(Pak!Min(found))] >= 8, frozen |-> magics[Place(Pak!Min(found))] = 9])
  BY DEF Pak!DeserializeInfo, Place, Room
<1>2. at = (IF v <= 7 THEN 44 ELSE IF v = 9 THEN 205 ELSE 204)
  BY TrailerSizes
<1>3. DOMAIN magics = {at} /\ magics[at] = v
  OBVIOUS
<1>4. its \in 1..5 /\ Place(its) = at /\ Room(its) = Pak!TrailerSize(v)
  BY <1>2, TrailerSizes, PlacesAndRooms
<1> HIDE DEF magics, at
<1>5. \A g \in 1..5 : Matches(g) <=> g = its /\ fileSize >= Pak!TrailerSize(v)
  <2>1. Matches(1) <=> its = 1 /\ fileSize >= Pak!TrailerSize(v)
    BY <1>2, <1>3, TrailerSizes, PlacesAndRooms
  <2>2. Matches(2) <=> its = 2 /\ fileSize >= Pak!TrailerSize(v)
    BY <1>2, <1>3, TrailerSizes, PlacesAndRooms, GroupsGreatest
  <2>3. Matches(3) <=> its = 3 /\ fileSize >= Pak!TrailerSize(v)
    BY <1>2, <1>3, TrailerSizes, PlacesAndRooms, GroupsGreatest
  <2>4. Matches(4) <=> its = 4 /\ fileSize >= Pak!TrailerSize(v)
    BY <1>2, <1>3, TrailerSizes, PlacesAndRooms, GroupsGreatest
  <2>5. Matches(5) <=> its = 5 /\ fileSize >= Pak!TrailerSize(v)
    BY <1>2, <1>3, TrailerSizes, PlacesAndRooms, GroupsGreatest
  <2> HIDE DEF Matches, its
  <2> QED
    BY <2>1, <2>2, <2>3, <2>4, <2>5
<1> HIDE DEF Matches
<1>6. fileSize < Pak!TrailerSize(v) => found = {}
  BY <1>5, GroupsGreatest, TrailerSizes
<1>7. fileSize >= Pak!TrailerSize(v) => found = {its}
  BY <1>4, <1>5, GroupsGreatest
<1>8. Pak!Min({its}) = its
  BY <1>4 DEF Pak!Min
<1> HIDE DEF found, its
<1>9. CASE fileSize < Pak!TrailerSize(v)
  <2>1. info.err
    BY <1>1, <1>6, <1>9 DEF Pak!Fail
  <2> QED
    BY <1>9, <2>1 DEF Pak!TrailerIsItsVersion, magics, at
<1>10. CASE ~(fileSize < Pak!TrailerSize(v))
  <2>1. found # {} /\ magics[Place(Pak!Min(found))] = v
    BY <1>3, <1>4, <1>7, <1>8, <1>10, TrailerSizes
  <2>2. info = Pak!Fine([version |-> v, guid |-> v >= 7, methods |-> v >= 8, frozen |-> v = 9])
    BY <1>1, <2>1
  <2> HIDE DEF info
  <2>3. ~info.err /\ info.val.version = v /\ (info.val.frozen <=> v = 9) /\ (info.val.guid <=> v >= 7)
    BY <2>2 DEF Pak!Fine
  <2> QED
    BY <1>10, <2>3 DEF Pak!TrailerIsItsVersion, info, magics, at
<1> QED
  BY <1>9, <1>10

-----------------------------------------------------------------------------
(* Paths.                                                                   *)

Path == Seq(Nat)

LEMMA LeastIsMin ==
  ASSUME NEW n \in Nat, NEW S, S \subseteq 1..n, S # {}
  PROVE  Pak!Min(S) \in S
<1>1. IsFiniteSet(1..n)
  BY FS_Interval
<1>2. IsFiniteSet(S)
  BY <1>1, FS_Subset
<1>3. Min(S) \in S
  <2>1. S \subseteq Int
    OBVIOUS
  <2> QED
    BY <1>2, <2>1, MinIsLeast
<1>4. Pak!Min(S) = Min(S)
  BY Zenon DEF Pak!Min, Min
<1> QED
  BY <1>3, <1>4

LEMMA SuffixOfItself ==
  ASSUME NEW p \in Path
  PROVE  Pak!EndsWith(Pak!Lower(p), Pak!Lower(p))
<1>1. Pak!Lower(p) \in Seq(Nat)
  BY DEF Pak!Lower, Path
<1> QED
  BY <1>1 DEF Pak!EndsWith

LEMMA PathIsFound ==
  ASSUME NEW entries \in Seq(Path), NEW mount, NEW path \in Path
  PROVE  Pak!PathFoundIsAsked(entries, mount, path)
<1> DEFINE k == Pak!ResolveEntryPath(entries, mount, path)
           exact == {i \in DOMAIN entries : entries[i] = path}
           wanted == {Pak!Lower(path)} \cup (IF path # <<>> /\ path[Len(path)] % 10 < 5 THEN {Pak!Lower(Pak!WithSuffix(path))} ELSE {})
           near == {i \in DOMAIN entries : \E w \in wanted : Pak!EndsWith(w, Pak!Lower(entries[i]))}
           closed == Pak!Up \in Pak!Range(path) \/ mount = "absolute"
           Ends(i) == \/ Pak!EndsWith(Pak!Lower(path), Pak!Lower(entries[i]))
                      \/ Pak!EndsWith(Pak!Lower(Pak!WithSuffix(path)), Pak!Lower(entries[i]))
<1>1. k = IF closed THEN 0 ELSE IF exact # {} THEN Pak!Min(exact) ELSE IF near # {} THEN Pak!Min(near) ELSE 0
  BY Zenon DEF Pak!ResolveEntryPath
<1>2. exact \subseteq 1..Len(entries) /\ near \subseteq 1..Len(entries) /\ Len(entries) \in Nat
  OBVIOUS
<1>3. /\ exact # {} => Pak!Min(exact) \in exact
      /\ near # {} => Pak!Min(near) \in near
  <2> HIDE DEF exact, near
  <2> QED
    BY <1>2, LeastIsMin
<1>4. \A i \in exact : entries[i] = path /\ Ends(i)
  <2>1. Pak!EndsWith(Pak!Lower(path), Pak!Lower(path))
    BY SuffixOfItself
  <2> QED
    BY <2>1
<1>5. \A i \in near : Ends(i)
  OBVIOUS
<1>6. path \in Pak!ListFiles(entries, {}) => exact # {}
  BY DEF Pak!ListFiles
<1>7. k # 0 => Ends(k)
  <2> HIDE DEF k, exact, near, closed, Ends
  <2> QED
    BY <1>1, <1>3, <1>4, <1>5
<1>8. mount # "absolute" /\ path \in Pak!ListFiles(entries, {}) /\ Pak!Up \notin Pak!Range(path) => entries[k] = path
  <2> HIDE DEF k, exact, near, Ends
  <2> QED
    BY <1>1, <1>3, <1>4, <1>6
<1> QED
  BY <1>7, <1>8 DEF Pak!PathFoundIsAsked

-----------------------------------------------------------------------------
(* The index.                                                               *)

Index == [count : Int, list : Seq(Path \X Nat), truncated : BOOLEAN, hashed : BOOLEAN, encrypted : BOOLEAN,
          key : BOOLEAN, cut : BOOLEAN, plain : Path]

LEMMA IndexIsRead ==
  ASSUME NEW fileSize, NEW magics, NEW x \in Index
  PROVE  Pak!IndexIsWhole(fileSize, magics, x)
<1> DEFINE info == Pak!DeserializeInfo(fileSize, magics)
           version == info.val.version
           index == Pak!PrimaryIndex(x, version)
           pak == Pak!OpenPak(fileSize, magics, x)
           Of(p) == {i \in 1..x.count : x.list[i][1] = p}
           table == [p \in {x.list[k][1] : k \in 1..x.count} |-> x.list[Pak!Max(Of(p))][2]]
           whole == ~x.truncated /\ x.hashed /\ x.count \in 0..MaxPakEntries
<1>1. pak = IF info.err \/ index.err THEN [open |-> FALSE, err |-> TRUE, val |-> <<>>]
            ELSE [open |-> TRUE, err |-> FALSE, val |-> index.val]
  BY DEF Pak!OpenPak
<1>2. ~index.err => whole
  BY DEF Pak!PrimaryIndex, Pak!Fail, Index
<1>3. ~index.err /\ version >= 10 => index.val = x.plain
  BY DEF Pak!PrimaryIndex, Pak!V10Entries, Pak!Fail, Pak!Fine
<1>4. ~index.err /\ ~(version >= 10) => index.val = table
  BY DEF Pak!PrimaryIndex, Pak!Fail, Pak!Fine
<1>5. ASSUME NEW i \in 1..x.count, \A j \in (i + 1)..x.count : x.list[j][1] # x.list[i][1]
      PROVE  table[x.list[i][1]] = x.list[i][2]
  <2>1. x.count \in Int
    BY DEF Index
  <2>2. i \in Of(x.list[i][1]) /\ Of(x.list[i][1]) \subseteq Int
    BY <2>1
  <2>3. \A j \in Of(x.list[i][1]) : i >= j
    BY <1>5, <2>1
  <2> HIDE DEF Of
  <2>4. Pak!Max(Of(x.list[i][1])) = i
    BY <2>2, <2>3, GreatestIsMax
  <2> QED
    BY <2>4
<1>6. \A i \in 1..x.count : x.list[i][1] \in DOMAIN table
  OBVIOUS
<1> DEFINE Latest(i) == \A j \in (i + 1)..x.count : x.list[j][1] # x.list[i][1]
<1>7. /\ pak.open <=> ~pak.err
      /\ pak.open => ~index.err /\ pak.val = index.val
  <2> HIDE DEF pak, index, info
  <2> QED
    BY <1>1
<1> HIDE DEF table, index
<1>8. pak.open => IF version >= 10 THEN pak.val = x.plain
                  ELSE \A i \in 1..x.count : /\ x.list[i][1] \in DOMAIN pak.val
                                             /\ Latest(i) => pak.val[x.list[i][1]] = x.list[i][2]
  <2> HIDE DEF pak, version
  <2> QED
    BY <1>3, <1>4, <1>5, <1>6, <1>7
<1>9. pak.open => whole
  BY <1>2, <1>7
<1> QED
  BY <1>7, <1>8, <1>9 DEF Pak!IndexIsWhole

-----------------------------------------------------------------------------
(* Slices, and sequences laid end to end.                                   *)

LEMMA LessOfTwo ==
  ASSUME NEW a \in Int, NEW b \in Int
  PROVE  Pak!Min({a, b}) = IF a <= b THEN a ELSE b
<1>1. \E x \in {a, b} : \A y \in {a, b} : x <= y
  OBVIOUS
<1>2. Pak!Min({a, b}) \in {a, b} /\ \A y \in {a, b} : Pak!Min({a, b}) <= y
  BY <1>1 DEF Pak!Min
<1> QED
  BY <1>2

LEMMA SliceIsPart ==
  ASSUME NEW T, NEW s \in Seq(T), NEW from \in Nat, NEW n \in Nat
  PROVE  /\ Pak!Slice(s, from, n) \in Seq(T)
         /\ Len(Pak!Slice(s, from, n)) = IF from + n <= Len(s) THEN n ELSE IF from <= Len(s) THEN Len(s) - from ELSE 0
         /\ \A i \in 1..Len(Pak!Slice(s, from, n)) : Pak!Slice(s, from, n)[i] = s[from + i]
<1> DEFINE end == IF from + n <= Len(s) THEN from + n ELSE Len(s)
           part == Pak!Slice(s, from, n)
<1>1. Len(s) \in Nat /\ end \in Int /\ end <= Len(s)
  OBVIOUS
<1>2. part = SubSeq(s, from + 1, end)
  BY <1>1, LessOfTwo DEF Pak!Slice
<1>3. \A i \in (from + 1)..end : s[i] \in T
  BY <1>1
<1>4. end - from = IF from + n <= Len(s) THEN n ELSE Len(s) - from
  BY <1>1
<1> HIDE DEF end, part
<1>5. PICK low \in Int : low = from + 1
  OBVIOUS
<1>6. /\ SubSeq(s, low, end) \in Seq(T)
      /\ Len(SubSeq(s, low, end)) = IF low <= end THEN end - low + 1 ELSE 0
      /\ \A i \in 1..(end - low + 1) : SubSeq(s, low, end)[i] = s[low + i - 1]
  BY ONLY SubSeqProperties, <1>1, <1>3, <1>5, low \in Int
<1>7. end - low + 1 = end - from /\ \A i \in Int : low + i - 1 = from + i
  BY ONLY <1>1, <1>5, from \in Nat
<1>8. Len(part) = IF from + n <= Len(s) THEN n ELSE IF from <= Len(s) THEN Len(s) - from ELSE 0
  <2>1. Len(part) = IF low <= end THEN end - from ELSE 0
    BY <1>2, <1>5, <1>6, <1>7
  <2> QED
    BY <1>1, <1>4, <1>5, <2>1
<1>9. \A i \in 1..Len(part) : part[i] = s[from + i]
  <2>1. Len(part) = IF low <= end THEN end - from ELSE 0
    BY <1>2, <1>5, <1>6, <1>7
  <2>2. \A i \in 1..(end - from) : part[i] = s[from + i]
    BY <1>2, <1>5, <1>6, <1>7
  <2> QED
    BY <1>1, <2>1, <2>2
<1> QED
  BY <1>2, <1>5, <1>6, <1>8, <1>9 DEF part

LEMMA SliceIsAll ==
  ASSUME NEW T, NEW s \in Seq(T), NEW n \in Nat, Len(s) <= n
  PROVE  Pak!Slice(s, 0, n) = s
<1> DEFINE t == Pak!Slice(s, 0, n)
<1>1. t \in Seq(T) /\ Len(t) = Len(s) /\ \A i \in 1..Len(t) : t[i] = s[i]
  <2>1. PICK from \in Nat : from = 0
    OBVIOUS
  <2>2. /\ Pak!Slice(s, from, n) \in Seq(T)
        /\ Len(Pak!Slice(s, from, n)) = IF from + n <= Len(s) THEN n ELSE IF from <= Len(s) THEN Len(s) - from ELSE 0
        /\ \A i \in 1..Len(Pak!Slice(s, from, n)) : Pak!Slice(s, from, n)[i] = s[from + i]
    BY SliceIsPart
  <2>3. Len(s) \in Nat /\ \A i \in 1..Len(s) : from + i = i
    BY <2>1
  <2> QED
    BY <2>1, <2>2, <2>3
<1> HIDE DEF t
<1>2. t = s
  BY <1>1, SeqEqual
<1> QED
  BY <1>2 DEF t

\* g lays out ever more of the sequences.
Layout(seqs, n, g) == g = [k \in 0..n |-> IF k = 0 THEN <<>> ELSE g[k - 1] \o seqs[k]]

LEMMA JoinedIsLayout ==
  ASSUME NEW seqs
  PROVE  /\ Pak!Joined(seqs) = (CHOOSE g : Layout(seqs, Len(seqs), g))[Len(seqs)]
         /\ Io!Joined(seqs) = Pak!Joined(seqs)
<1>1. Pak!Joined(seqs) = (CHOOSE g : Layout(seqs, Len(seqs), g))[Len(seqs)]
  BY Zenon DEF Pak!Joined, Layout
<1>2. Io!Joined(seqs) = (CHOOSE g : Layout(seqs, Len(seqs), g))[Len(seqs)]
  BY Zenon DEF Io!Joined, Layout
<1> QED
  BY <1>1, <1>2

LEMMA LayoutGrows ==
  ASSUME NEW T, NEW seqs \in Seq(Seq(T))
  PROVE  \E g : /\ g = (CHOOSE h : Layout(seqs, Len(seqs), h))
                /\ g[0] = <<>> /\ \A k \in 0..Len(seqs) : g[k] \in Seq(T)
                /\ \A k \in 1..Len(seqs) : g[k] = g[k - 1] \o seqs[k]
<1> DEFINE n == Len(seqs)
           Grow == [x \in (1..n) \X Seq(T) |-> x[2] \o seqs[x[1]]]
<1>0. n \in Nat /\ \A i \in 1..n : seqs[i] \in Seq(T)
  OBVIOUS
<1> HIDE DEF n
<1>1. Grow \in [(1..n) \X Seq(T) -> Seq(T)]
  <2>1. ASSUME NEW x \in (1..n) \X Seq(T) PROVE x[2] \o seqs[x[1]] \in Seq(T)
    <3>1. x[2] \in Seq(T) /\ seqs[x[1]] \in Seq(T)
      BY <1>0
    <3> QED
      BY <3>1, ConcatProperties
  <2> QED
    BY <2>1
<1>2. \A i \in 1..n : \A s \in Seq(T) : Grow[<<i, s>>] = s \o seqs[i]
  OBVIOUS
<1>3. PICK f \in [0..n -> Seq(T)] : f[0] = <<>> /\ \A k \in 1..n : f[k] = Grow[<<k, f[k - 1]>>]
  <2>1. HasRecursion(Seq(T), <<>>, n, Grow)
    <3>1. <<>> \in Seq(T) /\ n \in Nat
      BY <1>0, EmptySeq
    <3> HIDE DEF Grow
    <3> QED
      BY ONLY RecursiveFunction, <1>1, <3>1
  <2> QED
    BY <2>1 DEF HasRecursion
<1> HIDE DEF Grow
<1>4. \A k \in 1..n : f[k] = f[k - 1] \o seqs[k]
  <2>1. ASSUME NEW k \in 1..n PROVE f[k] = f[k - 1] \o seqs[k]
    <3>1. k - 1 \in 0..n
      BY <1>0
    <3>2. f[k - 1] \in Seq(T) /\ f[k] = Grow[<<k, f[k - 1]>>]
      BY <1>3, <3>1
    <3>3. Grow[<<k, f[k - 1]>>] = f[k - 1] \o seqs[k]
      BY ONLY <1>2, <3>2, k \in 1..n
    <3> QED
      BY <3>2, <3>3
  <2> QED
    BY <2>1
<1>5. Layout(seqs, n, f)
  <2>1. \A k \in 0..n : k # 0 => k \in 1..n
    BY <1>0
  <2>2. \A k \in 0..n : f[k] = IF k = 0 THEN <<>> ELSE f[k - 1] \o seqs[k]
    BY <1>3, <1>4, <2>1
  <2>3. DOMAIN f = 0..n /\ f = [k \in DOMAIN f |-> f[k]]
    OBVIOUS
  <2> QED
    BY <2>2, <2>3 DEF Layout
<1>6. \A g : Layout(seqs, n, g) => g = f
  <2> SUFFICES ASSUME NEW g, Layout(seqs, n, g) PROVE g = f
    OBVIOUS
  <2>1. \A k \in 0..n : g[k] = IF k = 0 THEN <<>> ELSE g[k - 1] \o seqs[k]
    BY DEF Layout
  <2> DEFINE P == {k \in Nat : k <= n => g[k] = f[k]}
  <2>2. 0 \in P
    <3>1. 0 \in 0..n
      BY <1>0
    <3> QED
      BY <1>3, <2>1, <3>1
  <2>3. ASSUME NEW k \in P PROVE k + 1 \in P
    <3> SUFFICES ASSUME k + 1 <= n PROVE g[k + 1] = f[k + 1]
      OBVIOUS
    <3>1. k + 1 \in 1..n /\ k + 1 \in 0..n /\ k + 1 # 0 /\ (k + 1) - 1 = k /\ g[k] = f[k]
      BY <1>0
    <3> QED
      BY <1>4, <2>1, <3>1
  <2> HIDE DEF P
  <2>4. P = Nat
    BY <2>2, <2>3, NaturalsByInduction DEF P
  <2>5. \A k \in 0..n : g[k] = f[k]
    <3>1. \A k \in Nat : k \in P
      BY ONLY <2>4
    <3>2. \A k \in Nat : k <= n => g[k] = f[k]
      BY <3>1 DEF P
    <3> QED
      BY ONLY <1>0, <3>2
  <2>6. DOMAIN g = 0..n /\ g = [k \in 0..n |-> g[k]]
    BY DEF Layout
  <2> QED
    BY <2>5, <2>6
<1>7. f = CHOOSE h : Layout(seqs, n, h)
  BY <1>5, <1>6
<1>8. \A k \in 0..n : f[k] \in Seq(T)
  OBVIOUS
<1> QED
  BY <1>3, <1>4, <1>7, <1>8 DEF n

\* What is laid out is a sequence; when the first n - 1 parts are of length m,
\* part i stands at (i - 1) * m.
AllButLast(seqs, n, m) == \A i \in 1..(n - 1) : Len(seqs[i]) = m
IsLaidOut(all, T, n, m, seqs) ==
  /\ all \in Seq(T)
  /\ n = 0 => all = <<>>
  /\ n > 0 /\ AllButLast(seqs, n, m) =>
       /\ Len(all) = m * (n - 1) + Len(seqs[n])
       /\ \A i \in 1..n : \A j \in 1..Len(seqs[i]) : all[m * (i - 1) + j] = seqs[i][j]

LEMMA Distributes ==
  ASSUME NEW a \in Nat, NEW b \in Nat, NEW d \in Nat
  PROVE  a * (b + d) = a * b + a * d
OBVIOUS

LEMMA PartIsAppended ==
  ASSUME NEW T, NEW seqs \in Seq(Seq(T)), NEW m \in Nat, NEW k \in Nat, k + 1 <= Len(seqs),
         NEW all, IsLaidOut(all, T, k, m, seqs)
  PROVE  IsLaidOut(all \o seqs[k + 1], T, k + 1, m, seqs)
<1> DEFINE last == seqs[k + 1]
           more == all \o last
<1>1. Len(seqs) \in Nat /\ last \in Seq(T) /\ all \in Seq(T)
  BY DEF IsLaidOut
<1>2. /\ more \in Seq(T) /\ Len(more) = Len(all) + Len(last)
      /\ \A i \in 1..(Len(all) + Len(last)) : more[i] = IF i <= Len(all) THEN all[i] ELSE last[i - Len(all)]
  BY <1>1, ConcatProperties
<1>3. Len(all) \in Nat /\ Len(last) \in Nat
  BY <1>1
<1> HIDE DEF more
<1>4. ASSUME AllButLast(seqs, k + 1, m)
      PROVE  /\ Len(more) = m * k + Len(last)
             /\ \A i \in 1..(k + 1) : \A j \in 1..Len(seqs[i]) : more[m * (i - 1) + j] = seqs[i][j]
  <2>1. \A i \in 1..k : Len(seqs[i]) = m
    BY <1>4 DEF AllButLast
  <2>2. AllButLast(seqs, k, m)
    BY <2>1 DEF AllButLast
  <2>3. Len(all) = m * k
    <3>1. CASE k = 0
      BY <3>1 DEF IsLaidOut
    <3>2. CASE k > 0
      <4>1. Len(all) = m * (k - 1) + Len(seqs[k])
        BY <2>2, <3>2 DEF IsLaidOut
      <4>2. Len(seqs[k]) = m /\ m * (k - 1) + m = m * k
        BY <2>1, <3>2
      <4> QED
        BY <4>1, <4>2
    <3> QED
      BY <3>1, <3>2
  <2>4. ASSUME NEW i \in 1..(k + 1), NEW j \in 1..Len(seqs[i]) PROVE more[m * (i - 1) + j] = seqs[i][j]
    <3>1. CASE i = k + 1
      <4>1. m * (i - 1) = Len(all) /\ j \in 1..Len(last) /\ j \in Nat /\ j > 0
        BY <1>3, <2>3, <3>1
      <4>2. Len(all) + j \in 1..(Len(all) + Len(last)) /\ ~(Len(all) + j <= Len(all)) /\ (Len(all) + j) - Len(all) = j
        BY <1>3, <4>1, SMTT(30)
      <4>3. more[Len(all) + j] = last[j]
        BY <1>2, <4>2
      <4> QED
        BY <3>1, <4>1, <4>3
    <3>2. CASE i # k + 1
      <4>1. i \in 1..k /\ k > 0
        BY <3>2
      <4>2. all[m * (i - 1) + j] = seqs[i][j] /\ Len(seqs[i]) = m
        BY <2>1, <2>2, <4>1 DEF IsLaidOut
      <4>3. PICK p \in Nat : p = m * (i - 1)
        BY <4>1
      <4>4. p + m <= m * k
        <5>1. PICK e \in Nat : k = i + e
          BY <4>1
        <5>2. m * i \in Nat /\ m * e \in Nat /\ p + m = m * i
          BY ONLY <4>1, <4>3, <5>1, m \in Nat, k \in Nat
        <5>3. m * k = m * i + m * e
          BY ONLY <4>1, <5>1, m \in Nat, k \in Nat, Distributes
        <5>4. \A x, y \in Nat : p + m = x /\ m * k = x + y => p + m <= m * k
          <6> SUFFICES ASSUME NEW x \in Nat, NEW y \in Nat PROVE x <= x + y
            OBVIOUS
          <6> QED
            OBVIOUS
        <5> QED
          BY ONLY <5>2, <5>3, <5>4
      <4>5. p + j \in 1..(Len(all) + Len(last)) /\ p + j <= Len(all)
        <5>1. j \in 1..m
          BY ONLY <2>4, <4>2
        <5>2. Len(all) \in Nat /\ p + m <= Len(all)
          BY ONLY <1>3, <2>3, <4>4
        <5>3. PICK x \in Nat, y \in Nat : x = Len(all) /\ y = Len(last)
          BY <1>3, <5>2
        <5>4. p + j \in 1..(x + y) /\ p + j <= x
          BY ONLY p \in Nat, <5>1, <5>2, <5>3, m \in Nat
        <5> QED
          BY ONLY <5>3, <5>4
      <4> QED
        BY <1>2, <4>2, <4>3, <4>5
    <3> QED
      BY <3>1, <3>2
  <2> QED
    BY <1>2, <2>3, <2>4
<1>5. (k + 1) - 1 = k /\ k + 1 # 0
  OBVIOUS
<1> QED
  BY <1>2, <1>4, <1>5 DEF IsLaidOut, more

LEMMA JoinedIsLaidOut ==
  ASSUME NEW T, NEW seqs \in Seq(Seq(T)), NEW m \in Nat
  PROVE  IsLaidOut(Pak!Joined(seqs), T, Len(seqs), m, seqs)
<1> DEFINE n == Len(seqs)
<1>1. n \in Nat
  OBVIOUS
<1>2. PICK g : /\ g = (CHOOSE h : Layout(seqs, Len(seqs), h))
               /\ g[0] = <<>> /\ \A k \in 0..Len(seqs) : g[k] \in Seq(T)
               /\ \A k \in 1..Len(seqs) : g[k] = g[k - 1] \o seqs[k]
  BY LayoutGrows
<1> DEFINE P == {k \in Nat : k <= n => IsLaidOut(g[k], T, k, m, seqs)}
<1>3. 0 \in P
  <2>1. g[0] = <<>> /\ g[0] \in Seq(T) /\ ~(0 > 0)
    BY <1>1, <1>2
  <2> QED
    BY <2>1 DEF IsLaidOut
<1>4. ASSUME NEW k \in P PROVE k + 1 \in P
  <2> SUFFICES ASSUME k + 1 <= n PROVE IsLaidOut(g[k + 1], T, k + 1, m, seqs)
    OBVIOUS
  <2>1. k \in Nat /\ k + 1 \in 1..n /\ (k + 1) - 1 = k /\ IsLaidOut(g[k], T, k, m, seqs)
    BY <1>1
  <2>2. g[k + 1] = g[k] \o seqs[k + 1]
    BY <1>2, <2>1
  <2> QED
    BY <2>1, <2>2, PartIsAppended
<1> HIDE DEF P
<1>5. P = Nat
  BY <1>3, <1>4, NaturalsByInduction DEF P
<1>6. IsLaidOut(g[n], T, n, m, seqs)
  BY <1>1, <1>5 DEF P
<1> QED
  BY <1>2, <1>6, JoinedIsLayout

\* Each byte twice, as the codec that stands for any does.
Twice(s) == Pak!Doubled(s)

LEMMA TwiceIsTwice ==
  ASSUME NEW T, NEW s \in Seq(T)
  PROVE  Twice(s) \in Seq(T) /\ Len(Twice(s)) = 2 * Len(s)
<1>1. Len(s) \in Nat /\ \A k \in 1..Len(s) : s[k] \in T
  OBVIOUS
<1>2. PICK n \in Nat : n = 2 * Len(s)
  BY <1>1
<1>3. \A k \in 1..n : (k + 1) \div 2 \in 1..Len(s)
  BY <1>1, <1>2
<1>4. Twice(s) = [k \in 1..n |-> s[(k + 1) \div 2]]
  BY <1>2 DEF Twice, Pak!Doubled
<1>5. Twice(s) \in [1..n -> T]
  BY <1>1, <1>3, <1>4
<1> QED
  BY <1>2, <1>4, <1>5

-----------------------------------------------------------------------------
(* The bytes of an entry.                                                   *)

PakEntry == [at : Nat, full : Nat, size : Nat, method : Nat, encrypted : BOOLEAN, deleted : BOOLEAN,
             blocks : Seq(Nat \X Nat), blockSize : Nat]

LEMMA UnitsAreWhole ==
  ASSUME NEW n \in Nat
  PROVE  Pak!Aligned(n) \in Nat /\ Pak!Aligned(n) >= n
<1>1. Align \in Nat \ {0}
  BY PakAssumption
<1> DEFINE m == n + Align - 1
<1>2. m \in Nat /\ m = n + Align - 1
  BY <1>1
<1> HIDE DEF m
<1>3. /\ m \div Align \in Nat /\ m % Align \in 0..(Align - 1)
      /\ (m % Align) + Align * (m \div Align) = m
  BY <1>1, <1>2
<1>4. (m \div Align) * Align \in Nat /\ (m \div Align) * Align >= n
  BY <1>1, <1>2, <1>3
<1> QED
  BY <1>4 DEF Pak!Aligned, m

LEMMA DecryptedIsSequence ==
  ASSUME NEW at, NEW raw \in Seq(Int)
  PROVE  Pak!DecryptAesEcb(at, raw) \in Seq(Int) /\ Len(Pak!DecryptAesEcb(at, raw)) = Len(raw)
<1>1. Len(raw) \in Nat /\ DOMAIN raw = 1..Len(raw) /\ \A k \in 1..Len(raw) : raw[k] \in Int
  OBVIOUS
<1>2. Pak!DecryptAesEcb(at, raw) \in [1..Len(raw) -> Int]
  BY <1>1 DEF Pak!DecryptAesEcb, Pak!Garbled
<1> QED
  BY <1>1, <1>2

\* What one block gives, whether it fails or not.
LEMMA BlockIsSequence ==
  ASSUME NEW f \in Seq(Int), NEW e \in PakEntry, NEW b \in Nat \X Nat
  PROVE  Pak!BlockBytes(f, e, b).val \in Seq(Int)
<1> DEFINE n == b[2] - b[1]
           raw == Pak!Slice(f, b[1], n)
           padded == Pak!Slice(f, b[1], Pak!Aligned(n))
           units == IF e.encrypted THEN Pak!DecryptAesEcb(b[1], padded) ELSE raw
           cut == Pak!Slice(units, 0, n)
           wide == Twice(cut)
<1>1. b[1] \in Nat /\ b[2] \in Nat /\ e.blockSize \in Nat
  BY DEF PakEntry
<1>2. <<>> \in Seq(Int)
  OBVIOUS
<1>3. CASE n < 0
  <2>1. Pak!BlockBytes(f, e, b) = Pak!Fail
    BY <1>3 DEF Pak!BlockBytes
  <2> QED
    BY <1>2, <2>1 DEF Pak!Fail
<1>4. CASE ~(n < 0)
  <2>1. n \in Nat
    BY <1>1, <1>4
  <2> HIDE DEF n
  <2>2. raw \in Seq(Int)
    BY <1>1, <2>1, SliceIsPart
  <2>3. padded \in Seq(Int)
    <3>1. Pak!Aligned(n) \in Nat
      BY <2>1, UnitsAreWhole
    <3> QED
      BY <1>1, <3>1, SliceIsPart
  <2> HIDE DEF raw, padded
  <2>4. units \in Seq(Int)
    BY <2>2, <2>3, DecryptedIsSequence
  <2> HIDE DEF units
  <2>5. cut \in Seq(Int)
    BY <2>1, <2>4, SliceIsPart
  <2> HIDE DEF cut
  <2>6. wide \in Seq(Int)
    BY <2>5, TwiceIsTwice
  <2> HIDE DEF wide
  <2>7. Pak!Slice(wide, 0, e.blockSize) \in Seq(Int)
    BY <1>1, <2>6, SliceIsPart
  <2>8. Pak!BlockBytes(f, e, b) \in {Pak!Fail, Pak!Fine(Pak!Slice(wide, 0, e.blockSize))}
    BY DEF Pak!BlockBytes, Pak!Decompress, n, raw, padded, units, cut, wide, Twice
  <2> DEFINE val == Pak!Slice(wide, 0, e.blockSize)
  <2>9. Pak!Fail.val = <<>> /\ Pak!Fine(val).val = val
    BY DEF Pak!Fail, Pak!Fine
  <2> HIDE DEF val
  <2> QED
    BY <1>2, <2>7, <2>8, <2>9 DEF val
<1> QED
  BY <1>3, <1>4

\* A block that lies in the file and declares what it holds gives it.
LEMMA BlockIsTwice ==
  ASSUME NEW f \in Seq(Int), NEW e \in PakEntry, NEW b \in Nat \X Nat, ~e.encrypted,
         b[1] < b[2], b[2] <= Len(f), 2 * (b[2] - b[1]) <= e.blockSize, e.blockSize <= MaxRatio * (b[2] - b[1])
  PROVE  Pak!BlockBytes(f, e, b) = Pak!Fine(Twice(Pak!Slice(f, b[1], b[2] - b[1])))
<1> DEFINE n == b[2] - b[1]
           raw == Pak!Slice(f, b[1], n)
           wide == Twice(raw)
<1>1. b[1] \in Nat /\ b[2] \in Nat /\ e.blockSize \in Nat /\ n \in Nat /\ n > 0 /\ b[1] + n <= Len(f) /\ MaxRatio \in Nat
  <2>1. b[1] \in Nat /\ b[2] \in Nat /\ n \in Nat /\ n > 0 /\ b[1] + n = b[2]
    <3>1. b[1] \in Nat /\ b[2] \in Nat
      OBVIOUS
    <3>2. b[2] - b[1] \in Nat /\ b[2] - b[1] > 0 /\ b[1] + (b[2] - b[1]) = b[2]
      BY ONLY <3>1, b[1] < b[2]
    <3> QED
      BY <3>1, <3>2
  <2>2. e.blockSize \in Nat
    BY DEF PakEntry
  <2>3. MaxRatio \in Nat
    BY PakAssumption
  <2> QED
    BY <2>1, <2>2, <2>3
<1>2. raw \in Seq(Int) /\ Len(raw) = n
  <2> HIDE DEF n
  <2> QED
    BY <1>1, SliceIsPart
<1>3. 2 * n <= e.blockSize /\ e.blockSize <= MaxRatio * n
  OBVIOUS
<1> HIDE DEF n, raw
<1>4. Pak!Slice(raw, 0, n) = raw
  BY <1>1, <1>2, SliceIsAll
<1>5. wide \in Seq(Int) /\ Len(wide) = 2 * n
  BY <1>2, TwiceIsTwice
<1> HIDE DEF wide
<1>6. Pak!Slice(wide, 0, e.blockSize) = wide
  <2>1. Len(wide) <= e.blockSize
    BY <1>1, <1>3, <1>5
  <2> QED
    BY <1>1, <1>5, <2>1, SliceIsAll
<1>7. Pak!Decompress(raw, e.blockSize, 1) = Pak!Fine(Pak!Slice(wide, 0, e.blockSize))
  <2>1. ~(e.blockSize > MaxRatio * Len(raw))
    <3>1. MaxRatio * n \in Nat
      BY <1>1
    <3>2. MaxRatio * Len(raw) = MaxRatio * n
      BY <1>2
    <3>3. \A m \in Nat : e.blockSize <= m => ~(e.blockSize > m)
      BY <1>1, SMTT(30)
    <3> QED
      BY <1>3, <3>1, <3>2, <3>3, SMTT(30)
  <2> QED
    BY <2>1 DEF Pak!Decompress, wide, Twice
<1>8. Pak!BlockBytes(f, e, b) = Pak!Decompress(Pak!Slice(raw, 0, n), e.blockSize, 1)
  <2>1. ~(n < 0) /\ ~(Len(raw) < n)
    BY <1>1, <1>2
  <2> QED
    BY <2>1 DEF Pak!BlockBytes, n, raw
<1> QED
  BY <1>4, <1>6, <1>7, <1>8 DEF wide, raw, n

LEMMA OnlyEntryIsFound ==
  Pak!ResolveEntryPath(<<<<1>>>>, "relative", <<1>>) = 1
<1> DEFINE exact == {i \in DOMAIN <<<<1>>>> : <<<<1>>>>[i] = <<1>>}
<1>1. exact = {1}
  OBVIOUS
<1>2. Pak!Min({1}) = 1
  BY DEF Pak!Min
<1>3. Pak!Up \notin Pak!Range(<<1>>)
  BY DEF Pak!Up, Pak!Range
<1> HIDE DEF exact
<1>4. Pak!ResolveEntryPath(<<<<1>>>>, "relative", <<1>>) = Pak!Min(exact)
  BY <1>1, <1>3 DEF Pak!ResolveEntryPath, exact
<1> QED
  BY <1>1, <1>2, <1>4

LEMMA ExtractIsDecompressed ==
  ASSUME NEW f, NEW e
  PROVE  Pak!Extract(f, <<<<1>>>>, <<e>>, "relative", <<1>>, TRUE, 1)
           = IF e.deleted \/ e.at \notin 0..(Len(f) - 1) \/ Pak!MethodOf(e, 1).err THEN Pak!Fail
             ELSE Pak!DecompressEntry(f, e, TRUE)
<1>1. <<e>>[1] = e
  OBVIOUS
<1> QED
  BY <1>1, OnlyEntryIsFound, 1 # 0, Zenon DEF Pak!Extract

\* What the blocks of an entry give, one behind the other.
Values(f, e) == [k \in DOMAIN e.blocks |-> Pak!BlockBytes(f, e, e.blocks[k]).val]

LEMMA DecompressedInParts ==
  ASSUME NEW f, NEW e \in PakEntry
  PROVE  LET n == IF e.encrypted THEN Pak!Aligned(e.full) ELSE e.full
             raw == Pak!Slice(f, e.at, n)
             all == Pak!Joined(Values(f, e))
             lies == IF e.encrypted THEN Pak!DecryptAesEcb(e.at, raw) ELSE raw
         IN Pak!DecompressEntry(f, e, TRUE)
              = IF e.method = 0 THEN IF Len(raw) < n THEN Pak!Fail ELSE Pak!Fine(Pak!Slice(lies, 0, e.full))
                ELSE IF \/ e.blocks = <<>> \/ Len(all) < e.full
                        \/ \E k \in DOMAIN e.blocks : Pak!BlockBytes(f, e, e.blocks[k]).err
                     THEN Pak!Fail ELSE Pak!Fine(Pak!Slice(all, 0, e.full))
<1> DEFINE bytes == [k \in DOMAIN e.blocks |-> Pak!BlockBytes(f, e, e.blocks[k])]
<1>1. DOMAIN bytes = DOMAIN e.blocks /\ \A k \in DOMAIN e.blocks : bytes[k] = Pak!BlockBytes(f, e, e.blocks[k])
  OBVIOUS
<1>2. [k \in DOMAIN bytes |-> bytes[k].val] = Values(f, e)
  BY <1>1 DEF Values
<1>3. (\E k \in DOMAIN bytes : bytes[k].err) <=> \E k \in DOMAIN e.blocks : Pak!BlockBytes(f, e, e.blocks[k]).err
  BY <1>1
<1> HIDE DEF bytes
<1> QED
  BY <1>2, <1>3 DEF Pak!DecompressEntry, bytes

LEMMA ValuesAreSequences ==
  ASSUME NEW f \in Seq(Int), NEW e \in PakEntry
  PROVE  Pak!Joined(Values(f, e)) \in Seq(Int)
<1>1. e.blocks \in Seq(Nat \X Nat)
  BY DEF PakEntry
<1>2. \A k \in DOMAIN e.blocks : Pak!BlockBytes(f, e, e.blocks[k]).val \in Seq(Int)
  <2>1. \A k \in DOMAIN e.blocks : e.blocks[k] \in Nat \X Nat
    BY <1>1
  <2> QED
    BY <2>1, BlockIsSequence
<1>3. Values(f, e) \in Seq(Seq(Int))
  BY <1>1, <1>2 DEF Values
<1>4. IsLaidOut(Pak!Joined(Values(f, e)), Int, Len(Values(f, e)), 0, Values(f, e))
  BY <1>3, JoinedIsLaidOut
<1> QED
  BY <1>4 DEF IsLaidOut

LEMMA EntryHasItsSize ==
  ASSUME NEW f \in Seq(Int), NEW e \in PakEntry, ~Pak!DecompressEntry(f, e, TRUE).err
  PROVE  Len(Pak!DecompressEntry(f, e, TRUE).val) = e.full
<1> DEFINE n == IF e.encrypted THEN Pak!Aligned(e.full) ELSE e.full
           raw == Pak!Slice(f, e.at, n)
           all == Pak!Joined(Values(f, e))
           lies == IF e.encrypted THEN Pak!DecryptAesEcb(e.at, raw) ELSE raw
           failed == e.blocks = <<>> \/ Len(all) < e.full
                        \/ \E k \in DOMAIN e.blocks : Pak!BlockBytes(f, e, e.blocks[k]).err
           d == Pak!DecompressEntry(f, e, TRUE)
<1>1. e.at \in Nat /\ e.full \in Nat
  BY DEF PakEntry
<1>2. n \in Nat /\ n >= e.full
  <2>1. Pak!Aligned(e.full) \in Nat /\ Pak!Aligned(e.full) >= e.full
    BY <1>1, UnitsAreWhole
  <2>2. e.full >= e.full
    BY <1>1
  <2> QED
    BY <1>1, <2>1, <2>2
<1> HIDE DEF n
<1>3. d = IF e.method = 0 THEN IF Len(raw) < n THEN Pak!Fail ELSE Pak!Fine(Pak!Slice(lies, 0, e.full))
          ELSE IF failed THEN Pak!Fail ELSE Pak!Fine(Pak!Slice(all, 0, e.full))
  BY DecompressedInParts DEF n
<1>4. raw \in Seq(Int)
  BY <1>1, <1>2, SliceIsPart
<1> HIDE DEF raw
<1>5. lies \in Seq(Int) /\ Len(lies) = Len(raw)
  BY <1>4, DecryptedIsSequence
<1> HIDE DEF lies
<1>6. all \in Seq(Int)
  BY ValuesAreSequences
<1> HIDE DEF all, failed, d
<1>7. Pak!Fail.err /\ \A val : Pak!Fine(val).val = val
  BY DEF Pak!Fail, Pak!Fine
<1>8. ~d.err
  BY DEF d
<1>9. ASSUME NEW s \in Seq(Int), Len(s) >= e.full PROVE Len(Pak!Slice(s, 0, e.full)) = e.full
  <2>1. PICK from \in Nat : from = 0
    OBVIOUS
  <2>2. Len(Pak!Slice(s, from, e.full)) = IF from + e.full <= Len(s) THEN e.full ELSE IF from <= Len(s) THEN Len(s) - from ELSE 0
    BY <1>1, ZenonT(30), SliceIsPart
  <2> QED
    BY <1>1, <1>9, <2>1, <2>2
<1>10. CASE e.method = 0
  <2>1. ~(Len(raw) < n) /\ d = Pak!Fine(Pak!Slice(lies, 0, e.full))
    BY <1>3, <1>7, <1>8, <1>10
  <2>2. Len(lies) >= e.full
    BY <1>1, <1>2, <1>4, <1>5, <2>1
  <2> QED
    BY <1>5, <1>7, <1>9, <2>1, <2>2 DEF d
<1>11. CASE e.method # 0
  <2>1. ~failed /\ d = Pak!Fine(Pak!Slice(all, 0, e.full))
    BY <1>3, <1>7, <1>8, <1>11
  <2>2. Len(all) >= e.full
    BY <1>1, <1>6, <2>1 DEF failed
  <2> QED
    BY <1>6, <1>7, <1>9, <2>1, <2>2 DEF d
<1> QED
  BY <1>10, <1>11

Part(f, b) == Pak!Slice(f, b[1], b[2] - b[1])
Content(f, e) == Pak!Joined([k \in DOMAIN e.blocks |-> Twice(Part(f, e.blocks[k]))])
\* The blocks of an entry as a writer leaves them.
IsWritten(f, e) ==
  /\ ~e.deleted /\ e.at \in 0..(Len(f) - 1) /\ e.blocks # <<>>
  /\ \A k \in DOMAIN e.blocks :
       LET n == e.blocks[k][2] - e.blocks[k][1]
       IN /\ n > 0 /\ e.blocks[k][1] >= 0 /\ e.blocks[k][2] <= Len(f)
          /\ IF k < Len(e.blocks) THEN 2 * n = e.blockSize ELSE 2 * n <= e.blockSize
          /\ e.blockSize <= MaxRatio * n

LEMMA WrittenIsRead ==
  ASSUME NEW f \in Seq(Int), NEW e \in PakEntry, IsWritten(f, e),
         e.method = 1, ~e.encrypted, e.full = Len(Content(f, e))
  PROVE  Pak!DecompressEntry(f, e, TRUE) = Pak!Fine(Content(f, e))
<1>1. e.blocks \in Seq(Nat \X Nat) /\ e.blockSize \in Nat /\ e.full \in Nat
  BY DEF PakEntry
<1>2. ASSUME NEW k \in DOMAIN e.blocks
      PROVE  Pak!BlockBytes(f, e, e.blocks[k]) = Pak!Fine(Twice(Part(f, e.blocks[k])))
  <2>1. PICK b \in Nat \X Nat : b = e.blocks[k]
    BY <1>1, SMTT(30)
  <2>2. /\ b[2] - b[1] > 0 /\ b[2] <= Len(f)
        /\ IF k < Len(e.blocks) THEN 2 * (b[2] - b[1]) = e.blockSize ELSE 2 * (b[2] - b[1]) <= e.blockSize
        /\ e.blockSize <= MaxRatio * (b[2] - b[1])
    BY <2>1 DEF IsWritten
  <2>3. b[1] \in Nat /\ b[2] \in Nat
    OBVIOUS
  <2>4. b[1] < b[2]
    BY ONLY <2>2, <2>3
  <2>5. 2 * (b[2] - b[1]) <= e.blockSize
    <3>1. PICK m \in Nat : m = 2 * (b[2] - b[1])
      BY ONLY <2>3, <2>4
    <3>2. IF k < Len(e.blocks) THEN m = e.blockSize ELSE m <= e.blockSize
      BY <2>2, <3>1
    <3> QED
      BY <1>1, <3>1, <3>2
  <2>6. Pak!BlockBytes(f, e, b) = Pak!Fine(Twice(Pak!Slice(f, b[1], b[2] - b[1])))
    BY BlockIsTwice, <2>2, <2>4, <2>5
  <2> QED
    BY <2>1, <2>6 DEF Part
<1>3. \A val : ~Pak!Fine(val).err /\ Pak!Fine(val).val = val
  BY DEF Pak!Fine
<1>4. Values(f, e) = [k \in DOMAIN e.blocks |-> Twice(Part(f, e.blocks[k]))]
  BY <1>2, <1>3 DEF Values
<1> DEFINE all == Pak!Joined(Values(f, e))
<1>5. all = Content(f, e)
  BY <1>4 DEF Content
<1>6. all \in Seq(Int)
  BY ValuesAreSequences
<1>7. e.blocks # <<>> /\ \A k \in DOMAIN e.blocks : ~Pak!BlockBytes(f, e, e.blocks[k]).err
  BY <1>2, <1>3 DEF IsWritten
<1> HIDE DEF all
<1>8. Pak!Slice(all, 0, e.full) = all
  BY <1>1, <1>5, <1>6, SliceIsAll
<1>9. ~(Len(all) < e.full)
  BY <1>1, <1>5
<1>10. Pak!DecompressEntry(f, e, TRUE) = Pak!Fine(Pak!Slice(all, 0, e.full))
  <2> DEFINE n == IF e.encrypted THEN Pak!Aligned(e.full) ELSE e.full
             raw == Pak!Slice(f, e.at, n)
             lies == IF e.encrypted THEN Pak!DecryptAesEcb(e.at, raw) ELSE raw
             failed == e.blocks = <<>> \/ Len(all) < e.full
                          \/ \E k \in DOMAIN e.blocks : Pak!BlockBytes(f, e, e.blocks[k]).err
             plain == IF Len(raw) < n THEN Pak!Fail ELSE Pak!Fine(Pak!Slice(lies, 0, e.full))
  <2>1. Pak!DecompressEntry(f, e, TRUE)
          = IF e.method = 0 THEN plain ELSE IF failed THEN Pak!Fail ELSE Pak!Fine(Pak!Slice(all, 0, e.full))
    BY DecompressedInParts DEF all
  <2>2. ~failed
    BY <1>7, <1>9
  <2> HIDE DEF plain, failed
  <2>3. e.method # 0
    BY ONLY e.method = 1
  <2> QED
    BY <2>1, <2>2, <2>3
<1> QED
  BY <1>5, <1>8, <1>10

LEMMA EntryIsRead ==
  ASSUME NEW f \in Seq(Nat), NEW e \in PakEntry
  PROVE  Pak!EntryIsWhole(f, e)
<1> DEFINE x == Pak!Extract(f, <<<<1>>>>, <<e>>, "relative", <<1>>, TRUE, 1)
           parts == [k \in DOMAIN e.blocks |-> Part(f, e.blocks[k])]
           d == Pak!DecompressEntry(f, e, TRUE)
<1>1. f \in Seq(Int)
  BY SeqMonotonic
<1>2. x = IF e.deleted \/ e.at \notin 0..(Len(f) - 1) \/ Pak!MethodOf(e, 1).err THEN Pak!Fail ELSE d
  BY ExtractIsDecompressed
<1>3. ~x.err => Len(x.val) = e.full
  <2>1. Pak!Fail.err
    BY DEF Pak!Fail
  <2>2. ~d.err => Len(d.val) = e.full
    BY <1>1, EntryHasItsSize
  <2> HIDE DEF x, d
  <2> QED
    BY <1>2, <2>1, <2>2
<1>4. ASSUME e.method = 1, ~e.encrypted, IsWritten(f, e), e.full = Len(Content(f, e))
      PROVE  x = Pak!Fine(Content(f, e))
  <2>1. ~Pak!MethodOf(e, 1).err
    BY <1>4 DEF Pak!MethodOf, Pak!Fine
  <2>2. ~e.deleted /\ e.at \in 0..(Len(f) - 1)
    BY <1>4 DEF IsWritten
  <2>3. d = Pak!Fine(Content(f, e))
    BY <1>1, <1>4, WrittenIsRead
  <2> HIDE DEF x, d
  <2> QED
    BY <1>2, <2>1, <2>2, <2>3
<1>5. Content(f, e) = Pak!Joined([k \in DOMAIN parts |-> Pak!Doubled(parts[k])])
  <2>1. DOMAIN parts = DOMAIN e.blocks /\ \A k \in DOMAIN e.blocks : parts[k] = Part(f, e.blocks[k])
    OBVIOUS
  <2> HIDE DEF parts
  <2>2. [k \in DOMAIN parts |-> Twice(parts[k])] = [k \in DOMAIN e.blocks |-> Twice(Part(f, e.blocks[k]))]
    BY <2>1
  <2> QED
    BY <2>2 DEF Content, Twice
<1> HIDE DEF x
<1> QED
  BY <1>3, <1>4, <1>5, ZenonT(30) DEF Pak!EntryIsWhole, IsWritten, Part, x

-----------------------------------------------------------------------------
(* The files of a package.                                                  *)

Segments == [segs : Seq(Nat) \X Seq(Nat), size : Nat \X Nat]

LEMMA LesserOfTwo ==
  ASSUME NEW a \in Int, NEW b \in Int
  PROVE  Files!Min({a, b}) = IF a <= b THEN a ELSE b
<1>1. \E x \in {a, b} : \A y \in {a, b} : x <= y
  OBVIOUS
<1>2. Files!Min({a, b}) \in {a, b} /\ \A y \in {a, b} : Files!Min({a, b}) <= y
  BY <1>1 DEF Files!Min
<1> QED
  BY <1>2

\* A piece of a sequence; of no length it is empty wherever it starts.
LEMMA PieceIsPart ==
  ASSUME NEW s \in Seq(Nat), NEW from \in Int, NEW n \in Nat, from >= 0 \/ n = 0
  PROVE  /\ Files!Piece(s, from, n) \in Seq(Nat)
         /\ Len(Files!Piece(s, from, n)) = IF n = 0 \/ from > Len(s) THEN 0 ELSE IF from + n <= Len(s) THEN n ELSE Len(s) - from
         /\ \A i \in 1..Len(Files!Piece(s, from, n)) : Files!Piece(s, from, n)[i] = s[from + i]
<1> DEFINE end == IF from + n <= Len(s) THEN from + n ELSE Len(s)
           part == Files!Piece(s, from, n)
<1>1. Len(s) \in Nat /\ end \in Int /\ end <= Len(s)
  OBVIOUS
<1>2. part = SubSeq(s, from + 1, end)
  <2>1. from + n \in Int /\ Len(s) \in Int
    BY <1>1
  <2>2. Files!Min({from + n, Len(s)}) = IF from + n <= Len(s) THEN from + n ELSE Len(s)
    BY ONLY LesserOfTwo, <2>1
  <2> QED
    BY <2>2 DEF Files!Piece
<1>3. \A i \in (from + 1)..end : s[i] \in Nat
  BY <1>1
<1>4. end - from = IF from + n <= Len(s) THEN n ELSE Len(s) - from
  BY <1>1
<1> HIDE DEF end, part
<1>5. PICK low \in Int : low = from + 1
  OBVIOUS
<1>6. /\ SubSeq(s, low, end) \in Seq(Nat)
      /\ Len(SubSeq(s, low, end)) = IF low <= end THEN end - low + 1 ELSE 0
      /\ \A i \in 1..(end - low + 1) : SubSeq(s, low, end)[i] = s[low + i - 1]
  BY ONLY SubSeqProperties, <1>1, <1>3, <1>5, low \in Int
<1>7. end - low + 1 = end - from /\ \A i \in Int : low + i - 1 = from + i
  BY ONLY <1>1, <1>5, from \in Int
<1>8. Len(part) = IF low <= end THEN end - from ELSE 0
  BY <1>2, <1>5, <1>6, <1>7
<1>9. Len(part) = IF n = 0 \/ from > Len(s) THEN 0 ELSE IF from + n <= Len(s) THEN n ELSE Len(s) - from
  BY <1>1, <1>4, <1>5, <1>8
<1>10. \A i \in 1..Len(part) : part[i] = s[from + i]
  <2>1. \A i \in 1..(end - from) : part[i] = s[from + i]
    BY <1>2, <1>5, <1>6, <1>7
  <2> QED
    BY <1>1, <1>8, <2>1
<1> QED
  BY <1>2, <1>5, <1>6, <1>9, <1>10 DEF part

LEMMA SeamIsNowhere ==
  ASSUME NEW a \in Segments, NEW at \in 0..(a.size[1] + a.size[2]), NEW n \in Int
  PROVE  Files!SeamIsInvisible(a, at, n)
<1>1. PICK x \in Seq(Nat), y \in Seq(Nat), m \in Nat, k \in Nat :
        a.segs[1] = x /\ a.segs[2] = y /\ a.size[1] = m /\ a.size[2] = k
  BY DEF Segments
<1>2. at \in Nat /\ at <= m + k
  BY <1>1
<1> DEFINE first == IF at < m THEN Files!Min({n, m - at}) ELSE 0
           front == Files!Piece(x, at, first)
           back == Files!Piece(y, at + first - m, n - first)
           r == Files!PackageRead(a, at, n)
           all == m + k
           failed == [at |-> at, err |-> TRUE, val |-> <<>>]
           lost == [at |-> at + first, err |-> TRUE, val |-> <<>>]
           whole == [at |-> at + n, err |-> FALSE, val |-> front \o back]
<1>3. r = IF n < 0 \/ n > all - at THEN failed
          ELSE IF Len(front) < first THEN failed ELSE IF Len(back) < n - first THEN lost ELSE whole
  BY <1>1 DEF Files!PackageRead, Files!ReadOn
<1> SUFFICES ASSUME n \in Nat, n <= all - at
             PROVE  Files!SeamIsInvisible(a, at, n)
  <2>1. ~(n \in Nat /\ n <= all - at) => (n < 0 \/ n > all - at) /\ n \notin 0..(all - at)
    BY <1>2
  <2>2. failed.err
    OBVIOUS
  <2> HIDE DEF failed
  <2>3. ~(n \in Nat /\ n <= all - at) => r.err /\ n \notin 0..(all - at)
    BY <1>3, <2>1, <2>2
  <2> HIDE DEF r
  <2> QED
    BY <1>1, <2>3 DEF Files!SeamIsInvisible, r
<1>4. first = IF at < m THEN IF n <= m - at THEN n ELSE m - at ELSE 0
  <2>1. m - at \in Int /\ n \in Int
    BY <1>2
  <2>2. Files!Min({n, m - at}) = IF n <= m - at THEN n ELSE m - at
    BY ONLY LesserOfTwo, <2>1
  <2> QED
    BY <2>2
<1>5. /\ first \in Nat /\ n - first \in Nat /\ at + first - m \in Int
      /\ at + first - m >= 0 \/ n - first = 0
  BY <1>2, <1>4
<1> HIDE DEF first
<1>6. /\ front \in Seq(Nat)
      /\ Len(front) = IF first = 0 \/ at > Len(x) THEN 0 ELSE IF at + first <= Len(x) THEN first ELSE Len(x) - at
      /\ \A i \in 1..Len(front) : front[i] = x[at + i]
  <2>1. at \in Int /\ at >= 0
    BY <1>2
  <2> QED
    BY PieceIsPart, <1>5, <2>1
<1>7. /\ back \in Seq(Nat)
      /\ Len(back) = IF n - first = 0 \/ at + first - m > Len(y) THEN 0
                     ELSE IF at + first - m + (n - first) <= Len(y) THEN n - first ELSE Len(y) - (at + first - m)
      /\ \A i \in 1..Len(back) : back[i] = y[at + first - m + i]
  BY PieceIsPart, <1>5
<1> HIDE DEF front, back
<1> DEFINE short == Len(front) < first \/ Len(back) < n - first
<1>8. Len(x) \in Nat /\ Len(y) \in Nat /\ Len(front) \in Nat /\ Len(back) \in Nat
  BY <1>6, <1>7
<1>9. ~short => Len(front) = first /\ Len(back) = n - first
  <2>1. Len(front) <= first
    BY <1>2, <1>5, <1>6, <1>8
  <2>2. Len(back) <= n - first
    BY <1>2, <1>5, <1>7, <1>8
  <2> QED
    BY <1>5, <1>8, <2>1, <2>2
<1>10. IF short THEN r.err ELSE r = whole
  <2>1. failed.err /\ lost.err
    OBVIOUS
  <2>2. ~(n < 0 \/ n > all - at)
    BY <1>2
  <2> HIDE DEF failed, lost, whole, r
  <2> QED
    BY <1>3, <2>1, <2>2
<1>11. whole.at = at + n /\ ~whole.err /\ whole.val = front \o back
  OBVIOUS
<1>12. ~r.err => Len(r.val) = n /\ r.at = at + n
  <2>1. front \o back \in Seq(Nat) /\ Len(front \o back) = Len(front) + Len(back)
    BY <1>6, <1>7, ConcatProperties
  <2> HIDE DEF r, whole, short
  <2>2. ~r.err => ~short /\ r = whole
    BY <1>10
  <2>3. ~r.err => Len(r.val) = Len(front) + Len(back) /\ r.at = at + n
    BY <1>11, <2>1, <2>2
  <2>4. ~short => Len(front) + Len(back) = n
    BY <1>5, <1>9
  <2> QED
    BY <2>2, <2>3, <2>4
<1>13. ASSUME Len(x) = m, Len(y) = k
       PROVE  ~short /\ front \o back = Files!Piece(x \o y, at, n)
  <2>1. ~short
    <3>1. Len(front) = first
      BY <1>2, <1>4, <1>5, <1>6, <1>13
    <3>2. Len(back) = n - first
      BY <1>2, <1>4, <1>5, <1>7, <1>13
    <3> QED
      BY <1>5, <3>1, <3>2
  <2> DEFINE xy == x \o y
             piece == Files!Piece(xy, at, n)
             fb == front \o back
  <2>2. /\ xy \in Seq(Nat) /\ Len(xy) = all
        /\ \A i \in 1..all : xy[i] = IF i <= m THEN x[i] ELSE y[i - m]
    <3>1. /\ xy \in Seq(Nat) /\ Len(xy) = Len(x) + Len(y)
          /\ \A i \in 1..Len(x) + Len(y) : xy[i] = IF i <= Len(x) THEN x[i] ELSE y[i - Len(x)]
      BY ConcatProperties
    <3> HIDE DEF xy
    <3> QED
      BY <1>13, <3>1
  <2> HIDE DEF xy
  <2>3. /\ piece \in Seq(Nat)
        /\ Len(piece) = IF n = 0 \/ at > Len(xy) THEN 0 ELSE IF at + n <= Len(xy) THEN n ELSE Len(xy) - at
        /\ \A i \in 1..Len(piece) : piece[i] = xy[at + i]
    <3>1. at \in Int /\ at >= 0
      BY <1>2
    <3> QED
      BY PieceIsPart, <2>2, <3>1, ZenonT(30)
  <2>4. Len(piece) = n
    BY <1>2, <2>2, <2>3
  <2>5. /\ fb \in Seq(Nat) /\ Len(fb) = n
        /\ \A i \in 1..n : fb[i] = IF i <= first THEN front[i] ELSE back[i - first]
    <3>1. /\ fb \in Seq(Nat) /\ Len(fb) = Len(front) + Len(back)
          /\ \A i \in 1..Len(front) + Len(back) : fb[i] = IF i <= Len(front) THEN front[i] ELSE back[i - Len(front)]
      BY <1>6, <1>7, ConcatProperties
    <3>2. Len(front) = first /\ Len(front) + Len(back) = n
      <4>1. first + (n - first) = n
        BY <1>5
      <4> HIDE DEF short
      <4> QED
        BY <1>9, <2>1, <4>1
    <3> QED
      BY <3>1, <3>2
  <2> HIDE DEF fb, piece, short
  <2>6. ASSUME NEW i \in 1..n PROVE fb[i] = piece[i]
    <3>1. piece[i] = IF at + i <= m THEN x[at + i] ELSE y[at + i - m]
      <4>1. piece[i] = xy[at + i]
        BY <2>3, <2>4
      <4>2. at + i \in 1..all
        BY <1>2
      <4>3. PICK j \in 1..all : j = at + i
        BY <4>2
      <4>4. xy[j] = IF j <= m THEN x[j] ELSE y[j - m]
        BY <2>2
      <4> QED
        BY <4>1, <4>3, <4>4
    <3>2. CASE i <= first
      <4>1. fb[i] = front[i] /\ i \in 1..Len(front)
        BY <1>5, <1>9, <2>1, <2>5, <3>2
      <4>2. at + i <= m
        BY <1>2, <1>4, <3>2
      <4>3. front[i] = x[at + i]
        BY <1>6, <4>1
      <4> QED
        BY <3>1, <4>1, <4>2, <4>3
    <3>3. CASE ~(i <= first)
      <4>1. i - first \in 1..(n - first) /\ at + first - m + (i - first) = at + i - m
        BY <1>2, <1>5, <3>3
      <4>2. fb[i] = back[i - first] /\ i - first \in 1..Len(back)
        BY <1>9, <2>1, <2>5, <3>3, <4>1
      <4>3. back[i - first] = y[at + first - m + (i - first)]
        BY <1>7, <4>2
      <4>4. at + i > m
        BY <1>2, <1>4, <3>3
      <4> QED
        BY <1>2, <3>1, <4>1, <4>2, <4>3, <4>4
    <3> QED
      BY <3>2, <3>3
  <2>7. fb = piece
    BY <2>3, <2>4, <2>5, <2>6, SeqEqual
  <2> QED
    BY <2>1, <2>7 DEF fb, piece, xy
<1> HIDE DEF short, r
<1> QED
  BY <1>1, <1>10, <1>12, <1>13 DEF Files!SeamIsInvisible, r

LEMMA BundleIsWhole ==
  ASSUME NEW files, NEW stem, NEW ext \in {"uasset", "umap"}, NEW gone
  PROVE  Files!BundleOpens(files, [stem |-> stem, ext |-> ext], gone)
<1> DEFINE main == [stem |-> stem, ext |-> ext]
           b == Files!ProviderBundle(files, main)
           o == Files!OpenBundle(b, gone)
           both == "uexp" \in DOMAIN b.payloads
           need == {main.ext} \cup (IF both THEN {"uexp"} ELSE {})
           a == Files!PackageArchive({"main"}, o.open \ {"main"}, FALSE)
           left == Files!PackageArchive({"main"}, o.open \ {"main"}, TRUE)
<1>1. main.ext = ext /\ main.stem = stem
  OBVIOUS
<1>2. /\ ext \in DOMAIN b.payloads
      /\ (IF b.kind = "map" THEN "umap" ELSE "uasset") = ext
  BY <1>1 DEF Files!ProviderBundle
<1> HIDE DEF b
<1>3. CASE ext \in gone
  <2>1. o = [err |-> TRUE, open |-> {}]
    BY <1>2, <1>3, Zenon DEF Files!OpenBundle
  <2> QED
    BY <1>1, <1>3, <2>1 DEF Files!BundleOpens, Files!PackageArchive, Files!CloseArchive, b
<1>4. CASE ext \notin gone /\ both /\ "uexp" \in gone
  <2>1. o = [err |-> TRUE, open |-> {"main"}]
    BY <1>2, <1>4, Zenon DEF Files!OpenBundle
  <2> QED
    BY <1>1, <1>4, <2>1 DEF Files!BundleOpens, Files!PackageArchive, Files!CloseArchive, b
<1>5. CASE ext \notin gone /\ ~(both /\ "uexp" \in gone)
  <2>1. o = [err |-> FALSE, open |-> {"main"} \cup (IF both THEN {"uexp"} ELSE {})]
    BY <1>2, <1>5, Zenon DEF Files!OpenBundle
  <2> QED
    BY <1>1, <1>5, <2>1 DEF Files!BundleOpens, Files!PackageArchive, Files!CloseArchive, b
<1> QED
  BY <1>3, <1>4, <1>5

Name == [stem : Seq(Nat), ext : STRING]

LEMMA FirstExists ==
  ASSUME NEW names, NEW stem, Files!Existing(names, stem) # {}
  PROVE  /\ Files!FirstExisting(names, stem) \in names
         /\ Files!FirstExisting(names, stem) \in {[stem |-> stem, ext |-> "uasset"], [stem |-> stem, ext |-> "umap"]}
<1> DEFINE S == Files!Existing(names, stem)
           k == Files!Min(S)
<1>1. DOMAIN Files!PackageExts = 1..2 /\ Files!PackageExts[1] = "uasset" /\ Files!PackageExts[2] = "umap"
  BY DEF Files!PackageExts
<1>2. S \subseteq 1..2
  BY <1>1 DEF Files!Existing
<1> HIDE DEF S
<1>3. \E x \in S : \A y \in S : x <= y
  BY <1>2 DEF S
<1>4. k \in S
  BY <1>3 DEF Files!Min
<1> HIDE DEF k
<1>5. k \in 1..2 /\ Files!Named(stem, Files!PackageExts[k]) \in names
  BY <1>2, <1>4 DEF S, Files!Existing
<1>6. Files!FirstExisting(names, stem) = Files!Named(stem, Files!PackageExts[k])
  BY DEF Files!FirstExisting, k, S
<1> QED
  BY <1>1, <1>5, <1>6 DEF Files!Named

LEMMA PackageIsFound ==
  ASSUME NEW names, names \subseteq [stem : Seq(Nat), ext : STRING \ {""}], NEW ask \in Name
  PROVE  Files!PackageFoundIsAsked(names, ask)
<1> DEFINE found == Files!ResolvePackagePath(names, ask)
           suffixed == ask.ext = "" /\ Files!Existing(names, ask.stem) # {}
           alike == {f \in names : Files!Alike(f, ask) /\ Files!EndsWith(Files!Fold(f.stem), Files!Fold(ask.stem))}
           first == Files!FirstExisting(names, ask.stem)
<1>1. ask \in names => found = {ask}
  BY Zenon DEF Files!ResolvePackagePath
<1>2. ask \notin names /\ suffixed => found = {first}
  BY Zenon DEF Files!ResolvePackagePath
<1>3. ask \notin names /\ ~suffixed => found = alike
  BY Zenon DEF Files!ResolvePackagePath
<1>4. alike \subseteq names
  OBVIOUS
<1>5. suffixed => first \in names
  BY FirstExists
<1> HIDE DEF alike, first
<1>6. found \subseteq names
  <2> HIDE DEF found, suffixed
  <2> QED
    BY <1>1, <1>2, <1>3, <1>4, <1>5
<1>7. ASSUME ask.ext = ""
      PROVE  Files!FileSystemMain(names, ask) = {} \/ found = Files!FileSystemMain(names, ask)
  <2>1. ask \notin names
    BY <1>7
  <2>2. CASE Files!Existing(names, ask.stem) # {}
    <3>1. Files!FileSystemMain(names, ask) = IF first \in names THEN {first} ELSE {}
      BY <1>7, <2>2 DEF Files!FileSystemMain, first
    <3> QED
      BY <1>2, <1>5, <1>7, <2>1, <2>2, <3>1
  <2>3. CASE Files!Existing(names, ask.stem) = {}
    <3>1. Files!FileSystemMain(names, ask) = {}
      BY <2>1, <2>3 DEF Files!FileSystemMain
    <3> QED
      BY <3>1
  <2> QED
    BY <2>2, <2>3
<1> HIDE DEF found
<1> QED
  BY <1>1, <1>6, <1>7 DEF Files!PackageFoundIsAsked, found

-----------------------------------------------------------------------------
(* All of them.                                                             *)

\* The fields of a case are of the kinds that the source has: numbers are not
\* negative, a place lies in the package, and the names that a provider lists
\* have a suffix.
IsPackageCase ==
  /\ c.p = "packed" => c.e \in PackedEntry
  /\ c.p = "trailer" => c.v \in Nat \ {0} /\ c.size \in Nat
  /\ c.p = "path" => c.entries \in Seq(Path) /\ c.asked \in Path
  /\ c.p = "index" => c.x \in Index
  /\ c.p = "entry" => c.file \in Seq(Nat) /\ c.e \in PakEntry
  /\ c.p = "segments" => c.a \in Segments /\ c.at \in 0..(c.a.size[1] + c.a.size[2]) /\ c.n \in Int
  /\ c.p = "bundle" => c.ext \in {"uasset", "umap"}
  /\ c.p = "find" => c.names \subseteq [stem : Seq(Nat), ext : STRING \ {""}] /\ c.asked \in Name

LEMMA LegacyIsEntry ==
  ASSUME NEW v \in Nat, NEW e \in PakEntry
  PROVE  Pak!LegacyEntry(v, e) \in PakEntry
<1>1. <<>> \in Seq(Nat \X Nat)
  OBVIOUS
<1>2. /\ e.at \in Nat /\ e.full \in Nat /\ e.size \in Nat /\ e.method \in Nat /\ e.blocks \in Seq(Nat \X Nat)
      /\ e.blockSize \in Nat
  BY DEF PakEntry
<1> DEFINE kept == IF v >= 3 /\ e.method # 0 THEN e.blocks ELSE <<>>
           unit == IF v >= 3 THEN e.blockSize ELSE 0
<1>3. kept \in Seq(Nat \X Nat) /\ unit \in Nat
  BY <1>1, <1>2
<1>4. Pak!LegacyEntry(v, e) = [at |-> e.at, full |-> e.full, size |-> e.size, method |-> e.method, encrypted |-> FALSE,
                               deleted |-> FALSE, blocks |-> kept, blockSize |-> unit]
  BY DEF Pak!LegacyEntry
<1> HIDE DEF kept, unit
<1> QED
  BY <1>2, <1>3, <1>4 DEF PakEntry

\* A pak container, for any sizes of its fields: an entry packed into a bit
\* field comes back from it, a trailer is taken for that of its version, a path
\* finds the entry asked for, a pak is open with an index that is whole, and an
\* entry is put together in its size or refused.
THEOREM PaksStayWhole ==
  ASSUME IsPackageCase
  PROVE  PaksAreWhole
<1>1. c.p = "packed" => Pak!PackedEntryReturns(c.e)
  BY PackedReturns DEF IsPackageCase
<1>2. c.p = "trailer" => Pak!TrailerIsItsVersion(c.v, c.size)
  BY TrailerIsFound DEF IsPackageCase
<1>3. c.p = "path" => Pak!PathFoundIsAsked(c.entries, c.mount, c.asked)
  BY PathIsFound DEF IsPackageCase
<1>4. c.p = "index" => Pak!IndexIsWhole(300, [place \in {IF c.v < 7 THEN 44 ELSE 204} |-> c.v], c.x)
  BY IndexIsRead DEF IsPackageCase
<1>5. ASSUME c.p = "entry", NEW e \in {c.e} \cup {Pak!LegacyEntry(v, c.e) : v \in {2, 3, 8}}
      PROVE  Pak!EntryIsWhole(c.file, e)
  <2>1. c.file \in Seq(Nat) /\ c.e \in PakEntry
    BY <1>5 DEF IsPackageCase
  <2>2. \A v \in {2, 3, 8} : Pak!LegacyEntry(v, c.e) \in PakEntry
    BY <2>1, LegacyIsEntry
  <2>3. e \in PakEntry
    BY <2>1, <2>2
  <2> QED
    BY <2>1, <2>3, EntryIsRead
<1> QED
  BY <1>1, <1>2, <1>3, <1>4, <1>5 DEF PaksAreWhole

\* What a container or a directory gives for a package is the package: the pak
\* as above, the two files of a package one behind the other at any place and
\* of any sizes, a bundle with all the files it needs, and the package whose
\* name is asked for.
THEOREM PackagesStayWhole ==
  ASSUME IsPackageCase
  PROVE  PackagesAreWhole
<1>1. PaksAreWhole
  BY PaksStayWhole
<1>2. c.p = "segments" => Files!SeamIsInvisible(c.a, c.at, c.n)
  BY SeamIsNowhere DEF IsPackageCase
<1>3. c.p = "bundle" => Files!BundleOpens([n \in [stem : {<<1>>}, ext : c.exts] |-> <<1>>], [stem |-> <<1>>, ext |-> c.ext], c.gone)
  BY BundleIsWhole DEF IsPackageCase
<1>4. c.p = "find" => Files!PackageFoundIsAsked(c.names, c.asked)
  BY PackageIsFound DEF IsPackageCase
<1> QED
  BY <1>1, <1>2, <1>3, <1>4 DEF PackagesAreWhole, FilesAreWhole

-----------------------------------------------------------------------------
(* The summary.                                                             *)

\* Counts alone are followed by more fields, and the fields that the tables are
\* found by are refused as they must be.
TableOffsets == {"NameOffset", "ImportOffset", "ExportOffset"}
TableCounts == {"NameCount", "ImportCount", "ExportCount"}
LaxOffsets == {"SoftObjectPathsOffset", "PreloadDependencyOffset"}
OtherNames ==
  {"CustomVersions", "TotalHeaderSize", "Tag", "LegacyFileVersion", "LegacyUE3Version", "FileVersionUE4",
   "FileVersionUE5", "FileVersionLicensee", "SavedHash", "PackageName", "PackageFlags", "SoftObjectPathsCount",
   "LocalizationId", "GatherableTextDataCount", "GatherableTextDataOffset", "CellExportCount", "CellExportOffset",
   "CellImportCount", "CellImportOffset", "MetadataOffset", "DependsOffset", "SoftPackageReferencesCount",
   "SoftPackageReferencesOffset", "SearchableNamesOffset", "ThumbnailTableOffset", "ImportTypeHierarchiesCount",
   "ImportTypeHierarchiesOffset", "Guid", "PersistentGuid", "OwnerPersistentGuid", "Generations",
   "CompressionFlags", "CompressedChunks", "PackageSource", "AdditionalPackages", "NumTextureAllocations",
   "AssetRegistryDataOffset", "BulkDataStartOffset", "WorldTileInfoDataOffset", "ChunkIDs",
   "PreloadDependencyCount", "NamesReferencedFromExportDataCount", "PayloadTocOffset", "DataResourceOffset",
   "SavedBy", "CompatibleWith"}
SummaryField ==
  {f \in [name : TableOffsets \cup TableCounts \cup LaxOffsets \cup OtherNames,
          kind : {"int", "offset", "lax", "count", "limited", "tag", "legacy", "version"}, per : 0..3] :
     /\ f.per > 0 => f.kind \in {"count", "limited"}
     /\ f.name \in TableOffsets => f.kind = "offset"
     /\ f.name \in TableCounts => f.kind = "limited"
     /\ f.name \in LaxOffsets => f.kind = "lax"}

LEMMA NamesAreApart ==
  \A n \in OtherNames : n \notin TableOffsets /\ n \notin TableCounts /\ n \notin LaxOffsets
BY DEF OtherNames, TableOffsets, TableCounts, LaxOffsets

LEMMA FieldsAreGood ==
  /\ \A n \in OtherNames : /\ Header!Plain(n) \in SummaryField /\ Header!Count(n) \in SummaryField /\ Header!Lax(n) \in SummaryField
                           /\ \A per \in 0..3 : Header!Listed(n, per) \in SummaryField /\ Header!Limited(n, per) \in SummaryField
  /\ \A n \in TableOffsets : Header!Offset(n) \in SummaryField
  /\ \A n \in TableCounts : Header!Limited(n, 0) \in SummaryField
  /\ \A n \in LaxOffsets : Header!Lax(n) \in SummaryField
  /\ \A n \in OtherNames, kind \in {"tag", "legacy", "version"} : [name |-> n, kind |-> kind, per |-> 0] \in SummaryField
<1>1. ASSUME NEW n \in OtherNames
      PROVE  /\ Header!Plain(n) \in SummaryField /\ Header!Count(n) \in SummaryField /\ Header!Lax(n) \in SummaryField
             /\ \A per \in 0..3 : Header!Listed(n, per) \in SummaryField /\ Header!Limited(n, per) \in SummaryField
             /\ \A kind \in {"tag", "legacy", "version"} : [name |-> n, kind |-> kind, per |-> 0] \in SummaryField
  BY NamesAreApart DEF SummaryField, Header!Plain, Header!Count, Header!Listed, Header!Limited, Header!Lax
<1>2. ASSUME NEW n \in TableOffsets PROVE Header!Offset(n) \in SummaryField
  BY DEF Header!Offset, SummaryField, TableOffsets, TableCounts, LaxOffsets
<1>3. ASSUME NEW n \in TableCounts PROVE Header!Limited(n, 0) \in SummaryField
  BY DEF Header!Limited, SummaryField, TableOffsets, TableCounts, LaxOffsets
<1>4. ASSUME NEW n \in LaxOffsets PROVE Header!Lax(n) \in SummaryField
  BY DEF Header!Lax, SummaryField, TableOffsets, TableCounts, LaxOffsets
<1> QED
  BY <1>1, <1>2, <1>3, <1>4

LEMMA ConcatIsIn ==
  ASSUME NEW s \in Seq(SummaryField), NEW t \in Seq(SummaryField)
  PROVE  s \o t \in Seq(SummaryField)
OBVIOUS

LEMMA WhenIsIn ==
  ASSUME NEW b, NEW s \in Seq(SummaryField)
  PROVE  Header!When(b, s) \in Seq(SummaryField)
<1>1. <<>> \in Seq(SummaryField)
  OBVIOUS
<1> QED
  BY <1>1 DEF Header!When

LEMMA OneField ==
  ASSUME NEW f \in SummaryField
  PROVE  <<f>> \in Seq(SummaryField)
OBVIOUS

LEMMA VersionAndTagIsGood == ASSUME NEW v PROVE Header!VersionAndTag(v) \in Seq(SummaryField)
<1> DEFINE tag == <<[name |-> "Tag", kind |-> "tag", per |-> 0], [name |-> "LegacyFileVersion", kind |-> "legacy", per |-> 0]>>
           version == <<[name |-> "FileVersionUE5", kind |-> "version", per |-> 0]>>
           custom == <<Header!Limited("CustomVersions", IF v.ue5 < 1016 /\ v.legacy \in Header!UE4Legacy THEN 3 ELSE 2)>>
           One(n) == <<Header!Plain(n)>>
<1>1. tag \in Seq(SummaryField) /\ version \in Seq(SummaryField)
  BY FieldsAreGood DEF OtherNames
<1>2. custom \in Seq(SummaryField)
  <2>1. CASE v.ue5 < 1016 /\ v.legacy \in Header!UE4Legacy
    BY <2>1, FieldsAreGood, OneField DEF OtherNames
  <2>2. CASE ~(v.ue5 < 1016 /\ v.legacy \in Header!UE4Legacy)
    BY <2>2, FieldsAreGood, OneField DEF OtherNames
  <2> QED
    BY <2>1, <2>2
<1>3. /\ One("LegacyUE3Version") \in Seq(SummaryField) /\ One("FileVersionUE4") \in Seq(SummaryField)
      /\ One("FileVersionLicensee") \in Seq(SummaryField) /\ One("SavedHash") \in Seq(SummaryField)
      /\ One("TotalHeaderSize") \in Seq(SummaryField)
  BY FieldsAreGood, OneField DEF OtherNames, TableOffsets, TableCounts, LaxOffsets
<1>4. Header!VersionAndTag(v) = tag \o Header!When(v.legacy # -4, One("LegacyUE3Version")) \o One("FileVersionUE4")
       \o Header!When(v.legacy <= -8, version) \o One("FileVersionLicensee")
       \o (IF v.ue5 >= 1016 THEN One("SavedHash") \o One("TotalHeaderSize") \o custom ELSE custom \o One("TotalHeaderSize"))
  BY DEF Header!VersionAndTag
<1> HIDE DEF tag, version, custom, One
<1>5. /\ Header!When(v.legacy # -4, One("LegacyUE3Version")) \in Seq(SummaryField)
      /\ Header!When(v.legacy <= -8, version) \in Seq(SummaryField)
  BY <1>1, <1>3, WhenIsIn
<1>6. One("SavedHash") \o One("TotalHeaderSize") \o custom \in Seq(SummaryField) /\ custom \o One("TotalHeaderSize") \in Seq(SummaryField)
  BY <1>2, <1>3, ConcatIsIn
<1> QED
  BY <1>1, <1>3, <1>4, <1>5, <1>6, ConcatIsIn

LEMMA GroupsAreGood ==
  ASSUME NEW v
  PROVE  /\ Header!Identity \in Seq(SummaryField) /\ Header!NameTableOffsets \in Seq(SummaryField)
         /\ Header!PreExport(v) \in Seq(SummaryField) /\ Header!ExportImportOffsets \in Seq(SummaryField)
         /\ Header!PostImport(v) \in Seq(SummaryField) /\ Header!Secondary(v) \in Seq(SummaryField)
         /\ Header!Hierarchies(v) \in Seq(SummaryField) /\ Header!Guids(v) \in Seq(SummaryField)
         /\ Header!Generations \in Seq(SummaryField)
         /\ \A n \in {"SavedBy", "CompatibleWith"} : Header!EngineVersionFields(n) \in Seq(SummaryField)
         /\ Header!Compression \in Seq(SummaryField) /\ Header!AdditionalPackages(v) \in Seq(SummaryField)
         /\ Header!TailOffsets \in Seq(SummaryField) /\ Header!LateFields(v) \in Seq(SummaryField)
<1>1. Header!Identity \in Seq(SummaryField) /\ Header!NameTableOffsets \in Seq(SummaryField) /\ Header!ExportImportOffsets \in Seq(SummaryField)
  BY FieldsAreGood DEF Header!Identity, Header!NameTableOffsets, Header!ExportImportOffsets, OtherNames, TableOffsets, TableCounts, LaxOffsets
<1>2. Header!PreExport(v) \in Seq(SummaryField)
  <2> DEFINE soft == <<Header!Plain("SoftObjectPathsCount"), Header!Lax("SoftObjectPathsOffset")>>
             local == <<Header!Plain("LocalizationId")>>
             gather == <<Header!Plain("GatherableTextDataCount"), Header!Lax("GatherableTextDataOffset")>>
  <2>1. soft \in Seq(SummaryField) /\ local \in Seq(SummaryField) /\ gather \in Seq(SummaryField)
    BY FieldsAreGood DEF OtherNames, TableOffsets, TableCounts, LaxOffsets
  <2>2. Header!PreExport(v) = Header!When(v.ue5 >= 1008, soft) \o Header!When(~v.filtered /\ v.ue4 >= 516, local) \o Header!When(v.ue4 >= 459, gather)
    BY DEF Header!PreExport
  <2> HIDE DEF soft, local, gather
  <2>3. /\ Header!When(v.ue5 >= 1008, soft) \in Seq(SummaryField)
        /\ Header!When(~v.filtered /\ v.ue4 >= 516, local) \in Seq(SummaryField)
        /\ Header!When(v.ue4 >= 459, gather) \in Seq(SummaryField)
    BY <2>1, WhenIsIn
  <2> QED
    BY <2>1, <2>2, <2>3, ConcatIsIn
<1>3. Header!PostImport(v) \in Seq(SummaryField)
  <2> DEFINE cells == Header!CellCounts
             meta == <<Header!Lax("MetadataOffset")>>
  <2>1. cells \in Seq(SummaryField) /\ meta \in Seq(SummaryField)
    BY FieldsAreGood DEF OtherNames, TableOffsets, TableCounts, LaxOffsets, Header!CellCounts
  <2>2. Header!PostImport(v) = Header!When(v.ue5 >= 1015, cells) \o Header!When(v.ue5 >= 1014, meta)
    BY DEF Header!PostImport
  <2> HIDE DEF cells, meta
  <2>3. /\ Header!When(v.ue5 >= 1015, cells) \in Seq(SummaryField)
        /\ Header!When(v.ue5 >= 1014, meta) \in Seq(SummaryField)
    BY <2>1, WhenIsIn
  <2> QED
    BY <2>1, <2>2, <2>3, ConcatIsIn
<1>4. Header!Secondary(v) \in Seq(SummaryField)
  <2> DEFINE depends == <<Header!Plain("DependsOffset")>>
             soft == <<Header!Limited("SoftPackageReferencesCount", 0), Header!Plain("SoftPackageReferencesOffset")>>
             search == <<Header!Plain("SearchableNamesOffset")>>
             thumbs == <<Header!Lax("ThumbnailTableOffset")>>
  <2>1. depends \in Seq(SummaryField) /\ soft \in Seq(SummaryField) /\ search \in Seq(SummaryField) /\ thumbs \in Seq(SummaryField)
    BY FieldsAreGood DEF OtherNames, TableOffsets, TableCounts, LaxOffsets
  <2>2. Header!Secondary(v) = depends \o Header!When(v.ue4 >= 384, soft) \o Header!When(v.ue4 >= 510, search) \o thumbs
    BY DEF Header!Secondary
  <2> HIDE DEF depends, soft, search, thumbs
  <2>3. /\ Header!When(v.ue4 >= 384, soft) \in Seq(SummaryField)
        /\ Header!When(v.ue4 >= 510, search) \in Seq(SummaryField)
    BY <2>1, WhenIsIn
  <2> QED
    BY <2>1, <2>2, <2>3, ConcatIsIn
<1>5. Header!Hierarchies(v) \in Seq(SummaryField)
  <2> DEFINE types == <<Header!Count("ImportTypeHierarchiesCount"), Header!Lax("ImportTypeHierarchiesOffset")>>
  <2>1. types \in Seq(SummaryField)
    BY FieldsAreGood DEF OtherNames, TableOffsets, TableCounts, LaxOffsets
  <2>2. Header!Hierarchies(v) = Header!When(v.ue5 >= 1018, types)
    BY DEF Header!Hierarchies
  <2> HIDE DEF types
  <2>3. /\ Header!When(v.ue5 >= 1018, types) \in Seq(SummaryField)
    BY <2>1, WhenIsIn
  <2> QED
    BY <2>1, <2>2, <2>3, ConcatIsIn
<1>6. Header!Guids(v) \in Seq(SummaryField)
  <2>1. /\ <<Header!Plain("Guid")>> \in Seq(SummaryField) /\ <<Header!Plain("PersistentGuid")>> \in Seq(SummaryField)
        /\ <<Header!Plain("OwnerPersistentGuid")>> \in Seq(SummaryField)
    BY FieldsAreGood DEF OtherNames, TableOffsets, TableCounts, LaxOffsets
  <2> QED
    BY <2>1, WhenIsIn, ConcatIsIn DEF Header!Guids
<1>7. Header!Generations \in Seq(SummaryField) /\ Header!Compression \in Seq(SummaryField) /\ Header!TailOffsets \in Seq(SummaryField)
  BY FieldsAreGood DEF OtherNames, TableOffsets, TableCounts, LaxOffsets, Header!Generations, Header!Compression, Header!TailOffsets
<1>8. ASSUME NEW n \in {"SavedBy", "CompatibleWith"} PROVE Header!EngineVersionFields(n) \in Seq(SummaryField)
  BY FieldsAreGood DEF OtherNames, TableOffsets, TableCounts, LaxOffsets, Header!EngineVersionFields
<1>9. Header!AdditionalPackages(v) \in Seq(SummaryField)
  <2>1. <<Header!Listed("AdditionalPackages", 1)>> \in Seq(SummaryField) /\ <<Header!Plain("NumTextureAllocations")>> \in Seq(SummaryField)
    BY FieldsAreGood DEF OtherNames, TableOffsets, TableCounts, LaxOffsets
  <2> QED
    BY <2>1, WhenIsIn, ConcatIsIn DEF Header!AdditionalPackages
<1>10. Header!LateFields(v) \in Seq(SummaryField)
  <2> DEFINE preload == <<Header!Plain("PreloadDependencyCount"), Header!Lax("PreloadDependencyOffset")>>
             referenced == <<Header!Plain("NamesReferencedFromExportDataCount")>>
             toc == <<Header!Plain("PayloadTocOffset")>>
             data == <<Header!Lax("DataResourceOffset")>>
  <2>1. preload \in Seq(SummaryField) /\ referenced \in Seq(SummaryField) /\ toc \in Seq(SummaryField) /\ data \in Seq(SummaryField)
    BY FieldsAreGood DEF OtherNames, TableOffsets, TableCounts, LaxOffsets
  <2>2. Header!LateFields(v) = Header!When(v.ue4 >= 507, preload) \o Header!When(v.ue5 >= 1001, referenced) \o Header!When(v.ue5 >= 1002, toc) \o Header!When(v.ue5 >= 1009, data)
    BY DEF Header!LateFields
  <2> HIDE DEF preload, referenced, toc, data
  <2>3. /\ Header!When(v.ue4 >= 507, preload) \in Seq(SummaryField)
        /\ Header!When(v.ue5 >= 1001, referenced) \in Seq(SummaryField)
        /\ Header!When(v.ue5 >= 1002, toc) \in Seq(SummaryField)
        /\ Header!When(v.ue5 >= 1009, data) \in Seq(SummaryField)
    BY <2>1, WhenIsIn
  <2> QED
    BY <2>1, <2>2, <2>3, ConcatIsIn
<1> QED
  BY <1>1, <1>2, <1>3, <1>4, <1>5, <1>6, <1>7, <1>8, <1>9, <1>10

\* f is one of the fields of s.
Among(f, s) == \E k \in DOMAIN s : s[k] = f

LEMMA AmongEither ==
  ASSUME NEW s \in Seq(SummaryField), NEW t \in Seq(SummaryField), NEW f, Among(f, s) \/ Among(f, t)
  PROVE  Among(f, s \o t)
<1>1. Len(s) \in Nat /\ Len(t) \in Nat /\ DOMAIN s = 1..Len(s) /\ DOMAIN t = 1..Len(t)
      /\ DOMAIN (s \o t) = 1..(Len(s) + Len(t))
      /\ (\A k \in DOMAIN s : (s \o t)[k] = s[k]) /\ \A k \in DOMAIN t : (s \o t)[Len(s) + k] = t[k]
  OBVIOUS
<1>2. CASE Among(f, s)
  BY <1>1, <1>2 DEF Among
<1>3. CASE Among(f, t)
  <2>1. PICK k \in DOMAIN t : t[k] = f
    BY <1>3 DEF Among
  <2>2. Len(s) + k \in DOMAIN (s \o t) /\ (s \o t)[Len(s) + k] = f
    BY <1>1, <2>1
  <2> QED
    BY <2>2 DEF Among
<1> QED
  BY <1>2, <1>3

LEMMA LayoutIsGood ==
  ASSUME NEW v
  PROVE  /\ Header!Layout(v) \in Seq(SummaryField)
         /\ Among([name |-> "LegacyFileVersion", kind |-> "legacy", per |-> 0], Header!Layout(v))
         /\ Among(Header!Limited("ExportCount", 0), Header!Layout(v))
         /\ Among(Header!Limited("ImportCount", 0), Header!Layout(v))
<1> DEFINE legacy == [name |-> "LegacyFileVersion", kind |-> "legacy", per |-> 0]
           a == Header!VersionAndTag(v)
           b == a \o Header!Identity \o Header!NameTableOffsets \o Header!PreExport(v)
           d == b \o Header!ExportImportOffsets
           e == d \o Header!PostImport(v) \o Header!Secondary(v) \o Header!Hierarchies(v) \o Header!Guids(v)
                  \o Header!Generations
           g == e \o Header!EngineVersionFields("SavedBy") \o Header!EngineVersionFields("CompatibleWith")
                  \o Header!Compression \o Header!AdditionalPackages(v) \o Header!TailOffsets \o Header!LateFields(v)
<1>1. Header!Layout(v) = g
  BY DEF Header!Layout
<1>2. a \in Seq(SummaryField) /\ b \in Seq(SummaryField) /\ d \in Seq(SummaryField)
  BY VersionAndTagIsGood, GroupsAreGood, ConcatIsIn
<1>3. Among(legacy, a)
  <2> DEFINE head == <<[name |-> "Tag", kind |-> "tag", per |-> 0], legacy>>
             ue3 == Header!When(v.legacy # -4, <<Header!Plain("LegacyUE3Version")>>)
             ue4 == <<Header!Plain("FileVersionUE4")>>
             ue5 == Header!When(v.legacy <= -8, <<[name |-> "FileVersionUE5", kind |-> "version", per |-> 0]>>)
             licensee == <<Header!Plain("FileVersionLicensee")>>
             custom == <<Header!Limited("CustomVersions", IF v.ue5 < 1016 /\ v.legacy \in Header!UE4Legacy THEN 3 ELSE 2)>>
             rest == IF v.ue5 >= 1016 THEN <<Header!Plain("SavedHash")>> \o <<Header!Plain("TotalHeaderSize")>> \o custom
                     ELSE custom \o <<Header!Plain("TotalHeaderSize")>>
  <2>1. a = head \o ue3 \o ue4 \o ue5 \o licensee \o rest
    BY DEF Header!VersionAndTag
  <2>2. head \in Seq(SummaryField) /\ Among(legacy, head)
    <3>1. head \in Seq(SummaryField)
      BY FieldsAreGood DEF OtherNames
    <3>2. 2 \in DOMAIN head /\ head[2] = legacy
      OBVIOUS
    <3> QED
      BY <3>1, <3>2 DEF Among
  <2>3. ue3 \in Seq(SummaryField) /\ ue4 \in Seq(SummaryField) /\ ue5 \in Seq(SummaryField) /\ licensee \in Seq(SummaryField)
    <3>1. /\ <<Header!Plain("LegacyUE3Version")>> \in Seq(SummaryField) /\ ue4 \in Seq(SummaryField)
          /\ <<[name |-> "FileVersionUE5", kind |-> "version", per |-> 0]>> \in Seq(SummaryField)
          /\ licensee \in Seq(SummaryField)
      BY FieldsAreGood, OneField DEF OtherNames, TableOffsets, TableCounts, LaxOffsets
    <3> QED
      BY <3>1, WhenIsIn
  <2>4. rest \in Seq(SummaryField)
    <3>1. custom \in Seq(SummaryField) /\ <<Header!Plain("SavedHash")>> \in Seq(SummaryField)
            /\ <<Header!Plain("TotalHeaderSize")>> \in Seq(SummaryField)
      BY FieldsAreGood, OneField DEF OtherNames, TableOffsets, TableCounts, LaxOffsets
    <3> QED
      BY <3>1, ConcatIsIn
  <2> HIDE DEF head, ue3, ue4, ue5, licensee, custom, rest, a
  <2>5. /\ head \o ue3 \in Seq(SummaryField) /\ head \o ue3 \o ue4 \in Seq(SummaryField)
        /\ head \o ue3 \o ue4 \o ue5 \in Seq(SummaryField) /\ head \o ue3 \o ue4 \o ue5 \o licensee \in Seq(SummaryField)
    BY <2>2, <2>3, ConcatIsIn
  <2>6. Among(legacy, head \o ue3)
    BY <2>2, <2>3, AmongEither
  <2>7. Among(legacy, head \o ue3 \o ue4 \o ue5)
    BY <2>3, <2>5, <2>6, AmongEither
  <2> QED
    BY <2>1, <2>3, <2>4, <2>5, <2>7, AmongEither
<1>4. Among(legacy, b) /\ Among(legacy, d)
  <2>1. a \o Header!Identity \in Seq(SummaryField) /\ a \o Header!Identity \o Header!NameTableOffsets \in Seq(SummaryField)
    BY <1>2, GroupsAreGood, ConcatIsIn
  <2>2. Among(legacy, a \o Header!Identity)
    BY <1>2, <1>3, GroupsAreGood, AmongEither
  <2>3. Among(legacy, b)
    BY <2>1, <2>2, GroupsAreGood, AmongEither
  <2> QED
    BY <1>2, <2>3, GroupsAreGood, AmongEither
<1>5. Among(Header!Limited("ExportCount", 0), d) /\ Among(Header!Limited("ImportCount", 0), d)
  <2>1. /\ Among(Header!Limited("ExportCount", 0), Header!ExportImportOffsets)
        /\ Among(Header!Limited("ImportCount", 0), Header!ExportImportOffsets)
    <3>1. 1 \in DOMAIN Header!ExportImportOffsets /\ 3 \in DOMAIN Header!ExportImportOffsets
          /\ Header!ExportImportOffsets[1] = Header!Limited("ExportCount", 0)
          /\ Header!ExportImportOffsets[3] = Header!Limited("ImportCount", 0)
      BY DEF Header!ExportImportOffsets
    <3> QED
      BY <3>1 DEF Among
  <2> QED
    BY <1>2, <2>1, GroupsAreGood, AmongEither
<1> HIDE DEF a, b, d
<1>6. ASSUME NEW f, Among(f, d) PROVE e \in Seq(SummaryField) /\ Among(f, e)
  <2>1. /\ d \o Header!PostImport(v) \in Seq(SummaryField) /\ d \o Header!PostImport(v) \o Header!Secondary(v) \in Seq(SummaryField)
        /\ d \o Header!PostImport(v) \o Header!Secondary(v) \o Header!Hierarchies(v) \in Seq(SummaryField)
        /\ d \o Header!PostImport(v) \o Header!Secondary(v) \o Header!Hierarchies(v) \o Header!Guids(v) \in Seq(SummaryField)
        /\ e \in Seq(SummaryField)
    BY <1>2, GroupsAreGood, ConcatIsIn
  <2>2. Among(f, d \o Header!PostImport(v))
    BY <1>2, <1>6, GroupsAreGood, AmongEither
  <2>3. Among(f, d \o Header!PostImport(v) \o Header!Secondary(v))
    BY <2>1, <2>2, GroupsAreGood, AmongEither
  <2>4. Among(f, d \o Header!PostImport(v) \o Header!Secondary(v) \o Header!Hierarchies(v))
    BY <2>1, <2>3, GroupsAreGood, AmongEither
  <2>5. Among(f, d \o Header!PostImport(v) \o Header!Secondary(v) \o Header!Hierarchies(v) \o Header!Guids(v))
    BY <2>1, <2>4, GroupsAreGood, AmongEither
  <2> QED
    BY <2>1, <2>5, GroupsAreGood, AmongEither
<1> HIDE DEF e
<1>7. ASSUME NEW f, Among(f, e), e \in Seq(SummaryField) PROVE g \in Seq(SummaryField) /\ Among(f, g)
  <2> DEFINE s == e \o Header!EngineVersionFields("SavedBy")
             t == s \o Header!EngineVersionFields("CompatibleWith")
             u == t \o Header!Compression
             w == u \o Header!AdditionalPackages(v)
             x == w \o Header!TailOffsets
  <2>1. s \in Seq(SummaryField) /\ Among(f, s)
    BY <1>7, GroupsAreGood, AmongEither, ConcatIsIn
  <2> HIDE DEF s
  <2>2. t \in Seq(SummaryField) /\ Among(f, t)
    BY <2>1, GroupsAreGood, AmongEither, ConcatIsIn
  <2> HIDE DEF t
  <2>3. u \in Seq(SummaryField) /\ Among(f, u)
    BY <2>2, GroupsAreGood, AmongEither, ConcatIsIn
  <2> HIDE DEF u
  <2>4. w \in Seq(SummaryField) /\ Among(f, w)
    BY <2>3, GroupsAreGood, AmongEither, ConcatIsIn
  <2> HIDE DEF w
  <2>5. x \in Seq(SummaryField) /\ Among(f, x)
    BY <2>4, GroupsAreGood, AmongEither, ConcatIsIn
  <2>6. g = x \o Header!LateFields(v)
    BY DEF s, t, u, w, x
  <2> HIDE DEF x, g
  <2> QED
    BY <2>5, <2>6, GroupsAreGood, AmongEither, ConcatIsIn
<1> HIDE DEF g
<1> QED
  BY <1>1, <1>4, <1>5, <1>6, <1>7

ReadState == [at : Nat, ok : BOOLEAN]
Start == [at |-> 0, ok |-> TRUE]
\* What a file says of the fields it names is a number.
Saying(odd) == \A n \in DOMAIN odd : odd[n] \in Int

LEMMA SaysNumbers ==
  ASSUME NEW odd, Saying(odd), NEW n
  PROVE  Header!Says(odd, n) \in Int
BY DEF Header!Says, Saying

LEMMA WidthIsPositive ==
  ASSUME NEW v, NEW odd, Saying(odd), NEW f \in SummaryField, ~Header!Refused(v, odd, f)
  PROVE  Header!Width(odd, f) \in Nat \ {0}
<1>1. f.per \in 0..3 /\ (f.per > 0 => f.kind \in {"count", "limited"})
  BY DEF SummaryField
<1> DEFINE x == Header!Says(odd, f.name)
<1>2. x \in Int /\ (f.per > 0 => x >= 0)
  BY <1>1, SaysNumbers DEF Header!Refused
<1>3. Header!Width(odd, f) = IF f.per = 0 THEN 1 ELSE 1 + f.per * x
  BY DEF Header!Width
<1> HIDE DEF x
<1>4. CASE f.per = 0
  BY <1>3, <1>4
<1>5. CASE f.per = 1
  BY <1>2, <1>3, <1>5
<1>6. CASE f.per = 2
  BY <1>2, <1>3, <1>6
<1>7. CASE f.per = 3
  BY <1>2, <1>3, <1>7
<1> QED
  BY <1>1, <1>4, <1>5, <1>6, <1>7

LEMMA FieldIsRead ==
  ASSUME NEW v, NEW odd, Saying(odd), NEW room \in Nat, NEW f \in SummaryField, NEW r \in ReadState
  PROVE  LET next == Header!ReadField(v, odd, room, r, f)
         IN /\ next \in ReadState
            /\ next.ok => r.ok /\ ~Header!Refused(v, odd, f) /\ next.at = r.at + Header!Width(odd, f) /\ next.at <= room
            /\ ~next.ok => ~r.ok \/ Header!Refused(v, odd, f) \/ r.at + Header!Width(odd, f) > room
<1> DEFINE next == Header!ReadField(v, odd, room, r, f)
<1>1. r.at \in Nat /\ r.ok \in BOOLEAN
  BY DEF ReadState
<1>2. CASE ~r.ok \/ Header!Refused(v, odd, f) \/ r.at + Header!Width(odd, f) > room
  <2>1. next = [r EXCEPT !.ok = FALSE]
    BY <1>2 DEF Header!ReadField
  <2> QED
    BY <1>1, <1>2, <2>1 DEF ReadState
<1>3. CASE ~(~r.ok \/ Header!Refused(v, odd, f) \/ r.at + Header!Width(odd, f) > room)
  <2>1. next = [r EXCEPT !.at = @ + Header!Width(odd, f)] /\ Header!Width(odd, f) \in Nat \ {0}
    BY <1>3, WidthIsPositive DEF Header!ReadField
  <2> QED
    BY <1>1, <1>3, <2>1 DEF ReadState
<1> QED
  BY <1>2, <1>3

\* The places a reader passes, one behind each field.
Reads(v, odd, room, fields, n, a) ==
  a = [k \in 0..n |-> IF k = 0 THEN Start ELSE Header!ReadField(v, odd, room, a[k - 1], fields[k])]
Passed(v, odd, room, fields, n, a) ==
  /\ a[0] = Start /\ \A k \in 1..n : a[k] = Header!ReadField(v, odd, room, a[k - 1], fields[k])
  /\ \A k \in 0..n : a[k] \in ReadState

LEMMA FieldsAreRead ==
  ASSUME NEW v, NEW odd, Saying(odd), NEW room \in Nat, NEW n \in Nat, NEW fields \in [1..n -> SummaryField]
  PROVE  \E a : a = (CHOOSE b : Reads(v, odd, room, fields, n, b)) /\ Passed(v, odd, room, fields, n, a)
<1> DEFINE h == [x \in (1..n) \X ReadState |-> Header!ReadField(v, odd, room, x[2], fields[x[1]])]
<1>1. h \in [(1..n) \X ReadState -> ReadState]
  <2>1. ASSUME NEW x \in (1..n) \X ReadState PROVE Header!ReadField(v, odd, room, x[2], fields[x[1]]) \in ReadState
    <3>1. x[2] \in ReadState /\ fields[x[1]] \in SummaryField
      OBVIOUS
    <3> QED
      BY <3>1, FieldIsRead
  <2> QED
    BY <2>1
<1>2. \A k \in 1..n : \A r \in ReadState : h[<<k, r>>] = Header!ReadField(v, odd, room, r, fields[k])
  OBVIOUS
<1> HIDE DEF h
<1>3. Start \in ReadState
  BY DEF Start, ReadState
<1>4. PICK a \in [0..n -> ReadState] : a[0] = Start /\ \A k \in 1..n : a[k] = h[<<k, a[k - 1]>>]
  <2>1. HasRecursion(ReadState, Start, n, h)
    BY <1>1, <1>3, RecursiveFunction
  <2> QED
    BY <2>1 DEF HasRecursion
<1>5. Reads(v, odd, room, fields, n, a)
  <2>1. ASSUME NEW k \in 0..n PROVE a[k] = IF k = 0 THEN Start ELSE Header!ReadField(v, odd, room, a[k - 1], fields[k])
    <3>1. CASE k # 0
      <4>1. k \in 1..n /\ a[k - 1] \in ReadState
        BY <3>1
      <4> QED
        BY <1>2, <1>4, <3>1, <4>1
    <3> QED
      BY <1>4, <3>1
  <2> QED
    BY <2>1 DEF Reads
<1>6. PICK b : b = (CHOOSE u : Reads(v, odd, room, fields, n, u)) /\ Reads(v, odd, room, fields, n, b)
  BY <1>5
<1>7. b[0] = Start /\ \A k \in 1..n : b[k] = Header!ReadField(v, odd, room, b[k - 1], fields[k])
  <2>1. 0 \in 0..n /\ \A k \in 1..n : k \in 0..n /\ k # 0
    OBVIOUS
  <2>2. \A k \in 0..n : b[k] = IF k = 0 THEN Start ELSE Header!ReadField(v, odd, room, b[k - 1], fields[k])
    BY <1>6 DEF Reads
  <2> QED
    BY <2>1, <2>2
<1> DEFINE P == {k \in Nat : k <= n => b[k] \in ReadState}
<1>8. 0 \in P
  BY <1>3, <1>7
<1>9. ASSUME NEW k \in P PROVE k + 1 \in P
  <2> SUFFICES ASSUME k + 1 <= n PROVE b[k + 1] \in ReadState
    OBVIOUS
  <2>1. k + 1 \in 1..n /\ k + 1 - 1 = k /\ b[k] \in ReadState /\ fields[k + 1] \in SummaryField
    OBVIOUS
  <2>2. b[k + 1] = Header!ReadField(v, odd, room, b[k], fields[k + 1])
    BY <1>7, <2>1
  <2> QED
    BY <2>1, <2>2, FieldIsRead
<1> HIDE DEF P
<1>10. P = Nat
  BY <1>8, <1>9, NaturalsByInduction DEF P
<1> QED
  BY <1>6, <1>7, <1>10 DEF P, Passed

LEMMA SummaryIsRead ==
  ASSUME NEW v, NEW odd, Saying(odd), NEW room \in Nat
  PROVE  \E a : /\ Header!ReadSummary(v, odd, room) = a[Len(Header!Layout(v))]
                /\ Passed(v, odd, room, Header!Layout(v), Len(Header!Layout(v)), a)
<1> DEFINE fields == Header!Layout(v)
           n == Len(fields)
<1>1. n \in Nat /\ fields \in [1..n -> SummaryField]
  <2>1. fields \in Seq(SummaryField)
    BY LayoutIsGood
  <2> QED
    BY <2>1
<1>2. Header!ReadSummary(v, odd, room) = (CHOOSE b : Reads(v, odd, room, fields, n, b))[n]
  BY Zenon DEF Header!ReadSummary, Reads, Start
<1> HIDE DEF fields, n
<1>3. PICK a : a = (CHOOSE b : Reads(v, odd, room, fields, n, b)) /\ Passed(v, odd, room, fields, n, a)
  BY <1>1, FieldsAreRead
<1> QED
  BY <1>2, <1>3 DEF fields, n

\* A reader that has come through has refused nothing.
LEMMA NothingRefused ==
  ASSUME NEW v, NEW odd, Saying(odd), NEW room \in Nat, NEW n \in Nat, NEW fields \in [1..n -> SummaryField],
         NEW a, Passed(v, odd, room, fields, n, a), a[n].ok
  PROVE  /\ \A k \in 0..n : a[k].ok
         /\ \A k \in 1..n : ~Header!Refused(v, odd, fields[k])
         /\ a[n].at <= room
<1>1. \A k \in 1..n : /\ a[k].ok => a[k - 1].ok /\ ~Header!Refused(v, odd, fields[k]) /\ a[k].at <= room
  <2> SUFFICES ASSUME NEW k \in 1..n PROVE a[k].ok => a[k - 1].ok /\ ~Header!Refused(v, odd, fields[k]) /\ a[k].at <= room
    OBVIOUS
  <2>1. a[k - 1] \in ReadState /\ fields[k] \in SummaryField /\ a[k] = Header!ReadField(v, odd, room, a[k - 1], fields[k])
    BY DEF Passed
  <2> QED
    BY <2>1, FieldIsRead
<1> DEFINE P == {j \in Nat : j <= n => a[n - j].ok}
<1>2. 0 \in P
  OBVIOUS
<1>3. ASSUME NEW j \in P PROVE j + 1 \in P
  <2> SUFFICES ASSUME j + 1 <= n PROVE a[n - (j + 1)].ok
    OBVIOUS
  <2>1. n - j \in 1..n /\ (n - j) - 1 = n - (j + 1) /\ a[n - j].ok
    OBVIOUS
  <2> QED
    BY <1>1, <2>1
<1> HIDE DEF P
<1>4. P = Nat
  BY <1>2, <1>3, NaturalsByInduction DEF P
<1>5. \A k \in 0..n : a[k].ok
  <2> SUFFICES ASSUME NEW k \in 0..n PROVE a[k].ok
    OBVIOUS
  <2>1. n - k \in P /\ n - k <= n /\ n - (n - k) = k
    BY <1>4
  <2> QED
    BY <2>1 DEF P
<1>6. a[n].at <= room
  <2>1. CASE n = 0
    BY <2>1 DEF Passed, Start
  <2>2. CASE n # 0
    BY <1>1, <2>2
  <2> QED
    BY <2>1, <2>2
<1> QED
  BY <1>1, <1>5, <1>6

LEMMA AcceptedRefusesNothing ==
  ASSUME NEW v, NEW odd, Saying(odd), NEW room \in Nat, Header!ReadSummary(v, odd, room).ok
  PROVE  /\ \A f \in Header!Range(Header!Layout(v)) : f \in SummaryField /\ ~Header!Refused(v, odd, f)
         /\ \A f : Among(f, Header!Layout(v)) => f \in Header!Range(Header!Layout(v))
<1> DEFINE fields == Header!Layout(v)
           n == Len(fields)
<1>1. n \in Nat /\ fields \in [1..n -> SummaryField] /\ DOMAIN fields = 1..n
  <2>1. fields \in Seq(SummaryField)
    BY LayoutIsGood
  <2> QED
    BY <2>1
<1>2. PICK a : Header!ReadSummary(v, odd, room) = a[n] /\ Passed(v, odd, room, fields, n, a)
  BY SummaryIsRead
<1>3. Header!Range(fields) = {fields[k] : k \in DOMAIN fields}
  BY DEF Header!Range
<1> HIDE DEF fields, n
<1>4. \A k \in 1..n : ~Header!Refused(v, odd, fields[k])
  BY <1>1, <1>2, NothingRefused DEF fields, n
<1>5. \A k \in 1..n : fields[k] \in SummaryField
  BY <1>1
<1>6. \A f \in Header!Range(fields) : f \in SummaryField /\ ~Header!Refused(v, odd, f)
  BY <1>1, <1>3, <1>4, <1>5
<1>7. \A f : Among(f, fields) => f \in Header!Range(fields)
  BY <1>3 DEF Among
<1> QED
  BY <1>6, <1>7 DEF fields

LEMMA TableFields ==
  ASSUME NEW v, NEW odd, Saying(odd), NEW room \in Nat, Header!ReadSummary(v, odd, room).ok
  PROVE  /\ \A n \in TableOffsets : Header!Field(v, odd, n) \in 0..FileSize
         /\ \A n \in TableCounts : Header!Field(v, odd, n) \in 0..MaxCount
         /\ \A n \in LaxOffsets : Header!Field(v, odd, n) \in Int /\ Header!Field(v, odd, n) <= FileSize
<1>1. \A f \in Header!Range(Header!Layout(v)) : f \in SummaryField /\ ~Header!Refused(v, odd, f)
  BY AcceptedRefusesNothing
<1>2. ASSUME NEW n, ~Header!Has(v, n) PROVE Header!Field(v, odd, n) = 0
  BY <1>2 DEF Header!Field
<1>3. ASSUME NEW n, Header!Has(v, n)
      PROVE  \E f \in SummaryField : /\ f.name = n /\ ~Header!Refused(v, odd, f)
                                     /\ Header!Field(v, odd, n) = Header!Says(odd, f.name) /\ Header!Says(odd, f.name) \in Int
  <2>1. PICK f \in Header!Range(Header!Layout(v)) : f.name = n
    BY <1>3 DEF Header!Has
  <2>2. Header!Field(v, odd, n) = Header!Says(odd, f.name)
    BY <1>3, <2>1 DEF Header!Field
  <2> QED
    BY <1>1, <2>1, <2>2, SaysNumbers
<1>4. ASSUME NEW n \in TableOffsets PROVE Header!Field(v, odd, n) \in 0..FileSize
  <2>1. CASE Header!Has(v, n)
    <3>1. PICK f \in SummaryField : /\ f.name = n /\ ~Header!Refused(v, odd, f)
                                    /\ Header!Field(v, odd, n) = Header!Says(odd, f.name) /\ Header!Says(odd, f.name) \in Int
      BY <1>3, <2>1
    <3>2. f.kind = "offset"
      BY <3>1 DEF SummaryField
    <3> QED
      BY <3>1, <3>2 DEF Header!Refused
  <2>2. CASE ~Header!Has(v, n)
    BY <1>2, <2>2, HeaderAssumption
  <2> QED
    BY <2>1, <2>2
<1>5. ASSUME NEW n \in TableCounts PROVE Header!Field(v, odd, n) \in 0..MaxCount
  <2>1. CASE Header!Has(v, n)
    <3>1. PICK f \in SummaryField : /\ f.name = n /\ ~Header!Refused(v, odd, f)
                                    /\ Header!Field(v, odd, n) = Header!Says(odd, f.name) /\ Header!Says(odd, f.name) \in Int
      BY <1>3, <2>1
    <3>2. f.kind = "limited"
      BY <3>1 DEF SummaryField
    <3>3. ~(Header!Says(odd, f.name) < 0) /\ ~(Header!Says(odd, f.name) > MaxCount)
      BY <3>1, <3>2 DEF Header!Refused
    <3> QED
      BY <3>1, <3>3, HeaderAssumption
  <2>2. CASE ~Header!Has(v, n)
    BY <1>2, <2>2, HeaderAssumption
  <2> QED
    BY <2>1, <2>2
<1>6. ASSUME NEW n \in LaxOffsets PROVE Header!Field(v, odd, n) \in Int /\ Header!Field(v, odd, n) <= FileSize
  <2>1. CASE Header!Has(v, n)
    <3>1. PICK f \in SummaryField : /\ f.name = n /\ ~Header!Refused(v, odd, f)
                                    /\ Header!Field(v, odd, n) = Header!Says(odd, f.name) /\ Header!Says(odd, f.name) \in Int
      BY <1>3, <2>1
    <3>2. f.kind = "lax"
      BY <3>1 DEF SummaryField
    <3>3. ~(Header!Says(odd, f.name) > FileSize)
      BY <3>1, <3>2 DEF Header!Refused
    <3> QED
      BY <3>1, <3>3, HeaderAssumption
  <2>2. CASE ~Header!Has(v, n)
    BY <1>2, <2>2, HeaderAssumption
  <2> QED
    BY <2>1, <2>2
<1> QED
  BY <1>4, <1>5, <1>6

LEMMA ObjectsAreFew ==
  ASSUME NEW v, NEW odd, Saying(odd), NEW room \in Nat, Header!ReadSummary(v, odd, room).ok
  PROVE  /\ Header!Field(v, odd, "ExportCount") + Header!Field(v, odd, "ImportCount") <= MaxTotal
         /\ v.legacy \in Header!SupportedLegacy
<1> DEFINE legacy == [name |-> "LegacyFileVersion", kind |-> "legacy", per |-> 0]
<1>1. /\ legacy \in Header!Range(Header!Layout(v))
      /\ Header!Limited("ExportCount", 0) \in Header!Range(Header!Layout(v))
      /\ Header!Limited("ImportCount", 0) \in Header!Range(Header!Layout(v))
  BY LayoutIsGood, AcceptedRefusesNothing
<1>2. ~Header!Refused(v, odd, legacy) /\ ~Header!Refused(v, odd, Header!Limited("ImportCount", 0))
  BY <1>1, AcceptedRefusesNothing
<1>3. v.legacy \in Header!SupportedLegacy
  BY <1>2 DEF Header!Refused
<1>4. Header!Has(v, "ExportCount") /\ Header!Has(v, "ImportCount")
  <2>1. Header!Limited("ExportCount", 0).name = "ExportCount" /\ Header!Limited("ImportCount", 0).name = "ImportCount"
    BY DEF Header!Limited
  <2> QED
    BY <1>1, <2>1 DEF Header!Has
<1>5. ~(Header!Says(odd, "ImportCount") + Header!Says(odd, "ExportCount") > MaxTotal)
  BY <1>2 DEF Header!Refused, Header!Limited
<1>6. Header!Says(odd, "ImportCount") \in Int /\ Header!Says(odd, "ExportCount") \in Int
  BY SaysNumbers
<1>7. /\ Header!Field(v, odd, "ExportCount") = Header!Says(odd, "ExportCount")
      /\ Header!Field(v, odd, "ImportCount") = Header!Says(odd, "ImportCount")
  BY <1>4 DEF Header!Field
<1> HIDE DEF legacy
<1> QED
  BY <1>3, <1>5, <1>6, <1>7, HeaderAssumption

\* The tables of an accepted summary.
LEMMA SummaryIsGuarded ==
  ASSUME NEW v, NEW odd, Saying(odd), NEW room \in Nat
  PROVE  Header!SummaryGuards(v, odd, room)
<1> SUFFICES ASSUME Header!ReadSummary(v, odd, room).ok
             PROVE  LET tables == Header!Sought(v, odd) IN
                      /\ \A t \in tables : t.at \in 0..FileSize \/ t.name \in {"depends", "softPackageRefs"}
                      /\ \A t \in tables : t.name \in {"names", "imports", "exports"} => t.count \in 0..MaxCount
                      /\ Header!Field(v, odd, "ExportCount") + Header!Field(v, odd, "ImportCount") <= MaxTotal
                      /\ Header!NamesRefused(v, odd) \/ \A t \in tables : t.name = "names" => t.at > 0 /\ t.count > 0
                      /\ Header!PayloadToc(odd) \in 0..(10 * FileSize)
                      /\ v.legacy \in Header!SupportedLegacy
  BY DEF Header!SummaryGuards
<1> DEFINE Table(n, count, offset) == [name |-> n, count |-> Header!Field(v, odd, count), at |-> Header!Field(v, odd, offset)]
           Guarded(t) == IF t.count > 0 /\ t.at > 0 THEN {t} ELSE {}
           names == Table("names", "NameCount", "NameOffset")
           imports == Table("imports", "ImportCount", "ImportOffset")
           exports == Table("exports", "ExportCount", "ExportOffset")
           depends == Table("depends", "ExportCount", "DependsOffset")
           refs == Table("softPackageRefs", "SoftPackageReferencesCount", "SoftPackageReferencesOffset")
           paths == Table("softPaths", "SoftObjectPathsCount", "SoftObjectPathsOffset")
           preload == Table("preload", "PreloadDependencyCount", "PreloadDependencyOffset")
           tables == {names, imports, exports} \cup Guarded(depends) \cup Guarded(refs) \cup Guarded(paths) \cup Guarded(preload)
<1>1. Header!Sought(v, odd) = tables
  BY DEF Header!Sought
<1>2. /\ \A n \in TableOffsets : Header!Field(v, odd, n) \in 0..FileSize
      /\ \A n \in TableCounts : Header!Field(v, odd, n) \in 0..MaxCount
      /\ \A n \in LaxOffsets : Header!Field(v, odd, n) \in Int /\ Header!Field(v, odd, n) <= FileSize
  BY TableFields
<1>3. /\ names.name = "names" /\ imports.name = "imports" /\ exports.name = "exports" /\ depends.name = "depends"
      /\ refs.name = "softPackageRefs" /\ paths.name = "softPaths" /\ preload.name = "preload"
  OBVIOUS
<1>4. /\ names.at \in 0..FileSize /\ imports.at \in 0..FileSize /\ exports.at \in 0..FileSize
      /\ names.count \in 0..MaxCount /\ imports.count \in 0..MaxCount /\ exports.count \in 0..MaxCount
  BY <1>2 DEF TableOffsets, TableCounts
<1>5. /\ paths.at > 0 => paths.at \in 0..FileSize
      /\ preload.at > 0 => preload.at \in 0..FileSize
  BY <1>2, HeaderAssumption DEF LaxOffsets
<1>6. names.count = Header!Field(v, odd, "NameCount") /\ names.at = Header!Field(v, odd, "NameOffset")
  OBVIOUS
<1> HIDE DEF names, imports, exports, depends, refs, paths, preload
<1>7. \A t \in tables : \/ t \in {names, imports, exports, depends, refs}
                        \/ t = paths /\ paths.at > 0
                        \/ t = preload /\ preload.at > 0
  OBVIOUS
<1> HIDE DEF tables
<1>8. \A t \in tables : t.at \in 0..FileSize \/ t.name \in {"depends", "softPackageRefs"}
  BY <1>3, <1>4, <1>5, <1>7
<1>9. \A t \in tables : t.name \in {"names", "imports", "exports"} => t.count \in 0..MaxCount
  BY <1>3, <1>4, <1>7
<1>10. Header!NamesRefused(v, odd) \/ \A t \in tables : t.name = "names" => t.at > 0 /\ t.count > 0
  <2> SUFFICES ASSUME ~Header!NamesRefused(v, odd), NEW t \in tables, t.name = "names"
               PROVE  t.at > 0 /\ t.count > 0
    OBVIOUS
  <2>1. t = names
    BY <1>3, <1>7
  <2>2. ~(names.count <= 0) /\ ~(names.at <= 0)
    BY <1>6 DEF Header!NamesRefused
  <2> QED
    BY <1>4, <2>1, <2>2, HeaderAssumption
<1>11. Header!PayloadToc(odd) \in 0..(10 * FileSize)
  <2> DEFINE x == Header!Says(odd, "PayloadTocOffset")
  <2>1. x \in Int /\ Header!PayloadToc(odd) = IF x < 0 \/ x > 10 * FileSize THEN 0 ELSE x
    BY SaysNumbers DEF Header!PayloadToc
  <2> HIDE DEF x
  <2> QED
    BY <2>1, HeaderAssumption
<1> QED
  BY <1>1, <1>8, <1>9, <1>10, <1>11, ObjectsAreFew

\* The summary of a file that is one field longer.
LEMMA SummaryIsItsPrefix ==
  ASSUME NEW v, NEW odd, Saying(odd), NEW room \in Nat
  PROVE  Header!SummaryIsPrefix(v, odd, room)
<1> DEFINE fields == Header!Layout(v)
           n == Len(fields)
<1>1. n \in Nat /\ fields \in [1..n -> SummaryField]
  <2>1. fields \in Seq(SummaryField)
    BY LayoutIsGood
  <2> QED
    BY <2>1
<1>2. room + 1 \in Nat
  OBVIOUS
<1>3. PICK a : Header!ReadSummary(v, odd, room) = a[n] /\ Passed(v, odd, room, fields, n, a)
  BY SummaryIsRead
<1>4. PICK b : Header!ReadSummary(v, odd, room + 1) = b[n] /\ Passed(v, odd, room + 1, fields, n, b)
  BY <1>2, SummaryIsRead
<1> HIDE DEF fields, n
<1> DEFINE Near(k) == /\ a[k].at <= room
                      /\ a[k].ok => b[k] = a[k]
                      /\ ~a[k].ok /\ b[k].ok => b[k].at = room + 1
           P == {k \in Nat : k <= n => Near(k)}
<1>5. 0 \in P
  BY <1>3, <1>4 DEF Passed, Start
<1>6. ASSUME NEW k \in P PROVE k + 1 \in P
  <2> SUFFICES ASSUME k + 1 <= n PROVE Near(k + 1)
    OBVIOUS
  <2> DEFINE f == fields[k + 1]
  <2>1. k + 1 \in 1..n /\ k \in 0..n /\ (k + 1) - 1 = k /\ Near(k)
    BY <1>1
  <2>2. f \in SummaryField /\ a[k] \in ReadState /\ b[k] \in ReadState /\ a[k + 1] \in ReadState /\ b[k + 1] \in ReadState
    BY <1>1, <1>3, <1>4, <2>1 DEF Passed
  <2>3. a[k + 1] = Header!ReadField(v, odd, room, a[k], f) /\ b[k + 1] = Header!ReadField(v, odd, room + 1, b[k], f)
    BY <1>3, <1>4, <2>1 DEF Passed
  <2> HIDE DEF f
  <2>4. a[k].at \in Nat /\ a[k].ok \in BOOLEAN /\ b[k].at \in Nat /\ b[k].ok \in BOOLEAN
    BY <2>2 DEF ReadState
  <2>5. CASE Header!Refused(v, odd, f)
    <3>1. a[k + 1] = [a[k] EXCEPT !.ok = FALSE] /\ b[k + 1] = [b[k] EXCEPT !.ok = FALSE]
      BY <2>3, <2>5 DEF Header!ReadField
    <3>2. ~a[k + 1].ok /\ ~b[k + 1].ok /\ a[k + 1].at = a[k].at
      BY <2>2, <3>1 DEF ReadState
    <3> QED
      BY <2>1, <3>2
  <2>6. CASE ~Header!Refused(v, odd, f)
    <3> DEFINE w == Header!Width(odd, f)
    <3>1. w \in Nat \ {0}
      BY <2>2, <2>6, WidthIsPositive
    <3>2. /\ a[k + 1] = IF ~a[k].ok \/ a[k].at + w > room THEN [a[k] EXCEPT !.ok = FALSE] ELSE [a[k] EXCEPT !.at = @ + w]
          /\ b[k + 1] = IF ~b[k].ok \/ b[k].at + w > room + 1 THEN [b[k] EXCEPT !.ok = FALSE] ELSE [b[k] EXCEPT !.at = @ + w]
      BY <2>3, <2>6 DEF Header!ReadField
    <3> HIDE DEF w
    <3>3. CASE ~a[k].ok
      <4>1. ~a[k + 1].ok /\ a[k + 1].at = a[k].at
        BY <2>2, <3>2, <3>3 DEF ReadState
      <4>2. ~b[k + 1].ok
        <5>1. CASE b[k].ok
          <6>1. b[k].at + w > room + 1
            BY <2>1, <3>1, <3>3, <5>1
          <6> QED
            BY <2>2, <3>2, <6>1 DEF ReadState
        <5>2. CASE ~b[k].ok
          BY <2>2, <3>2, <5>2 DEF ReadState
        <5> QED
          BY <5>1, <5>2
      <4> QED
        BY <2>1, <4>1, <4>2
    <3>4. CASE a[k].ok /\ a[k].at + w > room
      <4>1. ~a[k + 1].ok /\ a[k + 1].at = a[k].at
        BY <2>2, <3>2, <3>4 DEF ReadState
      <4>2. b[k + 1].ok => b[k + 1].at = b[k].at + w /\ b[k].at + w <= room + 1
        BY <2>2, <2>4, <3>1, <3>2 DEF ReadState
      <4>3. b[k] = a[k]
        BY <2>1, <3>4
      <4> QED
        BY <2>1, <2>4, <3>1, <3>4, <4>1, <4>2, <4>3
    <3>5. CASE a[k].ok /\ ~(a[k].at + w > room)
      <4>1. b[k] = a[k]
        BY <2>1, <3>5
      <4>2. a[k + 1] = [a[k] EXCEPT !.at = @ + w]
        BY <3>2, <3>5
      <4>3. b[k + 1] = [a[k] EXCEPT !.at = @ + w]
        BY <2>4, <3>1, <3>2, <3>5, <4>1
      <4>4. a[k + 1].at = a[k].at + w /\ a[k + 1].ok
        BY <2>2, <3>5, <4>2 DEF ReadState
      <4> QED
        BY <2>4, <3>1, <3>5, <4>2, <4>3, <4>4
    <3> QED
      BY <3>3, <3>4, <3>5
  <2> QED
    BY <2>5, <2>6
<1> HIDE DEF P
<1>7. P = Nat
  BY <1>5, <1>6, NaturalsByInduction DEF P
<1>8. Near(n)
  BY <1>1, <1>7 DEF P
<1> QED
  BY <1>3, <1>4, <1>8 DEF Header!SummaryIsPrefix

-----------------------------------------------------------------------------
(* The map of dependencies.                                                 *)

\* The lengths of the first lists added up, as the recursive function; l is one
\* that grows as they do.
Lengths(map, n, read) == read = [k \in 0..n |-> IF k = 0 THEN 0 ELSE read[k - 1] + Len(map[k])]

LEMMA LengthsAddUp ==
  ASSUME NEW map, NEW n \in Nat, NEW l \in [0..n -> Int], l[0] = 0,
         \A k \in 1..n : l[k] = l[k - 1] + Len(map[k])
  PROVE  (CHOOSE read : Lengths(map, n, read))[n] = l[n]
<1>1. Lengths(map, n, l)
  <2>1. ASSUME NEW k \in 0..n PROVE l[k] = IF k = 0 THEN 0 ELSE l[k - 1] + Len(map[k])
    OBVIOUS
  <2> QED
    BY <2>1 DEF Lengths
<1>2. PICK r : r = (CHOOSE read : Lengths(map, n, read)) /\ Lengths(map, n, r)
  BY <1>1
<1> DEFINE P == {k \in Nat : k <= n => r[k] = l[k]}
<1>3. \A k \in 0..n : r[k] = IF k = 0 THEN 0 ELSE r[k - 1] + Len(map[k])
  BY <1>2 DEF Lengths
<1>4. 0 \in P
  BY <1>3
<1>5. ASSUME NEW k \in P PROVE k + 1 \in P
  <2> SUFFICES ASSUME k + 1 <= n PROVE r[k + 1] = l[k + 1]
    OBVIOUS
  <2>1. k \in Nat /\ k + 1 \in 1..n /\ k + 1 \in 0..n /\ k + 1 # 0 /\ (k + 1) - 1 = k /\ r[k] = l[k]
    OBVIOUS
  <2> HIDE DEF P
  <2>2. r[k + 1] = r[k] + Len(map[k + 1]) /\ l[k + 1] = l[k] + Len(map[k + 1])
    BY <1>3, <2>1
  <2> QED
    BY <2>1, <2>2
<1> HIDE DEF P
<1>6. P = Nat
  BY <1>4, <1>5, NaturalsByInduction DEF P
<1>7. n \in P /\ n <= n
  BY <1>6
<1> QED
  BY <1>2, <1>7 DEF P

\* Where the reader of the map is, and what it has.
MapRead == [at : Nat \ {0}, ok : BOOLEAN, map : Seq(Seq(Int))]
NoneRead == [at |-> 1, ok |-> TRUE, map |-> <<>>]

LEMMA EntryIsInside ==
  ASSUME NEW words \in Seq(Int), NEW limit \in Nat, NEW r \in MapRead
  PROVE  LET next == Header!ReadDepends(words, limit, r)
         IN /\ next \in MapRead
            /\ next.ok => /\ r.ok /\ next.at <= Len(words) + 1
                          /\ \E e \in Seq(Int) : next.map = Append(r.map, e) /\ next.at = r.at + 1 + Len(e)
<1> DEFINE deps == Header!DependsOf(words, r.at, limit)
           next == Header!ReadDepends(words, limit, r)
           e == SubSeq(words, r.at + 1, r.at + deps)
<1>1. deps \in Nat
  BY DEF Header!DependsOf
<1>2. r.at \in Nat \ {0} /\ r.ok \in BOOLEAN /\ r.map \in Seq(Seq(Int)) /\ Len(words) \in Nat
  BY DEF MapRead
<1>3. next = IF ~r.ok \/ r.at > Len(words) \/ r.at + deps > Len(words) THEN [r EXCEPT !.ok = FALSE]
             ELSE [at |-> r.at + 1 + deps, ok |-> TRUE, map |-> Append(r.map, e)]
  BY DEF Header!ReadDepends
<1> HIDE DEF next, deps
<1> DEFINE Good == /\ next \in MapRead
                   /\ next.ok => /\ r.ok /\ next.at <= Len(words) + 1
                                 /\ \E f \in Seq(Int) : next.map = Append(r.map, f) /\ next.at = r.at + 1 + Len(f)
<1>4. CASE ~r.ok \/ r.at > Len(words) \/ r.at + deps > Len(words)
  <2>1. next = [r EXCEPT !.ok = FALSE]
    BY <1>3, <1>4
  <2>2. next \in MapRead /\ ~next.ok
    BY <1>2, <2>1 DEF MapRead
  <2> HIDE DEF e
  <2>3. Good
    BY <2>2
  <2> QED
    BY <2>3 DEF next
<1>5. CASE ~(~r.ok \/ r.at > Len(words) \/ r.at + deps > Len(words))
  <2>1. e \in Seq(Int) /\ Len(e) = deps
    <3> DEFINE low == r.at + 1
               high == r.at + deps
    <3>1. low \in Int /\ high \in Int /\ 1 <= low /\ high <= Len(words) /\ high - low + 1 = deps
      BY <1>1, <1>2, <1>5
    <3>2. (low <= high \/ deps = 0) /\ (deps = 0 => ~(low <= high))
      BY <1>1, <1>2
    <3>3. \A k \in low..high : words[k] \in Int
      BY <1>2, <3>1, SMTT(30)
    <3> HIDE DEF low, high
    <3> QED
      BY <1>1, <3>1, <3>2, <3>3, SubSeqProperties, SMTT(30) DEF low, high
  <2> HIDE DEF e
  <2>2. next = [at |-> r.at + 1 + deps, ok |-> TRUE, map |-> Append(r.map, e)]
    BY <1>3, <1>5
  <2>3. Append(r.map, e) \in Seq(Seq(Int))
    BY <1>2, <2>1
  <2>4. next \in MapRead /\ r.ok /\ next.at <= Len(words) + 1 /\ next.map = Append(r.map, e) /\ next.at = r.at + 1 + Len(e)
    BY <1>1, <1>2, <1>5, <2>1, <2>2, <2>3 DEF MapRead
  <2>5. Good
    BY <2>1, <2>4
  <2> QED
    BY <2>5 DEF next
<1> QED
  BY <1>4, <1>5

\* What the reader has after each entry.
Mapped(words, n, limit, a) ==
  a = [k \in 0..n |-> IF k = 0 THEN NoneRead ELSE Header!ReadDepends(words, limit, a[k - 1])]
HasMapped(words, n, limit, a) ==
  /\ a[0] = NoneRead /\ \A k \in 1..n : a[k] = Header!ReadDepends(words, limit, a[k - 1])
  /\ \A k \in 0..n : a[k] \in MapRead

LEMMA MapIsRead ==
  ASSUME NEW words \in Seq(Int), NEW n \in Nat, NEW limit \in Nat
  PROVE  \E a : Header!DependsMap(words, n, limit) = a[n] /\ HasMapped(words, n, limit, a)
<1> DEFINE h == [x \in (1..n) \X MapRead |-> Header!ReadDepends(words, limit, x[2])]
<1>1. h \in [(1..n) \X MapRead -> MapRead]
  <2>1. ASSUME NEW x \in (1..n) \X MapRead PROVE Header!ReadDepends(words, limit, x[2]) \in MapRead
    <3>1. x[2] \in MapRead
      OBVIOUS
    <3> QED
      BY <3>1, EntryIsInside
  <2> QED
    BY <2>1
<1>2. \A k \in 1..n : \A r \in MapRead : h[<<k, r>>] = Header!ReadDepends(words, limit, r)
  OBVIOUS
<1> HIDE DEF h
<1>3. NoneRead \in MapRead
  BY DEF NoneRead, MapRead
<1>4. PICK a \in [0..n -> MapRead] : a[0] = NoneRead /\ \A k \in 1..n : a[k] = h[<<k, a[k - 1]>>]
  <2>1. HasRecursion(MapRead, NoneRead, n, h)
    BY <1>1, <1>3, RecursiveFunction
  <2> QED
    BY <2>1 DEF HasRecursion
<1>5. Mapped(words, n, limit, a)
  <2>1. ASSUME NEW k \in 0..n PROVE a[k] = IF k = 0 THEN NoneRead ELSE Header!ReadDepends(words, limit, a[k - 1])
    <3>1. CASE k # 0
      <4>1. k \in 1..n /\ a[k - 1] \in MapRead
        BY <3>1
      <4> QED
        BY <1>2, <1>4, <3>1, <4>1
    <3> QED
      BY <1>4, <3>1
  <2> QED
    BY <2>1 DEF Mapped
<1>6. PICK b : b = (CHOOSE u : Mapped(words, n, limit, u)) /\ Mapped(words, n, limit, b)
  BY <1>5
<1>7. b[0] = NoneRead /\ \A k \in 1..n : b[k] = Header!ReadDepends(words, limit, b[k - 1])
  <2>1. 0 \in 0..n /\ \A k \in 1..n : k \in 0..n /\ k # 0
    OBVIOUS
  <2>2. \A k \in 0..n : b[k] = IF k = 0 THEN NoneRead ELSE Header!ReadDepends(words, limit, b[k - 1])
    BY <1>6 DEF Mapped
  <2> QED
    BY <2>1, <2>2
<1> DEFINE P == {k \in Nat : k <= n => b[k] \in MapRead}
<1>8. 0 \in P
  BY <1>3, <1>7
<1>9. ASSUME NEW k \in P PROVE k + 1 \in P
  <2> SUFFICES ASSUME k + 1 <= n PROVE b[k + 1] \in MapRead
    OBVIOUS
  <2>1. k + 1 \in 1..n /\ k + 1 - 1 = k /\ b[k] \in MapRead
    OBVIOUS
  <2>2. b[k + 1] = Header!ReadDepends(words, limit, b[k])
    BY <1>7, <2>1
  <2> QED
    BY <2>1, <2>2, EntryIsInside
<1> HIDE DEF P
<1>10. P = Nat
  BY <1>8, <1>9, NaturalsByInduction DEF P
<1>11. Header!DependsMap(words, n, limit) = b[n]
  <2>1. Header!DependsMap(words, n, limit) = (CHOOSE u : Mapped(words, n, limit, u))[n]
    BY Zenon DEF Header!DependsMap, Mapped, NoneRead
  <2> QED
    BY <1>6, <2>1
<1>12. \A k \in 0..n : b[k] \in MapRead
  BY <1>10 DEF P
<1>13. HasMapped(words, n, limit, b)
  BY <1>7, <1>12 DEF HasMapped
<1> QED
  BY <1>11, <1>13

\* One entry for each export, and no word twice.
LEMMA MapIsPerExport ==
  ASSUME NEW words \in Seq(Int), NEW n \in Nat, NEW limit \in Nat
  PROVE  Header!DependsIsPerExport(words, n, limit)
<1>0. PICK a : Header!DependsMap(words, n, limit) = a[n] /\ HasMapped(words, n, limit, a)
  BY MapIsRead
<1>1. /\ Header!DependsMap(words, n, limit) = a[n]
      /\ a[0] = NoneRead /\ \A k \in 1..n : a[k] = Header!ReadDepends(words, limit, a[k - 1])
      /\ \A k \in 0..n : a[k] \in MapRead
  BY <1>0 DEF HasMapped
<1>2. Len(words) \in Nat
  OBVIOUS
<1> DEFINE Holds(k) == /\ Len(a[k].map) = k /\ a[k].at <= Len(words) + 1
                       /\ \A j \in 1..k : Len(a[k].map[j]) = a[j].at - a[j - 1].at - 1
           P == {k \in Nat : k <= n /\ a[k].ok => Holds(k)}
<1>3. 0 \in P
  BY <1>1, <1>2 DEF NoneRead
<1>4. ASSUME NEW k \in P PROVE k + 1 \in P
  <2> SUFFICES ASSUME k + 1 <= n, a[k + 1].ok PROVE Holds(k + 1)
    OBVIOUS
  <2>1. k + 1 \in 1..n /\ k \in 0..n /\ (k + 1) - 1 = k /\ k \in Nat
    OBVIOUS
  <2>2. a[k + 1] = Header!ReadDepends(words, limit, a[k]) /\ a[k] \in MapRead
    BY <1>1, <2>1
  <2>3. /\ a[k].ok /\ a[k + 1].at <= Len(words) + 1
        /\ \E e \in Seq(Int) : a[k + 1].map = Append(a[k].map, e) /\ a[k + 1].at = a[k].at + 1 + Len(e)
    <3> DEFINE next == Header!ReadDepends(words, limit, a[k])
    <3>1. next.ok => /\ a[k].ok /\ next.at <= Len(words) + 1
                     /\ \E e \in Seq(Int) : next.map = Append(a[k].map, e) /\ next.at = a[k].at + 1 + Len(e)
      BY <2>2, EntryIsInside
    <3>2. a[k + 1] = next
      BY <2>2
    <3> HIDE DEF next
    <3> QED
      BY ONLY <3>1, <3>2, a[k + 1].ok
  <2>4. PICK e \in Seq(Int) : a[k + 1].map = Append(a[k].map, e) /\ a[k + 1].at = a[k].at + 1 + Len(e)
    BY <2>3
  <2>5. Holds(k)
    BY <2>1, <2>3
  <2> HIDE DEF P
  <2>6. a[k].map \in Seq(Seq(Int)) /\ Len(a[k].map) = k /\ a[k].at \in Nat /\ Len(e) \in Nat
    BY <2>2, <2>5 DEF MapRead
  <2>7. /\ Len(a[k + 1].map) = k + 1 /\ a[k + 1].map[k + 1] = e
        /\ \A j \in 1..k : a[k + 1].map[j] = a[k].map[j]
    BY <2>4, <2>6, AppendProperties, SMTT(30)
  <2>8. ASSUME NEW j \in 1..(k + 1) PROVE Len(a[k + 1].map[j]) = a[j].at - a[j - 1].at - 1
    <3>1. CASE j \in 1..k
      BY <2>5, <2>7, <3>1
    <3>2. CASE j = k + 1
      BY <2>1, <2>4, <2>6, <2>7, <3>2
    <3> QED
      BY <2>1, <3>1, <3>2
  <2> QED
    BY <2>3, <2>7, <2>8
<1> HIDE DEF P
<1>5. P = Nat
  BY <1>3, <1>4, NaturalsByInduction DEF P
<1> DEFINE total == CHOOSE read : Lengths(a[n].map, n, read)
<1> SUFFICES ASSUME a[n].ok PROVE Len(a[n].map) = n /\ total[n] + n <= Len(words)
  <2>1. Header!DependsIsPerExport(words, n, limit) = (a[n].ok => Len(a[n].map) = n /\ total[n] + n <= Len(words))
    BY Zenon, <1>1 DEF Header!DependsIsPerExport, Lengths
  <2> QED
    BY <2>1
<1>6. Holds(n)
  <2>1. n \in P
    BY <1>5
  <2> HIDE DEF Holds
  <2> QED
    BY <2>1 DEF P
<1>7. a[n].map \in Seq(Seq(Int)) /\ Len(a[n].map) = n
  BY <1>1, <1>6 DEF MapRead
<1> DEFINE l == [k \in 0..n |-> a[k].at - 1 - k]
<1>8. l \in [0..n -> Int] /\ l[0] = 0 /\ l[n] = a[n].at - 1 - n
  <2>1. \A k \in 0..n : a[k].at \in Nat
    BY <1>1 DEF MapRead
  <2> QED
    BY <1>1, <2>1 DEF NoneRead
<1>9. \A k \in 1..n : l[k] = l[k - 1] + Len(a[n].map[k])
  <2> SUFFICES ASSUME NEW k \in 1..n PROVE l[k] = l[k - 1] + Len(a[n].map[k])
    OBVIOUS
  <2>1. k \in 0..n /\ k - 1 \in 0..n /\ a[k].at \in Nat /\ a[k - 1].at \in Nat
    BY <1>1 DEF MapRead
  <2>2. Len(a[n].map[k]) = a[k].at - a[k - 1].at - 1
    BY <1>6
  <2>3. l[k] = a[k].at - 1 - k /\ l[k - 1] = a[k - 1].at - 1 - (k - 1)
    BY <2>1
  <2> DEFINE x == Len(a[n].map[k])
             y == l[k]
             z == l[k - 1]
             p == a[k].at
             q == a[k - 1].at
  <2>4. k \in Int /\ x = a[k].at - a[k - 1].at - 1 /\ y = a[k].at - 1 - k /\ z = a[k - 1].at - 1 - (k - 1)
    BY <2>2, <2>3
  <2>5. p \in Int /\ q \in Int /\ k \in Int /\ x = p - q - 1 /\ y = p - 1 - k /\ z = q - 1 - (k - 1)
    BY <2>1, <2>4
  <2> HIDE DEF x, y, z, p, q
  <2>6. y = z + x
    BY ONLY <2>5
  <2> QED
    BY <2>6 DEF x, y, z
<1> HIDE DEF l
<1>10. total[n] = l[n]
  <2> DEFINE map == a[n].map
  <2>1. \A k \in 1..n : l[k] = l[k - 1] + Len(map[k])
    BY <1>9
  <2> HIDE DEF map
  <2>2. (CHOOSE read : Lengths(map, n, read))[n] = l[n]
    BY ONLY <1>8, <2>1, n \in Nat, LengthsAddUp
  <2> QED
    BY <2>2 DEF map
<1>11. a[n].at \in Nat /\ a[n].at <= Len(words) + 1
  BY <1>1, <1>6 DEF MapRead
<1> QED
  BY <1>2, <1>7, <1>8, <1>10, <1>11

-----------------------------------------------------------------------------
(* Entries of the export table, indexes, lists and cached versions.         *)

\* An entry of the export table has at least the 72 bytes of the check.
LEMMA EntriesAreWide ==
  ASSUME NEW v, v.ue4 \in Int, v.ue5 \in Int, v.ue4 >= 485, v.ue5 > 0 => v.ue4 >= 511
  PROVE  Header!ExportWidth(v) \in Nat /\ Header!ExportWidth(v) >= 72
<1> DEFINE a == IF v.ue4 >= 508 THEN 4 ELSE 0
           b == IF v.ue4 < 511 THEN 8 ELSE 16
           d == IF v.ue5 < 1005 THEN 16 ELSE 0
           e == IF v.ue5 >= 1006 THEN 4 ELSE 0
           f == IF v.ue4 >= 365 THEN 4 ELSE 0
           g == IF v.ue4 >= 485 THEN 4 ELSE 0
           h == IF v.ue5 >= 1003 THEN 4 ELSE 0
           i == IF v.ue4 >= 507 THEN 20 ELSE 0
           j == IF ~v.unversioned /\ v.ue5 >= 1010 THEN 16 ELSE 0
<1>1. Header!ExportWidth(v) = 12 + a + 8 + 4 + b + 12 + d + e + 4 + f + g + h + i + j
  BY DEF Header!ExportWidth
<1>2. a \in Nat /\ b \in Nat /\ d \in Nat /\ e \in Nat /\ f \in Nat /\ g \in Nat /\ h \in Nat /\ i \in Nat /\ j \in Nat
  OBVIOUS
<1>3. f = 4 /\ g = 4 /\ (v.ue4 >= 511 => a = 4 /\ b = 16 /\ i = 20) /\ b >= 8 /\ (v.ue5 < 1005 => d = 16)
  OBVIOUS
<1> HIDE DEF a, b, d, e, f, g, h, i, j
<1> QED
  BY <1>1, <1>2, <1>3

LEMMA WholeIsNotNoted ==
  ASSUME NEW v, v.ue4 \in Int, v.ue5 \in Int, NEW offset \in Nat, NEW count \in Nat, NEW size \in Int
  PROVE  Header!WholeIsNotTruncated(v, offset, count, size)
<1>1. ASSUME v.ue4 >= 485 /\ (v.ue5 > 0 => v.ue4 >= 511) /\ offset + count * Header!ExportWidth(v) <= size
      PROVE  ~Header!NotedTruncated(offset, count, size)
  <2> DEFINE w == Header!ExportWidth(v)
  <2>1. w \in Nat /\ w >= 72
    BY <1>1, EntriesAreWide
  <2>2. offset + count * w <= size
    BY <1>1
  <2> HIDE DEF w
  <2>3. PICK extra \in Nat : w = 72 + extra
    BY <2>1
  <2>4. count * w = count * 72 + count * extra /\ count * extra \in Nat
    BY ONLY <2>3, count \in Nat
  <2>5. offset + 72 * count <= size
    BY <2>2, <2>4
  <2> QED
    BY <2>5 DEF Header!NotedTruncated
<1>2. ASSUME NEW x \in {-1, 0, offset}, NEW y \in {-1, 0, size}
      PROVE  Header!Placed(x, y)[1] >= 0 /\ Header!Placed(x, y)[2] >= 0
  BY DEF Header!Placed
<1> QED
  BY <1>1, <1>2 DEF Header!WholeIsNotTruncated

\* Every way to resolve an index.
LEMMA ResolversAlwaysAgree ==
  ASSUME NEW i \in Int, NEW imports, NEW exports,
         \A k \in DOMAIN exports : exports[k].class \in Int
  PROVE  Header!ResolversAgree(i, imports, exports)
<1> DEFINE parent == Header!ResolveParentClass(i, imports, exports)
           ref == Header!ToReference(i, imports, exports)
<1>1. parent.error <=> ~Header!ValidIndex(i, imports, exports)
  BY DEF Header!ResolveParentClass, Header!ValidIndex
<1>2. parent.name = Header!Object(i, imports, exports)
  <2>1. i = 0 => Header!Object(i, imports, exports) = ""
    BY DEF Header!Object, Header!IsImport, Header!IsExport
  <2>2. ~Header!ValidIndex(i, imports, exports) => Header!Object(i, imports, exports) = ""
    BY DEF Header!Object, Header!ValidIndex
  <2> QED
    BY <2>1, <2>2 DEF Header!ResolveParentClass
<1>3. ref.object = Header!Object(i, imports, exports)
  BY DEF Header!ToReference, Header!Object, Header!IsImport, Header!IsExport
<1>4. ASSUME NEW k \in DOMAIN exports, Header!DetectGenerated(exports[k], imports)
      PROVE  Header!GetAssetClass(exports[k], imports, exports) = "BlueprintGeneratedClass"
  <2> DEFINE j == exports[k].class
  <2>1. j \in Int /\ j < 0 /\ -j \in DOMAIN imports /\ imports[-j].name = "BlueprintGeneratedClass"
    BY <1>4 DEF Header!DetectGenerated, Header!IsImport
  <2>2. Header!GetAssetClass(exports[k], imports, exports) = Header!Object(j, imports, exports)
    BY DEF Header!GetAssetClass
  <2> HIDE DEF j
  <2>3. Header!Object(j, imports, exports) = imports[-j].name
    BY <2>1 DEF Header!Object, Header!IsImport, Header!IsExport
  <2> QED
    BY <2>1, <2>2, <2>3
<1> QED
  BY <1>1, <1>2, <1>3, <1>4 DEF Header!ResolversAgree

\* The largest of the classes that are generated, and the first of those.
LEMMA MainIsLargest ==
  ASSUME NEW imports, NEW exports, NEW n \in Nat, DOMAIN exports = 1..n, \A k \in 1..n : exports[k].size \in Int, NEW name
  PROVE  LET k == Header!MainGeneratedClass(imports, exports, {name})
             all == {j \in DOMAIN exports : Header!DetectGenerated(exports[j], imports) /\ exports[j].name = name}
         IN IF all = {} THEN k = 0 ELSE k \in all /\ \A j \in all : exports[j].size <= exports[k].size
<1> DEFINE k == Header!MainGeneratedClass(imports, exports, {name})
           all == {j \in DOMAIN exports : Header!DetectGenerated(exports[j], imports) /\ exports[j].name = name}
           best == {j \in all : \A i \in all : exports[i].size <= exports[j].size}
<1>1. k = IF all = {} THEN 0 ELSE Header!Min(best)
  <2>1. all = {j \in DOMAIN exports : Header!DetectGenerated(exports[j], imports) /\ exports[j].name \in {name}}
    OBVIOUS
  <2> HIDE DEF all
  <2> QED
    BY <2>1 DEF Header!MainGeneratedClass
<1>2. all \subseteq 1..n /\ IsFiniteSet(all) /\ all \subseteq Int
  <2>1. all \subseteq 1..n /\ IsFiniteSet(1..n)
    BY FS_Interval
  <2>2. IsFiniteSet(all)
    BY ONLY <2>1, FS_Subset
  <2>3. all \subseteq Int
    BY ONLY <2>1
  <2> QED
    BY <2>1, <2>2, <2>3
<1> HIDE DEF all, k
<1>3. ASSUME all # {} PROVE best # {}
  <2> DEFINE key == [j \in all |-> exports[j].size]
  <2>1. \A j \in all : key[j] \in Int /\ key[j] = exports[j].size
    BY <1>2
  <2> HIDE DEF key
  <2>2. PICK m \in all : \A x \in all : key[x] <= key[m]
    BY <1>2, <1>3, <2>1, HasGreatestKey
  <2> QED
    BY <2>1, <2>2
<1>4. ASSUME all # {} PROVE Header!Min(best) \in best
  <2>1. best \subseteq all
    OBVIOUS
  <2> HIDE DEF best
  <2>2. IsFiniteSet(best) /\ best \subseteq Int /\ best # {}
    BY <1>2, <1>3, <1>4, <2>1, FS_Subset
  <2>3. Min(best) \in best
    BY <2>2, MinIsLeast
  <2>4. Header!Min(best) = Min(best)
    BY DEF Header!Min, Min
  <2> QED
    BY <2>3, <2>4
<1> QED
  BY <1>1, <1>4 DEF all, k

-----------------------------------------------------------------------------
\* One more import, if the list has it not.
Listing(list, x) == IF x \in Header!Range(list) THEN list ELSE Append(list, x)
Listed(imports, n, a) == a = [k \in 0..n |-> IF k = 0 THEN <<>> ELSE Listing(a[k - 1], imports[k])]

\* The list of the first k imports.
IsListOf(list, T, imports, k) ==
  /\ list \in Seq(T) /\ Header!IsInjective(list)
  /\ Header!Range(list) = {imports[i] : i \in 1..k}

LEMMA ListGrows ==
  ASSUME NEW T, NEW imports \in Seq(T), NEW list \in Seq(T), NEW k \in Nat, k + 1 <= Len(imports),
         IsListOf(list, T, imports, k)
  PROVE  IsListOf(Listing(list, imports[k + 1]), T, imports, k + 1)
<1> DEFINE x == imports[k + 1]
<1>1. x \in T /\ {imports[i] : i \in 1..(k + 1)} = {imports[i] : i \in 1..k} \cup {x}
  <2>1. k + 1 \in 1..Len(imports) /\ 1..(k + 1) = 1..k \cup {k + 1}
    OBVIOUS
  <2> QED
    BY <2>1
<1> HIDE DEF x
<1>2. CASE x \in Header!Range(list)
  BY <1>1, <1>2 DEF IsListOf, Listing, x
<1>3. CASE x \notin Header!Range(list)
  <2> DEFINE longer == Append(list, x)
             m == Len(list)
  <2>1. /\ longer \in Seq(T) /\ Len(longer) = m + 1 /\ longer[m + 1] = x /\ m \in Nat
        /\ \A i \in 1..m : longer[i] = list[i]
    BY <1>1, AppendProperties
  <2> HIDE DEF longer
  <2>2. Header!Range(list) = {list[i] : i \in 1..m} /\ Header!Range(longer) = {longer[i] : i \in 1..(m + 1)}
    BY <2>1 DEF Header!Range
  <2>3. \A i, j \in 1..m : list[i] = list[j] => i = j
    BY DEF IsListOf, Header!IsInjective
  <2>4. \A i \in 1..m : list[i] # x
    BY <1>3, <2>2
  <2> HIDE DEF m
  <2>5. 1..(m + 1) = 1..m \cup {m + 1} /\ m + 1 \notin 1..m
    BY <2>1
  <2>6. \A i, j \in 1..(m + 1) : longer[i] = longer[j] => i = j
    BY <2>1, <2>3, <2>4, <2>5
  <2>7. DOMAIN longer = 1..(m + 1)
    BY <2>1
  <2>8. Header!IsInjective(longer)
    BY <2>6, <2>7 DEF Header!IsInjective
  <2>9. Header!Range(longer) = Header!Range(list) \cup {x}
    <3>1. ASSUME NEW y \in Header!Range(longer) PROVE y \in Header!Range(list) \cup {x}
      BY <2>1, <2>2, <2>5, <3>1
    <3>2. ASSUME NEW y \in Header!Range(list) \cup {x} PROVE y \in Header!Range(longer)
      BY <2>1, <2>2, <2>5, <3>2
    <3> QED
      BY <3>1, <3>2
  <2> QED
    BY <1>1, <1>3, <2>1, <2>8, <2>9 DEF IsListOf, Listing, x, longer
<1> QED
  BY <1>2, <1>3

LEMMA ListIsBuilt ==
  ASSUME NEW T, NEW imports \in Seq(T)
  PROVE  IsListOf(Header!ImportsList(imports), T, imports, Len(imports))
<1> DEFINE n == Len(imports)
           h == [x \in (1..n) \X Seq(T) |-> Listing(x[2], imports[x[1]])]
<1>1. n \in Nat /\ \A k \in 1..n : imports[k] \in T
  OBVIOUS
<1> HIDE DEF n
<1>2. h \in [(1..n) \X Seq(T) -> Seq(T)]
  <2>1. ASSUME NEW x \in (1..n) \X Seq(T) PROVE Listing(x[2], imports[x[1]]) \in Seq(T)
    <3>1. x[2] \in Seq(T) /\ imports[x[1]] \in T
      BY <1>1
    <3> QED
      BY <3>1 DEF Listing
  <2> QED
    BY <2>1
<1>3. \A k \in 1..n : \A r \in Seq(T) : h[<<k, r>>] = Listing(r, imports[k])
  OBVIOUS
<1> HIDE DEF h
<1>4. PICK a \in [0..n -> Seq(T)] : a[0] = <<>> /\ \A k \in 1..n : a[k] = h[<<k, a[k - 1]>>]
  <2>1. <<>> \in Seq(T)
    OBVIOUS
  <2>2. HasRecursion(Seq(T), <<>>, n, h)
    BY ONLY <1>1, <1>2, <2>1, RecursiveFunction
  <2> QED
    BY <2>2 DEF HasRecursion
<1>5. Listed(imports, n, a)
  <2>1. ASSUME NEW k \in 0..n PROVE a[k] = IF k = 0 THEN <<>> ELSE Listing(a[k - 1], imports[k])
    <3>1. CASE k # 0
      <4>1. k \in 1..n /\ a[k - 1] \in Seq(T)
        BY <1>1, <3>1
      <4> QED
        BY <1>3, <1>4, <3>1, <4>1
    <3> QED
      BY <1>4, <3>1
  <2> QED
    BY <2>1 DEF Listed
<1>6. PICK b : b = (CHOOSE u : Listed(imports, n, u)) /\ Listed(imports, n, b)
  BY <1>5
<1>7. b[0] = <<>> /\ \A k \in 1..n : b[k] = Listing(b[k - 1], imports[k])
  <2>1. 0 \in 0..n /\ \A k \in 1..n : k \in 0..n /\ k # 0
    BY <1>1
  <2>2. \A k \in 0..n : b[k] = IF k = 0 THEN <<>> ELSE Listing(b[k - 1], imports[k])
    BY <1>6 DEF Listed
  <2> QED
    BY <2>1, <2>2
<1> DEFINE P == {k \in Nat : k <= n => IsListOf(b[k], T, imports, k)}
<1>8. 0 \in P
  <2>1. DOMAIN <<>> = {} /\ 1..0 = {} /\ <<>> \in Seq(T)
    OBVIOUS
  <2>2. Header!IsInjective(<<>>)
    BY ONLY <2>1 DEF Header!IsInjective
  <2>3. Header!Range(<<>>) = {imports[i] : i \in 1..0}
    <3> DEFINE none == <<>>
    <3>1. {none[i] : i \in DOMAIN none} = {} /\ {imports[i] : i \in 1..0} = {}
      BY ONLY <2>1
    <3> QED
      BY ONLY <3>1 DEF Header!Range
  <2>4. IsListOf(b[0], T, imports, 0)
    BY ONLY <1>7, <2>1, <2>2, <2>3 DEF IsListOf
  <2> QED
    BY ONLY <2>4 DEF P
<1>9. ASSUME NEW k \in P PROVE k + 1 \in P
  <2> SUFFICES ASSUME k + 1 <= n PROVE IsListOf(b[k + 1], T, imports, k + 1)
    OBVIOUS
  <2>1. k \in Nat /\ k + 1 \in 1..n /\ k + 1 - 1 = k /\ IsListOf(b[k], T, imports, k)
    BY <1>1
  <2>2. b[k + 1] = Listing(b[k], imports[k + 1])
    BY <1>7, <2>1
  <2>3. b[k] \in Seq(T)
    BY <2>1 DEF IsListOf
  <2> HIDE DEF P
  <2>4. k + 1 <= Len(imports)
    BY DEF n
  <2> QED
    BY <2>1, <2>2, <2>3, <2>4, ListGrows
<1> HIDE DEF P
<1>10. P = Nat
  BY <1>8, <1>9, NaturalsByInduction DEF P
<1>11. Header!ImportsList(imports) = b[n]
  <2>1. Header!ImportsList(imports) = (CHOOSE u : Listed(imports, n, u))[n]
    BY Zenon DEF Header!ImportsList, Listed, Listing, n
  <2> QED
    BY <1>6, <2>1
<1>12. n \in P
  BY <1>1, <1>10
<1> QED
  BY <1>1, <1>11, <1>12 DEF P, n

\* The class generated for an asset, and the list of the imports.
LEMMA MainIsAlwaysGenerated ==
  ASSUME NEW T, NEW imports \in Seq(T), NEW exports, NEW n \in Nat, DOMAIN exports = 1..n,
         \A k \in 1..n : exports[k].size \in Int, NEW name
  PROVE  Header!MainIsGenerated(imports, exports, name)
<1> DEFINE list == Header!ImportsList(imports)
<1>1. IsListOf(list, T, imports, Len(imports))
  BY ListIsBuilt
<1>2. Header!IsInjective(list) /\ Header!Range(list) = Header!Range(imports)
  BY <1>1 DEF IsListOf, Header!Range
<1>3. ASSUME NEW i \in DOMAIN imports PROVE imports[i] \in Header!Range(Header!ImportsList(SubSeq(imports, 1, i)))
  <2> DEFINE part == SubSeq(imports, 1, i)
             some == Header!ImportsList(part)
  <2>1. part \in Seq(T) /\ Len(part) = i /\ part[i] = imports[i] /\ i \in 1..Len(part)
    <3>1. i \in 1..Len(imports) /\ \A j \in 1..i : imports[j] \in T
      OBVIOUS
    <3> QED
      BY <3>1, SubSeqProperties
  <2> HIDE DEF part
  <2>2. IsListOf(some, T, part, Len(part))
    BY <2>1, ListIsBuilt
  <2> HIDE DEF some
  <2>3. imports[i] \in Header!Range(some) /\ some \in Seq(T)
    BY <2>1, <2>2 DEF IsListOf
  <2> QED
    BY <2>3 DEF some, part
<1>4. LET k == Header!MainGeneratedClass(imports, exports, {name})
          all == {j \in DOMAIN exports : Header!DetectGenerated(exports[j], imports) /\ exports[j].name = name}
      IN IF all = {} THEN k = 0 ELSE k \in all /\ \A j \in all : exports[j].size <= exports[k].size
  BY MainIsLargest
<1> QED
  BY <1>2, <1>3, <1>4 DEF Header!MainIsGenerated

-----------------------------------------------------------------------------
\* The place of a version in the list, what the caches may hold, and what they
\* must: nothing that the list has not, and what it says first.
Found(versions, g) == {k \in DOMAIN versions : versions[k][1] = g}
Told(versions) == {versions[k][2] : k \in DOMAIN versions}
Caches(versions, G) == UNION {[S -> Told(versions)] : S \in SUBSET G}
IsTold(versions, cache) ==
  \A g \in DOMAIN cache : Found(versions, g) # {} /\ cache[g] = versions[Header!Min(Found(versions, g))][2]
Ask(versions, cache, g) == Header!GetVersion(versions, cache, g, 0).cache

LEMMA FirstIsFound ==
  ASSUME NEW T, NEW versions \in Seq(T), NEW g, Found(versions, g) # {}
  PROVE  versions[Header!Min(Found(versions, g))][2] \in Told(versions)
<1> DEFINE S == Found(versions, g)
<1>1. Len(versions) \in Nat /\ DOMAIN versions = 1..Len(versions)
  OBVIOUS
<1>2. S \subseteq 1..Len(versions) /\ S # {}
  BY <1>1 DEF Found
<1> HIDE DEF S
<1>3. Pak!Min(S) \in S
  BY <1>1, <1>2, LeastIsMin
<1>4. Header!Min(S) = Pak!Min(S)
  BY Zenon DEF Header!Min, Pak!Min
<1>5. Header!Min(S) \in DOMAIN versions
  BY <1>1, <1>2, <1>3, <1>4
<1> QED
  BY <1>5 DEF Told, S

LEMMA AskingKeepsTheList ==
  ASSUME NEW T, NEW versions \in Seq(T), NEW G, NEW g \in G, NEW cache \in Caches(versions, G)
  PROVE  /\ Ask(versions, cache, g) \in Caches(versions, G)
         /\ IsTold(versions, cache) => IsTold(versions, Ask(versions, cache, g))
<1> DEFINE next == Ask(versions, cache, g)
           value == versions[Header!Min(Found(versions, g))][2]
<1>1. CASE g \in DOMAIN cache \/ Found(versions, g) = {}
  BY <1>1 DEF Ask, Header!GetVersion, Found
<1>2. CASE g \notin DOMAIN cache /\ Found(versions, g) # {}
  <2>1. next = Header!Remember(cache, g, value)
    BY <1>2 DEF Ask, Header!GetVersion, Found
  <2>2. value \in Told(versions)
    BY <1>2, FirstIsFound
  <2>3. PICK S \in SUBSET G : cache \in [S -> Told(versions)]
    BY DEF Caches
  <2> HIDE DEF value, next
  <2>4. next = [x \in S \cup {g} |-> IF x = g THEN value ELSE cache[x]]
    BY <2>1, <2>3 DEF Header!Remember
  <2>5. next \in [S \cup {g} -> Told(versions)] /\ S \cup {g} \in SUBSET G
    BY <2>2, <2>3, <2>4
  <2>6. next \in Caches(versions, G)
    BY <2>5 DEF Caches
  <2>7. ASSUME IsTold(versions, cache) PROVE IsTold(versions, next)
    <3> SUFFICES ASSUME NEW x \in DOMAIN next
                 PROVE  Found(versions, x) # {} /\ next[x] = versions[Header!Min(Found(versions, x))][2]
      BY DEF IsTold
    <3>1. CASE x = g
      BY <1>2, <2>4, <3>1 DEF value
    <3>2. CASE x # g
      <4>1. x \in DOMAIN cache /\ next[x] = cache[x]
        BY <2>3, <2>4, <2>5, <3>2
      <4> QED
        BY <2>7, <4>1 DEF IsTold
    <3> QED
      BY <3>1, <3>2
  <2> QED
    BY <2>6, <2>7 DEF next
<1> QED
  BY <1>1, <1>2

Asks(versions, asked, n, a) == a = [k \in 0..n |-> IF k = 0 THEN <<>> ELSE Ask(versions, a[k - 1], asked[k])]

LEMMA CacheIsTold ==
  ASSUME NEW T, NEW versions \in Seq(T), NEW G, NEW asked \in Seq(G)
  PROVE  LET n == Len(asked) IN
           /\ IsTold(versions, (CHOOSE u : Asks(versions, asked, n, u))[n])
<1> DEFINE n == Len(asked)
           V == Caches(versions, G)
           h == [x \in (1..n) \X V |-> Ask(versions, x[2], asked[x[1]])]
<1>1. n \in Nat /\ \A k \in 1..n : asked[k] \in G
  OBVIOUS
<1> HIDE DEF n, V
<1>2. h \in [(1..n) \X V -> V]
  <2>1. ASSUME NEW x \in (1..n) \X V PROVE Ask(versions, x[2], asked[x[1]]) \in V
    <3>1. x[2] \in V /\ asked[x[1]] \in G
      BY <1>1
    <3> QED
      BY <3>1, AskingKeepsTheList DEF V
  <2> QED
    BY <2>1
<1>3. \A k \in 1..n : \A r \in V : h[<<k, r>>] = Ask(versions, r, asked[k])
  OBVIOUS
<1> HIDE DEF h
<1>4. <<>> \in V /\ IsTold(versions, <<>>)
  <2>1. DOMAIN <<>> = {} /\ <<>> \in [{} -> Told(versions)]
    OBVIOUS
  <2>2. {} \in SUBSET G
    OBVIOUS
  <2> QED
    BY ONLY <2>1, <2>2 DEF V, Caches, IsTold
<1>5. PICK a \in [0..n -> V] : a[0] = <<>> /\ \A k \in 1..n : a[k] = h[<<k, a[k - 1]>>]
  <2>1. HasRecursion(V, <<>>, n, h)
    BY ONLY <1>1, <1>2, <1>4, RecursiveFunction
  <2> QED
    BY <2>1 DEF HasRecursion
<1>6. Asks(versions, asked, n, a)
  <2>1. ASSUME NEW k \in 0..n PROVE a[k] = IF k = 0 THEN <<>> ELSE Ask(versions, a[k - 1], asked[k])
    <3>1. CASE k # 0
      <4>1. k \in 1..n /\ a[k - 1] \in V
        BY <1>1, <3>1
      <4> QED
        BY <1>3, <1>5, <3>1, <4>1
    <3> QED
      BY <1>5, <3>1
  <2> QED
    BY <2>1 DEF Asks
<1>7. PICK b : b = (CHOOSE u : Asks(versions, asked, n, u)) /\ Asks(versions, asked, n, b)
  BY <1>6
<1>8. b[0] = <<>> /\ \A k \in 1..n : b[k] = Ask(versions, b[k - 1], asked[k])
  <2>1. 0 \in 0..n /\ \A k \in 1..n : k \in 0..n /\ k # 0
    BY <1>1
  <2>2. \A k \in 0..n : b[k] = IF k = 0 THEN <<>> ELSE Ask(versions, b[k - 1], asked[k])
    BY <1>7 DEF Asks
  <2> QED
    BY <2>1, <2>2
<1> DEFINE P == {k \in Nat : k <= n => b[k] \in V /\ IsTold(versions, b[k])}
<1>9. 0 \in P
  BY <1>4, <1>8
<1>10. ASSUME NEW k \in P PROVE k + 1 \in P
  <2> SUFFICES ASSUME k + 1 <= n PROVE b[k + 1] \in V /\ IsTold(versions, b[k + 1])
    OBVIOUS
  <2>1. k + 1 \in 1..n /\ k + 1 - 1 = k /\ b[k] \in V /\ IsTold(versions, b[k]) /\ asked[k + 1] \in G
    BY <1>1
  <2>2. b[k + 1] = Ask(versions, b[k], asked[k + 1])
    BY <1>8, <2>1
  <2> HIDE DEF P
  <2> QED
    BY <2>1, <2>2, AskingKeepsTheList DEF V
<1> HIDE DEF P
<1>11. P = Nat
  BY <1>9, <1>10, NaturalsByInduction DEF P
<1>12. n \in P
  BY <1>1, <1>11
<1> QED
  BY <1>1, <1>7, <1>12 DEF P, n

\* A cached version is the one of the list.
LEMMA CacheIsAlwaysTheList ==
  ASSUME NEW T, NEW versions \in Seq(T), NEW G, NEW asked \in Seq(G)
  PROVE  Header!CacheIsTheList(versions, asked)
<1> DEFINE n == Len(asked)
           cache == (CHOOSE u : Asks(versions, asked, n, u))[n]
<1>1. IsTold(versions, cache)
  BY CacheIsTold
<1>2. Header!CacheIsTheList(versions, asked) =
        \A g \in Header!Range(asked), d \in 0..1 :
          Header!GetVersion(versions, cache, g, d).value = Header!GetVersion(versions, <<>>, g, d).value
  BY Zenon DEF Header!CacheIsTheList, Asks, Ask
<1> HIDE DEF cache
<1>3. ASSUME NEW g, NEW d
      PROVE  Header!GetVersion(versions, cache, g, d).value = Header!GetVersion(versions, <<>>, g, d).value
  <2>1. DOMAIN <<>> = {}
    OBVIOUS
  <2>2. Header!GetVersion(versions, <<>>, g, d).value =
          IF Found(versions, g) = {} THEN d ELSE versions[Header!Min(Found(versions, g))][2]
    BY <2>1 DEF Header!GetVersion, Found
  <2>3. CASE g \in DOMAIN cache
    <3>1. Header!GetVersion(versions, cache, g, d).value = cache[g]
      BY <2>3 DEF Header!GetVersion
    <3> QED
      BY <1>1, <2>2, <2>3, <3>1 DEF IsTold
  <2>4. CASE g \notin DOMAIN cache
    BY <2>2, <2>4 DEF Header!GetVersion, Found
  <2> QED
    BY <2>3, <2>4
<1> QED
  BY <1>2, <1>3

-----------------------------------------------------------------------------
(* The linker: lists.                                                       *)

\* What is kept of a list that has one more element.
Keeping(kept, x, set) == IF x \in set THEN Append(kept, x) ELSE kept
KeptOf(list, set, n, a) == a = [k \in 0..n |-> IF k = 0 THEN <<>> ELSE Keeping(a[k - 1], list[k], set)]

\* e says where each element that is kept stands among the first k.
Rising(e, n) == \A i, j \in 1..n : i < j => e[i] < e[j]
IsOnly(kept, T, list, set, k) ==
  /\ kept \in Seq(T) /\ \A i \in 1..Len(kept) : kept[i] \in set
  /\ \A j \in 1..k : list[j] \in set => \E i \in 1..Len(kept) : kept[i] = list[j]
  /\ \E e \in [1..Len(kept) -> 1..k] : Rising(e, Len(kept)) /\ \A i \in 1..Len(kept) : kept[i] = list[e[i]]

LEMMA KeepingIsOnly ==
  ASSUME NEW T, NEW list \in Seq(T), NEW set, NEW k \in Nat, k + 1 <= Len(list), NEW kept,
         IsOnly(kept, T, list, set, k)
  PROVE  IsOnly(Keeping(kept, list[k + 1], set), T, list, set, k + 1)
<1> DEFINE x == list[k + 1]
           m == Len(kept)
<1>1. x \in T /\ m \in Nat /\ kept \in Seq(T)
  BY DEF IsOnly
<1>2. PICK e \in [1..m -> 1..k] : Rising(e, m) /\ \A i \in 1..m : kept[i] = list[e[i]]
  BY DEF IsOnly
<1>3. /\ \A i \in 1..m : kept[i] \in set
      /\ \A j \in 1..k : list[j] \in set => \E i \in 1..m : kept[i] = list[j]
  BY DEF IsOnly
<1>4. 1..(k + 1) = 1..k \cup {k + 1} /\ k + 1 \notin 1..k
  OBVIOUS
<1>5. CASE x \notin set
  <2>1. Keeping(kept, x, set) = kept
    BY <1>5 DEF Keeping
  <2>2. e \in [1..m -> 1..(k + 1)]
    BY <1>4
  <2>3. \A j \in 1..(k + 1) : list[j] \in set => \E i \in 1..m : kept[i] = list[j]
    BY <1>3, <1>4, <1>5
  <2> QED
    BY <1>1, <1>2, <1>3, <2>1, <2>2, <2>3 DEF IsOnly
<1>6. CASE x \in set
  <2> DEFINE longer == Append(kept, x)
             d == [i \in 1..(m + 1) |-> IF i = m + 1 THEN k + 1 ELSE e[i]]
  <2>1. /\ longer \in Seq(T) /\ Len(longer) = m + 1 /\ longer[m + 1] = x
        /\ \A i \in 1..m : longer[i] = kept[i]
    BY <1>1, AppendProperties
  <2>2. Keeping(kept, x, set) = longer
    BY <1>6 DEF Keeping
  <2>3. 1..(m + 1) = 1..m \cup {m + 1} /\ m + 1 \notin 1..m
    BY <1>1
  <2> HIDE DEF longer, m
  <2>4. d \in [1..(m + 1) -> 1..(k + 1)] /\ d[m + 1] = k + 1 /\ \A i \in 1..m : d[i] = e[i]
    <3>1. ASSUME NEW i \in 1..(m + 1) PROVE (IF i = m + 1 THEN k + 1 ELSE e[i]) \in 1..(k + 1)
      BY <1>2, <1>4, <2>3
    <3>2. m + 1 \in 1..(m + 1) /\ \A i \in 1..m : i \in 1..(m + 1) /\ i # m + 1
      BY <2>3
    <3> QED
      BY <3>1, <3>2
  <2> HIDE DEF d
  <2>5. Rising(d, m + 1)
    <3> SUFFICES ASSUME NEW i \in 1..(m + 1), NEW j \in 1..(m + 1), i < j PROVE d[i] < d[j]
      BY DEF Rising
    <3>1. i \in 1..m
      BY <1>1, <2>3
    <3>2. CASE j \in 1..m
      BY <1>2, <2>4, <3>1, <3>2 DEF Rising
    <3>3. CASE j = m + 1
      <4>1. e[i] \in 1..k /\ d[i] = e[i] /\ d[j] = k + 1
        BY <1>2, <2>4, <3>1, <3>3
      <4> QED
        BY <4>1
    <3> QED
      BY <2>3, <3>2, <3>3
  <2>6. \A i \in 1..(m + 1) : longer[i] = list[d[i]] /\ longer[i] \in set
    BY <1>2, <1>3, <1>6, <2>1, <2>3, <2>4
  <2>7. \A j \in 1..(k + 1) : list[j] \in set => \E i \in 1..(m + 1) : longer[i] = list[j]
    BY <1>3, <1>4, <2>1, <2>3
  <2>8. \E f \in [1..(m + 1) -> 1..(k + 1)] : Rising(f, m + 1) /\ \A i \in 1..(m + 1) : longer[i] = list[f[i]]
    BY <2>4, <2>5, <2>6
  <2>9. IsOnly(longer, T, list, set, k + 1)
    BY ONLY <2>1, <2>6, <2>7, <2>8 DEF IsOnly
  <2> QED
    BY <2>2, <2>9
<1> QED
  BY <1>5, <1>6

LEMMA OnlyIsOnly ==
  ASSUME NEW T, NEW list \in Seq(T), NEW set
  PROVE  IsOnly(Linker!Only(list, set), T, list, set, Len(list))
<1> DEFINE n == Len(list)
           h == [x \in (1..n) \X Seq(T) |-> Keeping(x[2], list[x[1]], set)]
<1>1. n \in Nat /\ \A k \in 1..n : list[k] \in T
  OBVIOUS
<1> HIDE DEF n
<1>2. h \in [(1..n) \X Seq(T) -> Seq(T)]
  <2>1. ASSUME NEW x \in (1..n) \X Seq(T) PROVE Keeping(x[2], list[x[1]], set) \in Seq(T)
    <3>1. x[2] \in Seq(T) /\ list[x[1]] \in T
      BY <1>1
    <3> QED
      BY <3>1 DEF Keeping
  <2> QED
    BY <2>1
<1>3. \A k \in 1..n : \A r \in Seq(T) : h[<<k, r>>] = Keeping(r, list[k], set)
  OBVIOUS
<1> HIDE DEF h
<1>4. PICK a \in [0..n -> Seq(T)] : a[0] = <<>> /\ \A k \in 1..n : a[k] = h[<<k, a[k - 1]>>]
  <2>1. <<>> \in Seq(T)
    OBVIOUS
  <2>2. HasRecursion(Seq(T), <<>>, n, h)
    BY ONLY <1>1, <1>2, <2>1, RecursiveFunction
  <2> QED
    BY <2>2 DEF HasRecursion
<1>5. KeptOf(list, set, n, a)
  <2>1. ASSUME NEW k \in 0..n PROVE a[k] = IF k = 0 THEN <<>> ELSE Keeping(a[k - 1], list[k], set)
    <3>1. CASE k # 0
      <4>1. k \in 1..n /\ a[k - 1] \in Seq(T)
        BY <1>1, <3>1
      <4> QED
        BY <1>3, <1>4, <3>1, <4>1
    <3> QED
      BY <1>4, <3>1
  <2> QED
    BY <2>1 DEF KeptOf
<1>6. PICK b : b = (CHOOSE u : KeptOf(list, set, n, u)) /\ KeptOf(list, set, n, b)
  BY <1>5
<1>7. b[0] = <<>> /\ \A k \in 1..n : b[k] = Keeping(b[k - 1], list[k], set)
  <2>1. 0 \in 0..n /\ \A k \in 1..n : k \in 0..n /\ k # 0
    BY <1>1
  <2>2. \A k \in 0..n : b[k] = IF k = 0 THEN <<>> ELSE Keeping(b[k - 1], list[k], set)
    BY <1>6 DEF KeptOf
  <2> QED
    BY <2>1, <2>2
<1> DEFINE P == {k \in Nat : k <= n => IsOnly(b[k], T, list, set, k)}
<1>8. 0 \in P
  <2> DEFINE none == [i \in 1..0 |-> 1]
  <2>1. <<>> \in Seq(T) /\ Len(<<>>) = 0 /\ 1..0 = {} /\ none \in [1..0 -> 1..0]
    OBVIOUS
  <2> HIDE DEF none
  <2>2. IsOnly(b[0], T, list, set, 0)
    BY ONLY <1>7, <2>1 DEF IsOnly, Rising
  <2> QED
    BY ONLY <2>2 DEF P
<1>9. ASSUME NEW k \in P PROVE k + 1 \in P
  <2> SUFFICES ASSUME k + 1 <= n PROVE IsOnly(b[k + 1], T, list, set, k + 1)
    OBVIOUS
  <2>1. k \in Nat /\ k + 1 \in 1..n /\ k + 1 - 1 = k /\ IsOnly(b[k], T, list, set, k)
    BY <1>1
  <2>2. b[k + 1] = Keeping(b[k], list[k + 1], set)
    BY <1>7, <2>1
  <2> HIDE DEF P
  <2>3. k + 1 <= Len(list)
    BY DEF n
  <2> QED
    BY <2>1, <2>2, <2>3, KeepingIsOnly
<1> HIDE DEF P
<1>10. P = Nat
  BY <1>8, <1>9, NaturalsByInduction DEF P
<1>11. Linker!Only(list, set) = b[n]
  <2>1. Linker!Only(list, set) = (CHOOSE u : KeptOf(list, set, n, u))[n]
    BY Zenon DEF Linker!Only, KeptOf, Keeping, n
  <2> QED
    BY <1>6, <2>1
<1>12. n \in P
  BY <1>1, <1>10
<1> QED
  BY <1>1, <1>11, <1>12 DEF P, n

\* What a list has of a set, and in which order.
LEMMA OnlyHasTheSet ==
  ASSUME NEW T, NEW list \in Seq(T), NEW set
  PROVE  LET kept == Linker!Only(list, set) IN
           /\ kept \in Seq(T)
           /\ Linker!Range(kept) = Linker!Range(list) \cap set
<1> DEFINE kept == Linker!Only(list, set)
<1>1. IsOnly(kept, T, list, set, Len(list))
  BY OnlyIsOnly
<1> HIDE DEF kept
<1>2. kept \in Seq(T)
  BY <1>1 DEF IsOnly
<1>3. Linker!Range(kept) = {kept[i] : i \in 1..Len(kept)} /\ Linker!Range(list) = {list[j] : j \in 1..Len(list)}
  BY <1>2 DEF Linker!Range
<1>4. ASSUME NEW i \in 1..Len(kept) PROVE kept[i] \in set /\ \E j \in 1..Len(list) : kept[i] = list[j]
  BY <1>1 DEF IsOnly
<1>5. ASSUME NEW j \in 1..Len(list), list[j] \in set PROVE \E i \in 1..Len(kept) : kept[i] = list[j]
  BY <1>1, <1>5 DEF IsOnly
<1>6. Linker!Range(kept) \subseteq Linker!Range(list) \cap set
  BY <1>3, <1>4
<1>7. Linker!Range(list) \cap set \subseteq Linker!Range(kept)
  BY <1>3, <1>5
<1> QED
  BY <1>2, <1>6, <1>7 DEF kept

\* The elements of what is laid end to end.
LEMMA JoinedHasBoth ==
  ASSUME NEW S, NEW s \in Seq(S), NEW t \in Seq(S)
  PROVE  s \o t \in Seq(S) /\ Linker!Range(s \o t) = Linker!Range(s) \cup Linker!Range(t)
<1> DEFINE m == Len(s)
           n == Len(t)
           r == s \o t
<1>1. m \in Nat /\ n \in Nat /\ DOMAIN s = 1..m /\ DOMAIN t = 1..n
  OBVIOUS
<1>2. /\ r \in Seq(S) /\ Len(r) = m + n
      /\ \A i \in 1..(m + n) : r[i] = IF i <= m THEN s[i] ELSE t[i - m]
  BY ConcatProperties
<1>3. DOMAIN r = 1..(m + n)
  BY <1>1, <1>2
<1> HIDE DEF m, n, r
<1>4. ASSUME NEW i \in 1..(m + n) PROVE r[i] \in Linker!Range(s) \cup Linker!Range(t)
  <2>1. i <= m => i \in DOMAIN s
    BY <1>1
  <2>2. ~(i <= m) => i - m \in DOMAIN t
    BY <1>1
  <2> QED
    BY <1>2, <2>1, <2>2 DEF Linker!Range
<1>5. ASSUME NEW i \in 1..m PROVE s[i] \in Linker!Range(r)
  <2>1. i \in 1..(m + n) /\ i <= m
    BY <1>1
  <2> QED
    BY <1>2, <1>3, <2>1 DEF Linker!Range
<1>6. ASSUME NEW i \in 1..n PROVE t[i] \in Linker!Range(r)
  <2>1. m + i \in 1..(m + n) /\ ~(m + i <= m) /\ (m + i) - m = i
    BY <1>1
  <2>2. r[m + i] = t[i]
    BY <1>2, <2>1
  <2> QED
    BY <1>3, <2>1, <2>2 DEF Linker!Range
<1>7. Linker!Range(r) \subseteq Linker!Range(s) \cup Linker!Range(t)
  BY <1>3, <1>4 DEF Linker!Range
<1>8. Linker!Range(s) \subseteq Linker!Range(r)
  BY <1>1, <1>5 DEF Linker!Range
<1>9. Linker!Range(t) \subseteq Linker!Range(r)
  BY <1>1, <1>6 DEF Linker!Range
<1> QED
  BY <1>2, <1>7, <1>8, <1>9 DEF r

\* The lists behind one another, as the recursive function.
Chain(seqs, n, v) == v = [k \in 0..n |-> IF k = 0 THEN <<>> ELSE v[k - 1] \o seqs[k]]

LEMMA JoinedHasAll ==
  ASSUME NEW S, NEW seqs \in Seq(Seq(S))
  PROVE  /\ Linker!Joined(seqs) \in Seq(S)
         /\ Linker!Range(Linker!Joined(seqs)) = UNION {Linker!Range(seqs[i]) : i \in 1..Len(seqs)}
<1> DEFINE n == Len(seqs)
           h == [x \in (1..n) \X Seq(S) |-> x[2] \o seqs[x[1]]]
<1>1. n \in Nat /\ <<>> \in Seq(S) /\ \A k \in 1..n : seqs[k] \in Seq(S)
  OBVIOUS
<1>2. h \in [(1..n) \X Seq(S) -> Seq(S)] /\ \A k \in 1..n, s \in Seq(S) : h[<<k, s>>] = s \o seqs[k]
  <2>1. ASSUME NEW x \in (1..n) \X Seq(S) PROVE x[2] \o seqs[x[1]] \in Seq(S)
    <3>1. x[1] \in 1..n /\ x[2] \in Seq(S)
      OBVIOUS
    <3> QED
      BY <1>1, <3>1, ConcatProperties
  <2> QED
    BY <2>1
<1>3. Linker!Joined(seqs) = (CHOOSE v : Chain(seqs, n, v))[n]
  BY Zenon DEF Linker!Joined, Chain
<1> HIDE DEF n, h
<1>4. PICK f \in [0..n -> Seq(S)] : f[0] = <<>> /\ \A k \in 1..n : f[k] = h[<<k, f[k - 1]>>]
  <2>1. HasRecursion(Seq(S), <<>>, n, h)
    BY <1>1, <1>2, RecursiveFunction
  <2> QED
    BY <2>1 DEF HasRecursion
<1>5. Chain(seqs, n, f)
  <2>1. ASSUME NEW k \in 0..n PROVE f[k] = IF k = 0 THEN <<>> ELSE f[k - 1] \o seqs[k]
    <3>1. CASE k = 0
      BY <1>4, <3>1
    <3>2. CASE k # 0
      <4>1. k \in 1..n /\ k - 1 \in 0..n
        BY <1>1, <3>2
      <4> QED
        BY <1>2, <1>4, <3>2, <4>1
    <3> QED
      BY <3>1, <3>2
  <2> QED
    BY <1>4, <2>1 DEF Chain
<1>6. PICK g : g = (CHOOSE v : Chain(seqs, n, v)) /\ Chain(seqs, n, g)
  BY <1>5
<1>7. \A k \in 0..n : g[k] = IF k = 0 THEN <<>> ELSE g[k - 1] \o seqs[k]
  BY <1>6 DEF Chain
<1> DEFINE All(k) == UNION {Linker!Range(seqs[i]) : i \in 1..k}
           Fits(k) == g[k] \in Seq(S) /\ Linker!Range(g[k]) = All(k)
           P == {k \in Nat : k <= n => Fits(k)}
<1>8. 0 \in P
  <2>1. g[0] = <<>> /\ 1..0 = {} /\ DOMAIN <<>> = {}
    BY <1>1, <1>7
  <2>2. Linker!Range(<<>>) = {}
    BY <2>1 DEF Linker!Range
  <2> QED
    BY <1>1, <2>1, <2>2
<1>9. ASSUME NEW k \in P PROVE k + 1 \in P
  <2> HIDE DEF Fits
  <2> SUFFICES ASSUME k + 1 <= n PROVE Fits(k + 1)
    OBVIOUS
  <2>1. k \in Nat /\ k + 1 \in 1..n /\ k + 1 \in 0..n /\ k + 1 # 0 /\ (k + 1) - 1 = k /\ Fits(k)
    BY <1>1
  <2> USE DEF Fits
  <2>2. g[k + 1] = g[k] \o seqs[k + 1] /\ seqs[k + 1] \in Seq(S)
    BY <1>1, <1>7, <2>1
  <2>3. 1..(k + 1) = 1..k \cup {k + 1}
    BY <2>1
  <2>4. All(k + 1) = All(k) \cup Linker!Range(seqs[k + 1])
    BY <2>3
  <2>5. /\ g[k] \o seqs[k + 1] \in Seq(S)
        /\ Linker!Range(g[k] \o seqs[k + 1]) = Linker!Range(g[k]) \cup Linker!Range(seqs[k + 1])
    BY <2>1, <2>2, JoinedHasBoth
  <2> HIDE DEF P, All
  <2> QED
    BY <2>1, <2>2, <2>4, <2>5
<1> HIDE DEF P, Fits
<1>10. P = Nat
  BY <1>8, <1>9, NaturalsByInduction DEF P
<1>11. Fits(n)
  <2>1. n \in P /\ n <= n
    BY <1>1, <1>10
  <2> QED
    BY <2>1 DEF P
<1> QED
  BY <1>3, <1>6, <1>11 DEF Fits, n

\* A path behind an underscore and digits.
LEMMA HashGoes ==
  ASSUME NEW path \in Seq(Int), NEW digits \in Seq(Int), \A i \in 1..Len(digits) : digits[i] \in Digits, Underscore \in Int
  PROVE  Linker!HashIsUndone(path, digits)
<1> DEFINE m == Len(path)
           n == Len(digits)
           front == path \o <<Underscore>>
           name == front \o digits
<1>1. m \in Nat /\ n \in Nat
  OBVIOUS
<1>2. front \in Seq(Int) /\ Len(front) = m + 1 /\ front[m + 1] = Underscore /\ \A i \in 1..m : front[i] = path[i]
  OBVIOUS
<1>3. name \in Seq(Int) /\ Len(name) = m + 1 + n /\ DOMAIN name = 1..(m + 1 + n)
  BY <1>2
<1>4. name[m + 1] = Underscore /\ \A i \in 1..m : name[i] = path[i]
  BY <1>2
<1>5. \A j \in (m + 2)..(m + 1 + n) : name[j] \in Digits
  <2> SUFFICES ASSUME NEW j \in (m + 2)..(m + 1 + n) PROVE name[j] \in Digits
    OBVIOUS
  <2>1. j - (m + 1) \in 1..n /\ j \in 1..(m + 1 + n) /\ ~(j <= m + 1)
    BY <1>1
  <2>2. name[j] = digits[j - (m + 1)]
    BY <1>2, <2>1
  <2> QED
    BY <2>1, <2>2
<1> HIDE DEF m, n, front, name
<1> DEFINE Ends(i) == name[i] = Underscore /\ \A j \in (i + 1)..Len(name) : name[j] \in Digits
<1>6. ASSUME NEW i \in DOMAIN name, Ends(i) PROVE i = m + 1
  <2>1. i \in 1..(m + 1 + n)
    BY <1>3
  <2>2. CASE i < m + 1
    <3>1. m + 1 \in (i + 1)..Len(name)
      BY <1>1, <1>3, <2>1, <2>2
    <3> QED
      BY <1>4, <1>6, <3>1, HeaderAssumption
  <2>3. CASE i > m + 1
    <3>1. i \in (m + 2)..(m + 1 + n)
      BY <1>1, <2>1, <2>3
    <3> QED
      BY <1>5, <1>6, <3>1, HeaderAssumption
  <2> QED
    BY <1>1, <2>1, <2>2, <2>3
<1>7. m + 1 \in DOMAIN name /\ Ends(m + 1)
  <2>1. (m + 1) + 1 = m + 2 /\ m + 1 \in 1..(m + 1 + n)
    BY <1>1
  <2> QED
    BY <1>3, <1>4, <1>5, <2>1
<1>8. Linker!Suffix(name) = m + 1
  <2>1. Linker!Suffix(name) = CHOOSE i \in DOMAIN name : Ends(i)
    BY DEF Linker!Suffix
  <2> HIDE DEF Ends
  <2> QED
    BY <1>6, <1>7, <2>1
<1>9. Linker!Hashed(name) <=> n >= 3
  <2>1. Linker!Hashed(name) <=> \E i \in DOMAIN name : Ends(i) /\ Len(name) - i >= 3
    BY DEF Linker!Hashed
  <2>2. Len(name) - (m + 1) = n
    BY <1>1, <1>3
  <2> HIDE DEF Ends
  <2> QED
    BY <1>6, <1>7, <2>1, <2>2
<1>10. SubSeq(name, 1, Linker!Suffix(name) - 1) = path
  <2> DEFINE part == SubSeq(name, 1, m)
  <2>1. Linker!Suffix(name) - 1 = m
    BY <1>1, <1>8
  <2>2. part \in Seq(Int) /\ Len(part) = m /\ \A i \in 1..m : part[i] = name[i]
    <3>1. \A i \in 1..m : name[i] \in Int
      BY <1>1, <1>3
    <3> QED
      BY <1>1, <1>3, <3>1, SubSeqProperties
  <2> HIDE DEF part
  <2>3. Len(path) = m /\ \A i \in 1..m : part[i] = path[i]
    BY <1>4, <2>2 DEF m
  <2>4. part = path
    BY <2>2, <2>3, SeqEqual
  <2> QED
    BY <2>1, <2>4 DEF part
<1>11. Linker!Normalize(name) = IF n >= 3 THEN path ELSE name
  BY <1>9, <1>10 DEF Linker!Normalize
<1> QED
  BY <1>11 DEF Linker!HashIsUndone, n, name, front

-----------------------------------------------------------------------------
(* The linker: objects, and the tree of their outers.                       *)

\* The tables of a package, whatever they say.
Text == Seq(Int)
ImportEntry == [name : Text, class : Text, package : Text, outer : Int]
ExportEntry ==
  [name : Text, class : Int, outer : Int, super : Int, template : Int, offset : Int, length : Int]
IsGraph(g) ==
  /\ g.imports \in Seq(ImportEntry) /\ g.exports \in Seq(ExportEntry)
  /\ g.depends \in Seq(Seq(Int)) /\ g.size \in Nat

LEMMA TablesAreLists ==
  ASSUME NEW g, IsGraph(g)
  PROVE  /\ Len(g.imports) \in Nat /\ DOMAIN g.imports = 1..Len(g.imports)
         /\ \A k \in 1..Len(g.imports) : g.imports[k] \in ImportEntry
         /\ Len(g.exports) \in Nat /\ DOMAIN g.exports = 1..Len(g.exports)
         /\ \A k \in 1..Len(g.exports) : g.exports[k] \in ExportEntry
         /\ Len(g.depends) \in Nat /\ DOMAIN g.depends = 1..Len(g.depends)
         /\ \A k \in 1..Len(g.depends) : g.depends[k] \in Seq(Int)
BY DEF IsGraph

LEMMA ObjectsAreIndexes ==
  ASSUME NEW g, IsGraph(g)
  PROVE  LET m == Len(g.imports)
             n == Len(g.exports)
         IN
         /\ Linker!Imports(g) \in Seq(Int) /\ Linker!Range(Linker!Imports(g)) = {-k : k \in 1..m}
         /\ Linker!Exports(g) \in Seq(Int) /\ Linker!Range(Linker!Exports(g)) = 1..n
         /\ Linker!Objects(g) \in Seq(Int) /\ Len(Linker!Objects(g)) = m + n
         /\ \A i \in 1..(m + n) : Linker!Objects(g)[i] = IF i <= m THEN -i ELSE i - m
         /\ Linker!Range(Linker!Objects(g)) = {-k : k \in 1..m} \cup 1..n
<1> DEFINE m == Len(g.imports)
           n == Len(g.exports)
           is == [k \in 1..m |-> -k]
           es == [k \in 1..n |-> k]
<1>1. m \in Nat /\ n \in Nat /\ DOMAIN g.imports = 1..m /\ DOMAIN g.exports = 1..n
  BY TablesAreLists
<1>2. Linker!Imports(g) = is /\ Linker!Exports(g) = es
  BY <1>1 DEF Linker!Imports, Linker!Exports
<1>3. is \in Seq(Int) /\ Len(is) = m /\ DOMAIN is = 1..m /\ \A i \in 1..m : is[i] = -i
  BY <1>1, IsASeq
<1>4. es \in Seq(Int) /\ Len(es) = n /\ DOMAIN es = 1..n /\ \A i \in 1..n : es[i] = i
  BY <1>1, IsASeq
<1> HIDE DEF is, es, m, n
<1>5. Linker!Range(is) = {-k : k \in 1..m} /\ Linker!Range(es) = 1..n
  <2>1. {is[i] : i \in 1..m} = {-k : k \in 1..m}
    BY ONLY <1>3
  <2>2. {es[i] : i \in 1..n} = 1..n
    BY ONLY <1>4
  <2> QED
    BY <1>3, <1>4, <2>1, <2>2 DEF Linker!Range
<1>6. Linker!Objects(g) = is \o es
  BY <1>2 DEF Linker!Objects
<1>7. /\ is \o es \in Seq(Int)
      /\ Linker!Range(is \o es) = {-k : k \in 1..m} \cup 1..n
  BY <1>3, <1>4, <1>5, JoinedHasBoth
<1>8. Len(is \o es) = m + n /\ \A i \in 1..(m + n) : (is \o es)[i] = IF i <= m THEN -i ELSE i - m
  <2>1. Len(is \o es) = m + n /\ \A i \in 1..(m + n) : (is \o es)[i] = IF i <= m THEN is[i] ELSE es[i - m]
    <3>1. /\ Len(is \o es) = Len(is) + Len(es)
          /\ \A i \in 1..(Len(is) + Len(es)) : (is \o es)[i] = IF i <= Len(is) THEN is[i] ELSE es[i - Len(is)]
      <4>1. is \in Seq(Int) /\ es \in Seq(Int)
        BY <1>3, <1>4
      <4> QED
        BY ONLY <4>1, ConcatProperties, Zenon
    <3> QED
      BY ONLY <1>3, <1>4, <3>1
  <2>2. ASSUME NEW i \in 1..(m + n) PROVE (is \o es)[i] = IF i <= m THEN -i ELSE i - m
    <3>1. CASE i <= m
      BY <1>1, <1>3, <2>1, <3>1
    <3>2. CASE ~(i <= m)
      <4>1. i - m \in 1..n
        BY ONLY <1>1, <3>2, i \in 1..(m + n)
      <4> QED
        BY <1>4, <2>1, <3>2, <4>1
    <3> QED
      BY <3>1, <3>2
  <2> QED
    BY <2>1, <2>2
<1> QED
  BY <1>2, <1>3, <1>4, <1>5, <1>6, <1>7, <1>8 DEF m, n

\* An index is that of an object or leads nowhere.
LEMMA IndexIsObject ==
  ASSUME NEW g, IsGraph(g), NEW i \in Int
  PROVE  /\ Linker!IsObject(g, i) <=> i \in Linker!Range(Linker!Objects(g))
         /\ i \in Linker!Range(Linker!Objects(g)) => i # 0
         /\ Linker!Resolve(g, i) \in {0} \cup Linker!Range(Linker!Objects(g))
         /\ Linker!Resolve(g, i) = 0 <=> i \notin Linker!Range(Linker!Objects(g))
         /\ i \in Linker!Range(Linker!Objects(g)) => Linker!Resolve(g, i) = i
         /\ Linker!Unresolved(g, i) <=> i # 0 /\ Linker!Resolve(g, i) = 0
<1> DEFINE m == Len(g.imports)
           n == Len(g.exports)
           objects == Linker!Range(Linker!Objects(g))
<1>1. objects = {-k : k \in 1..m} \cup 1..n
  BY ObjectsAreIndexes
<1>2. m \in Nat /\ n \in Nat /\ DOMAIN g.imports = 1..m /\ DOMAIN g.exports = 1..n
  BY TablesAreLists
<1> HIDE DEF m, n, objects
<1>3. Linker!IsObject(g, i) <=> -i \in 1..m \/ i \in 1..n
  BY <1>2 DEF Linker!IsObject
<1>4. -i \in 1..m <=> i \in {-k : k \in 1..m}
  <2>1. ASSUME -i \in 1..m PROVE i \in {-k : k \in 1..m}
    <3>1. -(-i) = i
      OBVIOUS
    <3> QED
      BY <2>1, <3>1
  <2>2. ASSUME i \in {-k : k \in 1..m} PROVE -i \in 1..m
    <3>1. PICK k \in 1..m : i = -k
      BY <2>2
    <3> QED
      BY <3>1
  <2> QED
    BY <2>1, <2>2
<1>5. Linker!IsObject(g, i) <=> i \in objects
  BY <1>1, <1>3, <1>4
<1>6. i \in objects => i # 0
  BY <1>1, <1>2, <1>3, <1>5
<1> QED
  BY <1>5, <1>6 DEF Linker!Resolve, Linker!Unresolved, objects

\* The outer of an object is 0 or an object.
LEMMA OutersAreObjects ==
  ASSUME NEW g, IsGraph(g), NEW o \in Linker!Range(Linker!Objects(g))
  PROVE  /\ o \in Int /\ o # 0 /\ Linker!OuterIndex(g, o) \in Int
         /\ Linker!Outer(g, o) \in {0} \cup Linker!Range(Linker!Objects(g))
         /\ Linker!Outer(g, o) = 0 <=> Linker!OuterIndex(g, o) \notin Linker!Range(Linker!Objects(g))
         /\ Linker!Unresolved(g, Linker!OuterIndex(g, o)) <=> Linker!OuterIndex(g, o) # 0 /\ Linker!Outer(g, o) = 0
<1> DEFINE m == Len(g.imports)
           n == Len(g.exports)
<1>1. m \in Nat /\ n \in Nat /\ o \in {-k : k \in 1..m} \cup 1..n
  BY ObjectsAreIndexes, TablesAreLists
<1>2. o \in Int
  BY <1>1
<1>3. Linker!OuterIndex(g, o) \in Int
  <2>1. CASE o < 0
    <3>1. -o \in 1..m
      BY <1>1, <2>1
    <3>2. g.imports[-o] \in ImportEntry
      BY <3>1, TablesAreLists
    <3> QED
      BY <2>1, <3>2 DEF Linker!OuterIndex, Linker!Entry, ImportEntry
  <2>2. CASE ~(o < 0)
    <3>1. o \in 1..n
      BY <1>1, <2>2
    <3>2. g.exports[o] \in ExportEntry
      BY <3>1, TablesAreLists
    <3> QED
      BY <2>2, <3>2 DEF Linker!OuterIndex, Linker!Entry, ExportEntry
  <2> QED
    BY <2>1, <2>2
<1> HIDE DEF m, n
<1> QED
  BY <1>2, <1>3, IndexIsObject DEF Linker!Outer

\* Objects come imports first, and each at its place.
Sorted(s) == \A i, j \in 1..Len(s) : i < j => s[i] < 0 \/ (s[j] > 0 /\ s[i] < s[j])

LEMMA ObjectsAreSorted ==
  ASSUME NEW g, IsGraph(g)
  PROVE  Sorted(Linker!Objects(g))
<1> DEFINE m == Len(g.imports)
           n == Len(g.exports)
           objects == Linker!Objects(g)
<1>1. m \in Nat /\ n \in Nat
  BY TablesAreLists
<1>2. Len(objects) = m + n /\ \A i \in 1..(m + n) : objects[i] = IF i <= m THEN -i ELSE i - m
  BY ObjectsAreIndexes
<1> HIDE DEF m, n, objects
<1>3. ASSUME NEW i \in 1..(m + n), NEW j \in 1..(m + n), i < j
      PROVE  objects[i] < 0 \/ (objects[j] > 0 /\ objects[i] < objects[j])
  <2>1. CASE i <= m
    BY <1>1, <1>2, <2>1
  <2>2. CASE ~(i <= m)
    <3>1. objects[i] = i - m /\ objects[j] = j - m
      BY <1>1, <1>2, <1>3, <2>2
    <3> QED
      BY <1>1, <1>3, <2>2, <3>1
  <2> QED
    BY <2>1, <2>2
<1> QED
  BY <1>2, <1>3 DEF Sorted, objects

LEMMA OnlyIsSorted ==
  ASSUME NEW list \in Seq(Int), Sorted(list), NEW set
  PROVE  Sorted(Linker!Only(list, set))
<1> DEFINE kept == Linker!Only(list, set)
           n == Len(list)
           m == Len(kept)
<1>1. IsOnly(kept, Int, list, set, n) /\ n \in Nat
  BY OnlyIsOnly
<1> HIDE DEF kept
<1>2. PICK e \in [1..m -> 1..n] : Rising(e, m) /\ \A i \in 1..m : kept[i] = list[e[i]]
  BY <1>1 DEF IsOnly
<1> SUFFICES ASSUME NEW i \in 1..m, NEW j \in 1..m, i < j
             PROVE  kept[i] < 0 \/ (kept[j] > 0 /\ kept[i] < kept[j])
  BY DEF Sorted, kept
<1> HIDE DEF n, m
<1>3. e[i] \in 1..n /\ e[j] \in 1..n /\ e[i] < e[j]
  BY <1>2 DEF Rising
<1>4. list[e[i]] < 0 \/ (list[e[j]] > 0 /\ list[e[i]] < list[e[j]])
  BY <1>3 DEF Sorted, n
<1> QED
  BY <1>2, <1>4

-----------------------------------------------------------------------------
(* The linker: what is reported.                                            *)

Fields == {"serial_offset", "outer", "super", "template", "depends"}
ReportRecord == [field : Fields, of : Int, target : Int]
\* The reports of a field of the objects in a set that lead nowhere.
Nowhere(g, field, objects, index) ==
  {Linker!Report(field, o, index[o]) : o \in {x \in objects : Linker!Unresolved(g, index[x])}}

LEMMA ListOfReports ==
  ASSUME NEW bad \in Seq(Int), NEW r \in [1..Len(bad) -> ReportRecord]
  PROVE  r \in Seq(ReportRecord) /\ Linker!Range(r) = {r[i] : i \in 1..Len(bad)}
<1>1. r \in Seq(ReportRecord) /\ DOMAIN r = 1..Len(bad)
  BY IsASeq
<1> QED
  BY <1>1 DEF Linker!Range

LEMMA ReportsAreOfObjects ==
  ASSUME NEW g, NEW field \in Fields, NEW objects \in Seq(Int), NEW index, \A o \in DOMAIN index : index[o] \in Int,
         Linker!Range(objects) \subseteq DOMAIN index
  PROVE  /\ Linker!Reports(g, field, objects, index) \in Seq(ReportRecord)
         /\ Linker!Range(Linker!Reports(g, field, objects, index)) = Nowhere(g, field, Linker!Range(objects), index)
<1> DEFINE lost == {o \in DOMAIN index : Linker!Unresolved(g, index[o])}
           bad == Linker!Only(objects, lost)
           n == Len(bad)
           r == [i \in 1..n |-> Linker!Report(field, bad[i], index[bad[i]])]
<1>1. bad \in Seq(Int) /\ Linker!Range(bad) = Linker!Range(objects) \cap lost
  BY OnlyHasTheSet
<1>2. n \in Nat /\ DOMAIN bad = 1..n /\ \A i \in 1..n : bad[i] \in Int /\ bad[i] \in Linker!Range(bad)
  <2> HIDE DEF bad
  <2> QED
    BY <1>1 DEF Linker!Range
<1>3. Linker!Reports(g, field, objects, index) = r
  BY <1>2 DEF Linker!Reports
<1> HIDE DEF bad
<1>4. Linker!Range(bad) = {bad[i] : i \in 1..n}
  BY <1>2 DEF Linker!Range
<1>5. \A i \in 1..n : index[bad[i]] \in Int
  BY <1>1, <1>2
<1>6. r \in [1..n -> ReportRecord] /\ \A i \in 1..n : r[i] = Linker!Report(field, bad[i], index[bad[i]])
  BY <1>2, <1>5 DEF ReportRecord, Linker!Report
<1> HIDE DEF r
<1>7. r \in Seq(ReportRecord) /\ Linker!Range(r) = {r[i] : i \in 1..n}
  BY <1>1, <1>6, ListOfReports
<1> HIDE DEF n
<1>8. {r[i] : i \in 1..n} = {Linker!Report(field, o, index[o]) : o \in Linker!Range(bad)}
  <2>1. ASSUME NEW i \in 1..n PROVE r[i] \in {Linker!Report(field, o, index[o]) : o \in Linker!Range(bad)}
    BY <1>2, <1>6
  <2>2. ASSUME NEW o \in Linker!Range(bad) PROVE Linker!Report(field, o, index[o]) \in {r[i] : i \in 1..n}
    <3>1. PICK i \in 1..n : o = bad[i]
      BY <1>4
    <3> QED
      BY <1>6, <3>1
  <2> QED
    BY <2>1, <2>2
<1>9. Linker!Range(bad) = {x \in Linker!Range(objects) : Linker!Unresolved(g, index[x])}
  BY <1>1
<1> QED
  BY <1>3, <1>7, <1>8, <1>9 DEF Nowhere

LEMMA OffsetsAreReported ==
  ASSUME NEW g, IsGraph(g)
  PROVE  /\ Linker!OffsetReports(g) \in Seq(ReportRecord)
         /\ \A r \in Linker!Range(Linker!OffsetReports(g)) : r.field = "serial_offset"
<1> DEFINE bad == Linker!Only(Linker!Exports(g), {k \in DOMAIN g.exports : g.exports[k].offset \notin 0..g.size})
           n == Len(bad)
           r == [i \in 1..n |-> Linker!Report("serial_offset", bad[i], g.exports[bad[i]].offset)]
<1>1. bad \in Seq(Int) /\ Linker!Range(bad) \subseteq DOMAIN g.exports
  <2>1. Linker!Exports(g) \in Seq(Int)
    BY ObjectsAreIndexes
  <2> QED
    BY <2>1, OnlyHasTheSet
<1>2. Linker!OffsetReports(g) = r
  <2>1. DOMAIN bad = 1..n
    BY <1>1
  <2> QED
    BY <2>1 DEF Linker!OffsetReports
<1> HIDE DEF bad
<1>3. n \in Nat /\ \A i \in 1..n : bad[i] \in Int /\ bad[i] \in DOMAIN g.exports
  BY <1>1 DEF Linker!Range
<1>4. \A i \in 1..n : g.exports[bad[i]].offset \in Int
  BY <1>3, TablesAreLists DEF ExportEntry
<1>5. r \in [1..n -> ReportRecord] /\ \A i \in 1..n : r[i].field = "serial_offset"
  BY <1>3, <1>4 DEF ReportRecord, Linker!Report, Fields
<1> HIDE DEF r
<1>6. r \in Seq(ReportRecord) /\ Linker!Range(r) = {r[i] : i \in 1..n}
  BY <1>1, <1>5, ListOfReports
<1> QED
  BY <1>2, <1>5, <1>6

\* The dependencies of one export.
Undone(g, k) == {Linker!Report("depends", k, i) : i \in {x \in Linker!Range(g.depends[k]) : Linker!Unresolved(g, x)}}

LEMMA PairHasOne ==
  ASSUME NEW S, NEW x \in S
  PROVE  <<x, x>> \in Seq(S) /\ Linker!Range(<<x, x>>) = {x}
<1> DEFINE pair == <<x, x>>
<1>1. pair \in Seq(S) /\ DOMAIN pair = 1..2 /\ pair[1] = x /\ pair[2] = x
  OBVIOUS
<1>2. \A i \in 1..2 : i = 1 \/ i = 2
  OBVIOUS
<1> HIDE DEF pair
<1>3. {pair[i] : i \in 1..2} = {x}
  BY <1>1, <1>2
<1>4. Linker!Range(pair) = {x}
  BY <1>1, <1>3 DEF Linker!Range
<1> QED
  BY <1>1, <1>4 DEF pair

LEMMA DependenciesAreReported ==
  ASSUME NEW g, IsGraph(g), NEW k \in 1..Len(g.depends)
  PROVE  /\ Linker!DependencyReports(g, k) \in Seq(ReportRecord)
         /\ Linker!Range(Linker!DependencyReports(g, k)) = Undone(g, k)
<1> DEFINE list == g.depends[k]
           lost == {i \in Linker!Range(list) : Linker!Unresolved(g, i)}
           bad == Linker!Only(list, lost)
           n == Len(bad)
           One(i) == Linker!Report("depends", k, bad[i])
           pairs == [i \in 1..n |-> <<One(i), One(i)>>]
<1>1. list \in Seq(Int) /\ k \in Int
  BY TablesAreLists
<1>2. bad \in Seq(Int) /\ Linker!Range(bad) = Linker!Range(list) \cap lost
  <2> HIDE DEF lost, list
  <2> QED
    BY <1>1, OnlyHasTheSet
<1>3. Linker!DependencyReports(g, k) = Linker!Joined(pairs)
  <2>1. DOMAIN bad = 1..n
    BY <1>2
  <2> QED
    BY <2>1 DEF Linker!DependencyReports
<1> HIDE DEF bad
<1>4. n \in Nat /\ \A i \in 1..n : bad[i] \in Int
  BY <1>2
<1>5. Linker!Range(bad) = {bad[i] : i \in 1..n}
  BY <1>2 DEF Linker!Range
<1>6. \A i \in 1..n : One(i) \in ReportRecord
  BY <1>1, <1>4 DEF ReportRecord, Linker!Report, Fields
<1> HIDE DEF One
<1>7. \A i \in 1..n : <<One(i), One(i)>> \in Seq(ReportRecord) /\ Linker!Range(<<One(i), One(i)>>) = {One(i)}
  BY <1>6, PairHasOne
<1>8. pairs \in Seq(Seq(ReportRecord)) /\ Len(pairs) = n /\ \A i \in 1..n : Linker!Range(pairs[i]) = {One(i)}
  <2>1. \A i \in 1..n : pairs[i] = <<One(i), One(i)>>
    OBVIOUS
  <2>2. pairs \in [1..n -> Seq(ReportRecord)]
    BY <1>7
  <2>3. pairs \in Seq(Seq(ReportRecord)) /\ Len(pairs) = n
    BY <1>4, <2>2, IsASeq
  <2> QED
    BY <1>7, <2>1, <2>3
<1> HIDE DEF pairs, n
<1>9. /\ Linker!Joined(pairs) \in Seq(ReportRecord)
      /\ Linker!Range(Linker!Joined(pairs)) = UNION {Linker!Range(pairs[i]) : i \in 1..n}
  BY <1>8, JoinedHasAll
<1>10. UNION {Linker!Range(pairs[i]) : i \in 1..n} = {One(i) : i \in 1..n}
  <2>1. ASSUME NEW x \in UNION {Linker!Range(pairs[i]) : i \in 1..n} PROVE x \in {One(i) : i \in 1..n}
    <3>1. PICK i \in 1..n : x \in Linker!Range(pairs[i])
      OBVIOUS
    <3>2. x = One(i)
      BY <1>8, <3>1
    <3> QED
      BY <3>2
  <2>2. ASSUME NEW i \in 1..n PROVE One(i) \in UNION {Linker!Range(pairs[j]) : j \in 1..n}
    <3>1. One(i) \in Linker!Range(pairs[i])
      BY <1>8
    <3> QED
      BY <3>1
  <2> QED
    BY <2>1, <2>2
<1>11. {One(i) : i \in 1..n} = {Linker!Report("depends", k, x) : x \in Linker!Range(bad)}
  BY <1>5 DEF One
<1>12. Linker!Range(bad) = lost
  BY <1>2
<1> QED
  BY <1>3, <1>9, <1>10, <1>11, <1>12 DEF Undone

LEMMA SameCardinality == ASSUME NEW S PROVE Linker!Cardinality(S) = Cardinality(S)
BY Zenon DEF Linker!Cardinality, Cardinality

LEMMA ThreeHaveAll ==
  ASSUME NEW S, NEW a \in Seq(S), NEW b \in Seq(S), NEW d \in Seq(S)
  PROVE  /\ (a \o b) \o d \in Seq(S)
         /\ Linker!Range((a \o b) \o d) = Linker!Range(a) \cup Linker!Range(b) \cup Linker!Range(d)
<1>1. PICK ab \in Seq(S) : ab = a \o b /\ Linker!Range(ab) = Linker!Range(a) \cup Linker!Range(b)
  BY JoinedHasBoth, ZenonT(30)
<1>2. ab \o d \in Seq(S) /\ Linker!Range(ab \o d) = Linker!Range(ab) \cup Linker!Range(d)
  BY JoinedHasBoth
<1> QED
  BY <1>1, <1>2

\* The objects with an outer, the exports with a super and a template that lead
\* nowhere, and the diagnostics that say so.
LEMMA LinkIsReported ==
  ASSUME NEW g, IsGraph(g)
  PROVE  LET objects == Linker!Range(Linker!Objects(g))
             exports == DOMAIN g.exports
             offsets == Linker!Range(Linker!OffsetReports(g))
         IN /\ Linker!LinkReports(g) \in Seq(ReportRecord)
            /\ Linker!Range(Linker!LinkReports(g)) =
                 offsets \cup Nowhere(g, "outer", objects, Linker!Outers(g)) \cup Nowhere(g, "super", exports, Linker!Supers(g))
            /\ Linker!Reports(g, "outer", Linker!Imports(g), Linker!Outers(g)) \in Seq(ReportRecord)
            /\ Linker!Range(Linker!Reports(g, "outer", Linker!Imports(g), Linker!Outers(g))) \subseteq Nowhere(g, "outer", objects, Linker!Outers(g))
            /\ Linker!Reports(g, "template", Linker!Exports(g), Linker!Templates(g)) \in Seq(ReportRecord)
            /\ Linker!Range(Linker!Reports(g, "template", Linker!Exports(g), Linker!Templates(g))) = Nowhere(g, "template", exports, Linker!Templates(g))
<1> DEFINE objects == Linker!Range(Linker!Objects(g))
           exports == DOMAIN g.exports
           imports == Linker!Range(Linker!Imports(g))
<1>1. /\ Linker!Objects(g) \in Seq(Int) /\ Linker!Imports(g) \in Seq(Int) /\ Linker!Exports(g) \in Seq(Int)
      /\ Linker!Range(Linker!Exports(g)) = exports /\ imports \subseteq objects
  BY ObjectsAreIndexes, TablesAreLists
<1>2. DOMAIN Linker!Outers(g) = objects /\ \A o \in objects : Linker!Outers(g)[o] \in Int
  BY OutersAreObjects DEF Linker!Outers
<1>3. /\ DOMAIN Linker!Supers(g) = exports /\ \A k \in exports : Linker!Supers(g)[k] \in Int
      /\ DOMAIN Linker!Templates(g) = exports /\ \A k \in exports : Linker!Templates(g)[k] \in Int
  BY TablesAreLists DEF Linker!Supers, Linker!Templates, ExportEntry
<1>4. "outer" \in Fields /\ "super" \in Fields /\ "template" \in Fields
  BY DEF Fields
<1> HIDE DEF objects, exports, imports
<1>5. /\ Linker!Reports(g, "outer", Linker!Objects(g), Linker!Outers(g)) \in Seq(ReportRecord)
      /\ Linker!Range(Linker!Reports(g, "outer", Linker!Objects(g), Linker!Outers(g))) = Nowhere(g, "outer", objects, Linker!Outers(g))
  <2>1. objects = Linker!Range(Linker!Objects(g))
    BY DEF objects
  <2> QED
    BY <1>1, <1>2, <1>4, <2>1, ReportsAreOfObjects
<1>6. /\ Linker!Reports(g, "super", Linker!Exports(g), Linker!Supers(g)) \in Seq(ReportRecord)
      /\ Linker!Range(Linker!Reports(g, "super", Linker!Exports(g), Linker!Supers(g))) = Nowhere(g, "super", exports, Linker!Supers(g))
  <2>1. PICK list, index : list = Linker!Exports(g) /\ index = Linker!Supers(g)
    OBVIOUS
  <2>2. /\ list \in Seq(Int) /\ Linker!Range(list) = exports /\ exports \subseteq DOMAIN index
        /\ \A k \in DOMAIN index : index[k] \in Int
    BY <1>1, <1>3, <2>1
  <2>3. /\ Linker!Reports(g, "super", list, index) \in Seq(ReportRecord)
        /\ Linker!Range(Linker!Reports(g, "super", list, index)) = Nowhere(g, "super", Linker!Range(list), index)
    BY ONLY <1>4, <2>2, ReportsAreOfObjects
  <2> QED
    BY <2>1, <2>2, <2>3
<1>7. /\ Linker!Reports(g, "template", Linker!Exports(g), Linker!Templates(g)) \in Seq(ReportRecord)
      /\ Linker!Range(Linker!Reports(g, "template", Linker!Exports(g), Linker!Templates(g))) = Nowhere(g, "template", exports, Linker!Templates(g))
  <2>1. PICK list, index : list = Linker!Exports(g) /\ index = Linker!Templates(g)
    OBVIOUS
  <2>2. /\ list \in Seq(Int) /\ Linker!Range(list) = exports /\ exports \subseteq DOMAIN index
        /\ \A k \in DOMAIN index : index[k] \in Int
    BY <1>1, <1>3, <2>1
  <2>3. /\ Linker!Reports(g, "template", list, index) \in Seq(ReportRecord)
        /\ Linker!Range(Linker!Reports(g, "template", list, index)) = Nowhere(g, "template", Linker!Range(list), index)
    BY ONLY <1>4, <2>2, ReportsAreOfObjects
  <2> QED
    BY <2>1, <2>2, <2>3
<1>8. /\ Linker!Reports(g, "outer", Linker!Imports(g), Linker!Outers(g)) \in Seq(ReportRecord)
      /\ Linker!Range(Linker!Reports(g, "outer", Linker!Imports(g), Linker!Outers(g))) = Nowhere(g, "outer", imports, Linker!Outers(g))
  <2>1. imports = Linker!Range(Linker!Imports(g))
    BY DEF imports
  <2> QED
    BY <1>1, <1>2, <1>4, <2>1, ReportsAreOfObjects
<1>9. Nowhere(g, "outer", imports, Linker!Outers(g)) \subseteq Nowhere(g, "outer", objects, Linker!Outers(g))
  BY <1>1 DEF Nowhere
<1>10. Linker!OffsetReports(g) \in Seq(ReportRecord)
  BY OffsetsAreReported
<1>11. /\ Linker!LinkReports(g) \in Seq(ReportRecord)
       /\ Linker!Range(Linker!LinkReports(g)) =
            Linker!Range(Linker!OffsetReports(g)) \cup Nowhere(g, "outer", objects, Linker!Outers(g)) \cup Nowhere(g, "super", exports, Linker!Supers(g))
  <2> DEFINE a == Linker!OffsetReports(g)
             b == Linker!Reports(g, "outer", Linker!Objects(g), Linker!Outers(g))
             d == Linker!Reports(g, "super", Linker!Exports(g), Linker!Supers(g))
  <2>1. Linker!LinkReports(g) = (a \o b) \o d
    BY DEF Linker!LinkReports
  <2>2. a \in Seq(ReportRecord) /\ b \in Seq(ReportRecord) /\ d \in Seq(ReportRecord)
    BY <1>5, <1>6, <1>10
  <2> HIDE DEF a, b, d
  <2>3. /\ (a \o b) \o d \in Seq(ReportRecord)
        /\ Linker!Range((a \o b) \o d) = Linker!Range(a) \cup Linker!Range(b) \cup Linker!Range(d)
    BY <2>2, ThreeHaveAll
  <2> QED
    BY <1>5, <1>6, <2>1, <2>3 DEF a, b, d
<1> QED
  BY <1>7, <1>8, <1>9, <1>11 DEF objects, exports

\* The exports that the map of dependencies has.
LEMMA DependingAreFirst ==
  ASSUME NEW g, IsGraph(g)
  PROVE  /\ Linker!Depending(g) = 1..Cardinality(Linker!Depending(g))
         /\ Linker!Depending(g) \subseteq 1..Len(g.depends) /\ Cardinality(Linker!Depending(g)) \in Nat
<1> DEFINE m == Len(g.exports)
           n == Len(g.depends)
           least == IF m <= n THEN m ELSE n
<1>1. m \in Nat /\ n \in Nat /\ DOMAIN g.exports = 1..m /\ DOMAIN g.depends = 1..n
  BY TablesAreLists
<1> HIDE DEF m, n
<1>2. Linker!Depending(g) = 1..least /\ least \in Nat /\ 1..least \subseteq 1..n
  BY <1>1 DEF Linker!Depending
<1> HIDE DEF least
<1>3. Cardinality(1..least) = least
  <2>1. least \in Int /\ 1 \in Int /\ (IF 1 > least THEN 0 ELSE least - 1 + 1) = least
    BY <1>2
  <2> QED
    BY <2>1, FS_Interval
<1> QED
  BY <1>2, <1>3 DEF n

\* All the diagnostics of a package, by their fields.
LEMMA DiagnosticsAre ==
  ASSUME NEW g, IsGraph(g)
  PROVE  LET objects == Linker!Range(Linker!Objects(g))
             exports == DOMAIN g.exports
             all == Linker!Range(Linker!Diagnostics(g))
         IN /\ {r \in all : r.field = "outer"} = Nowhere(g, "outer", objects, Linker!Outers(g))
            /\ {r \in all : r.field = "super"} = Nowhere(g, "super", exports, Linker!Supers(g))
            /\ {r \in all : r.field = "template"} = Nowhere(g, "template", exports, Linker!Templates(g))
            /\ {r \in all : r.field = "depends"} = UNION {Undone(g, k) : k \in Linker!Depending(g)}
<1> DEFINE objects == Linker!Range(Linker!Objects(g))
           exports == DOMAIN g.exports
           offsets == Linker!Range(Linker!OffsetReports(g))
           outer == Nowhere(g, "outer", objects, Linker!Outers(g))
           super == Nowhere(g, "super", exports, Linker!Supers(g))
           template == Nowhere(g, "template", exports, Linker!Templates(g))
           depends == UNION {Undone(g, k) : k \in Linker!Depending(g)}
           again == Linker!Range(Linker!Reports(g, "outer", Linker!Imports(g), Linker!Outers(g)))
           n == Cardinality(Linker!Depending(g))
           each == [k \in 1..n |-> Linker!DependencyReports(g, k)]
<1>1. /\ Linker!Depending(g) = 1..n /\ n \in Nat /\ \A k \in 1..n : k \in 1..Len(g.depends)
  BY DependingAreFirst
<1>2. \A k \in 1..n : Linker!DependencyReports(g, k) \in Seq(ReportRecord) /\ Linker!Range(Linker!DependencyReports(g, k)) = Undone(g, k)
  BY <1>1, DependenciesAreReported
<1> HIDE DEF n
<1>3. each \in Seq(Seq(ReportRecord)) /\ Len(each) = n /\ \A k \in 1..n : Linker!Range(each[k]) = Undone(g, k)
  <2>1. \A k \in 1..n : each[k] = Linker!DependencyReports(g, k)
    OBVIOUS
  <2>2. each \in [1..n -> Seq(ReportRecord)]
    BY <1>2
  <2>3. each \in Seq(Seq(ReportRecord)) /\ Len(each) = n
    BY <1>1, <2>2, IsASeq
  <2> QED
    BY <1>2, <2>1, <2>3
<1>4. Linker!Joined(each) \in Seq(ReportRecord) /\ Linker!Range(Linker!Joined(each)) = depends
  <2> HIDE DEF each
  <2>1. /\ Linker!Joined(each) \in Seq(ReportRecord)
        /\ Linker!Range(Linker!Joined(each)) = UNION {Linker!Range(each[k]) : k \in 1..Len(each)}
    BY <1>3, JoinedHasAll
  <2>2. {Linker!Range(each[k]) : k \in 1..n} = {Undone(g, k) : k \in 1..n}
    BY <1>3
  <2> QED
    BY <1>1, <1>3, <2>1, <2>2
<1>5. Linker!Range(Linker!Diagnostics(g)) = offsets \cup outer \cup super \cup template \cup depends
  <2> DEFINE a == Linker!LinkReports(g)
             b == Linker!Reports(g, "outer", Linker!Imports(g), Linker!Outers(g))
             d == Linker!Reports(g, "template", Linker!Exports(g), Linker!Templates(g))
             e == Linker!Joined(each)
  <2>1. Linker!Diagnostics(g) = a \o ((b \o d) \o e)
    <3>1. Linker!Diagnostics(g) = a \o Linker!PostLoadReports(g)
      BY DEF Linker!Diagnostics
    <3>2. Linker!PostLoadReports(g) = (b \o d) \o e
      BY SameCardinality DEF Linker!PostLoadReports, n
    <3> QED
      BY <3>1, <3>2
  <2>2. a \in Seq(ReportRecord) /\ b \in Seq(ReportRecord) /\ d \in Seq(ReportRecord)
    BY LinkIsReported
  <2>3. e \in Seq(ReportRecord)
    BY <1>4
  <2>4. Linker!Range(a) = offsets \cup outer \cup super
    BY LinkIsReported
  <2>5. Linker!Range(b) \subseteq outer /\ Linker!Range(d) = template
    BY LinkIsReported
  <2>6. Linker!Range(e) = depends
    BY <1>4
  <2> HIDE DEF a, b, d, e, outer, super, template, depends, offsets
  <2>7. PICK rest : rest = (b \o d) \o e
    OBVIOUS
  <2>10. rest \in Seq(ReportRecord) /\ Linker!Range(rest) = Linker!Range(b) \cup Linker!Range(d) \cup Linker!Range(e)
    BY <2>2, <2>3, <2>7, ThreeHaveAll
  <2>8. Linker!Range(a \o rest) = Linker!Range(a) \cup Linker!Range(rest)
    BY <2>2, <2>10, JoinedHasBoth
  <2> QED
    BY <2>1, <2>4, <2>5, <2>6, <2>7, <2>8, <2>10
<1>6. /\ \A r \in offsets : r.field = "serial_offset"
      /\ \A r \in outer : r.field = "outer"
      /\ \A r \in super : r.field = "super"
      /\ \A r \in template : r.field = "template"
      /\ \A r \in depends : r.field = "depends"
  BY OffsetsAreReported DEF Nowhere, Undone, Linker!Report
<1> HIDE DEF offsets, outer, super, template, depends
<1>7. /\ {r \in Linker!Range(Linker!Diagnostics(g)) : r.field = "outer"} = outer
      /\ {r \in Linker!Range(Linker!Diagnostics(g)) : r.field = "super"} = super
      /\ {r \in Linker!Range(Linker!Diagnostics(g)) : r.field = "template"} = template
      /\ {r \in Linker!Range(Linker!Diagnostics(g)) : r.field = "depends"} = depends
  BY <1>5, <1>6
<1> QED
  BY <1>7 DEF outer, super, template, depends

LEMMA ChildrenAre ==
  ASSUME NEW g, IsGraph(g), NEW x
  PROVE  LET objects == Linker!Range(Linker!Objects(g)) IN
           /\ Linker!Children(g, x) \in Seq(Int) /\ Sorted(Linker!Children(g, x))
           /\ Linker!Range(Linker!Children(g, x)) = {y \in objects : Linker!Outer(g, y) = x}
           /\ Linker!Range(Linker!RootObjects(g)) = {y \in objects : Linker!OuterIndex(g, y) = 0}
<1> DEFINE list == Linker!Objects(g)
           objects == Linker!Range(list)
           under == {y \in objects : Linker!Outer(g, y) = x}
           roots == {y \in objects : Linker!OuterIndex(g, y) = 0}
<1>1. list \in Seq(Int) /\ Sorted(list)
  BY ObjectsAreIndexes, ObjectsAreSorted
<1>2. Linker!Children(g, x) = Linker!Only(list, under) /\ Linker!RootObjects(g) = Linker!Only(list, roots)
  BY DEF Linker!Children, Linker!RootObjects
<1>3. under \subseteq objects /\ roots \subseteq objects
  OBVIOUS
<1> HIDE DEF under, roots, list
<1>4. /\ Linker!Only(list, under) \in Seq(Int) /\ Linker!Range(Linker!Only(list, under)) = objects \cap under
      /\ Linker!Range(Linker!Only(list, roots)) = objects \cap roots
  BY <1>1, OnlyHasTheSet
<1>5. Sorted(Linker!Only(list, under))
  BY <1>1, OnlyIsSorted
<1> QED
  BY <1>2, <1>3, <1>4, <1>5 DEF list, under, roots

\* Every object is a root, the child of one object, or reported.
LEMMA TreeIsAlwaysWhole ==
  ASSUME NEW g, IsGraph(g)
  PROVE  Linker!TreeIsWhole(g)
<1> DEFINE objects == Linker!Range(Linker!Objects(g))
           roots == Linker!Range(Linker!RootObjects(g))
           child(o) == {x \in objects : o \in Linker!Range(Linker!Children(g, x))}
           orphans == {o \in objects : o \notin roots /\ child(o) = {}}
           links == Linker!Range(Linker!LinkReports(g))
<1>1. \A o \in objects : o \in roots <=> Linker!OuterIndex(g, o) = 0
  BY ChildrenAre
<1>2. \A o \in objects : child(o) = {x \in objects : Linker!Outer(g, o) = x}
  BY ChildrenAre
<1>3. \A o \in objects : /\ Linker!Outer(g, o) \in {0} \cup objects
                         /\ Linker!Outer(g, o) = 0 <=> Linker!OuterIndex(g, o) \notin objects
                         /\ Linker!Unresolved(g, Linker!OuterIndex(g, o)) <=> Linker!OuterIndex(g, o) # 0 /\ Linker!Outer(g, o) = 0
  BY OutersAreObjects
<1>4. 0 \notin objects
  BY IndexIsObject
<1>5. \A o \in objects : (\E r \in links : r.field = "outer" /\ r.of = o) <=> Linker!Unresolved(g, Linker!OuterIndex(g, o))
  <2> DEFINE offsets == Linker!Range(Linker!OffsetReports(g))
             outer == Nowhere(g, "outer", objects, Linker!Outers(g))
             super == Nowhere(g, "super", DOMAIN g.exports, Linker!Supers(g))
  <2>1. links = offsets \cup outer \cup super
    BY LinkIsReported
  <2>2. (\A r \in offsets : r.field # "outer") /\ (\A r \in super : r.field # "outer")
    BY OffsetsAreReported DEF Nowhere, Linker!Report
  <2>3. \A o \in objects : Linker!Outers(g)[o] = Linker!OuterIndex(g, o)
    BY DEF Linker!Outers
  <2> HIDE DEF objects
  <2>4. outer = {Linker!Report("outer", o, Linker!Outers(g)[o]) : o \in {x \in objects : Linker!Unresolved(g, Linker!Outers(g)[x])}}
    BY DEF Nowhere
  <2>5. \A o, t : Linker!Report("outer", o, t).field = "outer" /\ Linker!Report("outer", o, t).of = o
    BY DEF Linker!Report
  <2> HIDE DEF links, offsets, outer, super
  <2>6. ASSUME NEW o \in objects, NEW r \in links, r.field = "outer", r.of = o
        PROVE  Linker!Unresolved(g, Linker!OuterIndex(g, o))
    <3>1. r \in outer
      BY <2>1, <2>2, <2>6
    <3>2. PICK x \in objects : Linker!Unresolved(g, Linker!Outers(g)[x]) /\ r = Linker!Report("outer", x, Linker!Outers(g)[x])
      BY <2>4, <3>1
    <3> QED
      BY <2>3, <2>5, <2>6, <3>2
  <2>7. ASSUME NEW o \in objects, Linker!Unresolved(g, Linker!OuterIndex(g, o))
        PROVE  \E r \in links : r.field = "outer" /\ r.of = o
    <3>1. Linker!Report("outer", o, Linker!Outers(g)[o]) \in outer
      BY <2>3, <2>4, <2>7
    <3> QED
      BY <2>1, <2>5, <3>1
  <2> QED
    BY <2>6, <2>7
<1>6. \A x \in objects : Sorted(Linker!Children(g, x)) /\ DOMAIN Linker!Children(g, x) = 1..Len(Linker!Children(g, x))
  BY ChildrenAre
<1> HIDE DEF objects, roots, links
<1>7. ASSUME NEW o \in objects
      PROVE  /\ Linker!Cardinality(child(o)) <= 1
             /\ o \in roots => child(o) = {}
             /\ o \in orphans <=> \E r \in links : r.field = "outer" /\ r.of = o
  <2>1. CASE Linker!Outer(g, o) = 0
    <3>1. child(o) = {}
      BY <1>2, <1>4, <2>1
    <3>2. Linker!Cardinality(child(o)) = 0
      BY <3>1, SameCardinality, FS_EmptySet
    <3> QED
      BY <1>1, <1>3, <1>5, <2>1, <3>1, <3>2
  <2>2. CASE Linker!Outer(g, o) # 0
    <3>1. child(o) = {Linker!Outer(g, o)}
      BY <1>2, <1>3, <2>2
    <3>2. Linker!Cardinality(child(o)) = 1
      BY <3>1, SameCardinality, FS_Singleton
    <3>3. o \notin roots
      BY <1>1, <1>3, <1>4, <2>2
    <3>4. o \notin orphans /\ ~Linker!Unresolved(g, Linker!OuterIndex(g, o))
      BY <1>3, <2>2, <3>1
    <3> QED
      BY <1>5, <3>2, <3>3, <3>4
  <2> QED
    BY <2>1, <2>2
<1>8. ASSUME NEW x \in objects
      PROVE  \A i, j \in DOMAIN Linker!Children(g, x) :
               i < j => Linker!Children(g, x)[i] < 0 \/ (Linker!Children(g, x)[j] > 0 /\ Linker!Children(g, x)[i] < Linker!Children(g, x)[j])
  BY <1>6 DEF Sorted
<1> QED
  BY <1>7, <1>8 DEF Linker!TreeIsWhole, objects, roots, links

\* The linker resolves an index as the tables do.
LEMMA LinkerAgrees ==
  ASSUME NEW g, IsGraph(g), NEW i \in Int
  PROVE  LET linked == Linker!ResolveParentWithLinker(g, i)
             listed == Header!ResolveParentClass(i, g.imports, g.exports)
         IN linked.error = listed.error /\ (Linker!IsObject(g, i) => linked.name = listed.name)
<1>1. /\ Linker!Resolve(g, i) = IF Linker!IsObject(g, i) THEN i ELSE 0
      /\ Linker!Unresolved(g, i) <=> i # 0 /\ ~Linker!IsObject(g, i)
      /\ Linker!IsObject(g, i) => i # 0
  BY IndexIsObject DEF Linker!Resolve, Linker!Unresolved
<1>2. Linker!IsObject(g, i) <=> (i < 0 /\ -i \in DOMAIN g.imports) \/ (i > 0 /\ i \in DOMAIN g.exports)
  BY TablesAreLists DEF Linker!IsObject
<1>3. Header!ValidIndex(i, g.imports, g.exports) <=> i = 0 \/ Linker!IsObject(g, i)
  BY <1>2 DEF Header!ValidIndex, Header!IsImport, Header!IsExport
<1>4. Linker!IsObject(g, i) => Header!Object(i, g.imports, g.exports) = Linker!Entry(g, i).name
  <2>1. CASE i < 0
    <3> SUFFICES ASSUME Linker!IsObject(g, i) PROVE Header!Object(i, g.imports, g.exports) = Linker!Entry(g, i).name
      OBVIOUS
    <3>1. -i \in DOMAIN g.imports
      BY <1>2, <2>1
    <3>2. Linker!Entry(g, i) = g.imports[-i]
      BY <2>1 DEF Linker!Entry
    <3>3. (Header!IsImport(i) /\ -i \in DOMAIN g.imports) /\ ~(Header!IsExport(i) /\ i \in DOMAIN g.exports)
      BY <2>1, <3>1 DEF Header!IsImport, Header!IsExport
    <3>4. Header!Object(i, g.imports, g.exports) = g.imports[-i].name
      BY <3>3 DEF Header!Object
    <3> QED
      BY <3>2, <3>4
  <2>2. CASE ~(i < 0)
    <3> SUFFICES ASSUME Linker!IsObject(g, i) PROVE Header!Object(i, g.imports, g.exports) = Linker!Entry(g, i).name
      OBVIOUS
    <3>1. i > 0 /\ i \in DOMAIN g.exports
      BY <1>2, <2>2
    <3>2. Linker!Entry(g, i) = g.exports[i]
      BY <2>2 DEF Linker!Entry
    <3>3. ~(Header!IsImport(i) /\ -i \in DOMAIN g.imports) /\ (Header!IsExport(i) /\ i \in DOMAIN g.exports)
      BY <2>2, <3>1 DEF Header!IsImport, Header!IsExport
    <3>4. Header!Object(i, g.imports, g.exports) = g.exports[i].name
      BY <3>3 DEF Header!Object
    <3> QED
      BY <3>2, <3>4
  <2> QED
    BY <2>1, <2>2
<1>5. Header!ResolveParentClass(i, g.imports, g.exports).error <=> i # 0 /\ ~Linker!IsObject(g, i)
  BY <1>3 DEF Header!ResolveParentClass
<1>6. Linker!ResolveParentWithLinker(g, i).error <=> i # 0 /\ ~Linker!IsObject(g, i)
  BY <1>1 DEF Linker!ResolveParentWithLinker
<1>7. Linker!IsObject(g, i) => Linker!ResolveParentWithLinker(g, i).name = Header!ResolveParentClass(i, g.imports, g.exports).name
  BY <1>1, <1>3, <1>4 DEF Header!ResolveParentClass, Linker!ResolveParentWithLinker, Linker!ResolveClassNameWithLinker
<1>8. Linker!ResolveParentWithLinker(g, i).error \in BOOLEAN /\ Header!ResolveParentClass(i, g.imports, g.exports).error \in BOOLEAN
  BY DEF Linker!ResolveParentWithLinker, Header!ResolveParentClass, Linker!Unresolved
<1> QED
  BY <1>5, <1>6, <1>7, <1>8

-----------------------------------------------------------------------------
(* The linker: nothing is lost silently.                                    *)

LEMMA TriplesAre ==
  ASSUME NEW g, NEW all, NEW field, NEW objects, NEW index,
         {r \in all : r.field = field} = Nowhere(g, field, objects, index)
  PROVE  LET reported == {<<r.field, r.of, r.target>> : r \in all} IN
         {t \in reported : t[1] = field} = {<<field, o, index[o]>> : o \in {x \in objects : Linker!Unresolved(g, index[x])}}
<1> DEFINE Triple(r) == <<r.field, r.of, r.target>>
           reported == {Triple(r) : r \in all}
           those == {<<field, o, index[o]>> : o \in {x \in objects : Linker!Unresolved(g, index[x])}}
<1>1. \A r : Triple(r)[1] = r.field
  OBVIOUS
<1>2. \A o : Triple(Linker!Report(field, o, index[o])) = <<field, o, index[o]>> /\ Linker!Report(field, o, index[o]).field = field
  BY DEF Linker!Report
<1>3. Nowhere(g, field, objects, index) = {Linker!Report(field, o, index[o]) : o \in {x \in objects : Linker!Unresolved(g, index[x])}}
  BY DEF Nowhere
<1>4. ASSUME NEW t \in reported, t[1] = field PROVE t \in those
  <2>1. PICK r \in all : t = Triple(r)
    OBVIOUS
  <2> HIDE DEF Triple
  <2>2. r \in Nowhere(g, field, objects, index)
    BY <1>1, <1>4, <2>1
  <2>3. PICK o \in {x \in objects : Linker!Unresolved(g, index[x])} : r = Linker!Report(field, o, index[o])
    BY <1>3, <2>2
  <2> QED
    BY <1>2, <2>1, <2>3
<1>5. ASSUME NEW o \in {x \in objects : Linker!Unresolved(g, index[x])}
      PROVE  <<field, o, index[o]>> \in reported /\ <<field, o, index[o]>>[1] = field
  <2>1. Linker!Report(field, o, index[o]) \in all
    BY <1>3
  <2> HIDE DEF Triple
  <2> QED
    BY <1>2, <2>1
<1> HIDE DEF reported
<1>6. {t \in reported : t[1] = field} = those
  BY <1>4, <1>5
<1> QED
  BY <1>6 DEF reported

\* The dependencies of one export that are reported.
LEMMA LostAre ==
  ASSUME NEW g, IsGraph(g), NEW k \in Linker!Depending(g)
  PROVE  LET reported == {<<r.field, r.of, r.target>> : r \in Linker!Range(Linker!Diagnostics(g))} IN
         {t[3] : t \in {u \in reported : u[1] = "depends" /\ u[2] = k}} = {i \in Linker!Range(g.depends[k]) : Linker!Unresolved(g, i)}
<1> DEFINE all == Linker!Range(Linker!Diagnostics(g))
           Triple(r) == <<r.field, r.of, r.target>>
           reported == {Triple(r) : r \in all}
           those == {i \in Linker!Range(g.depends[k]) : Linker!Unresolved(g, i)}
           lost == {t[3] : t \in {u \in reported : u[1] = "depends" /\ u[2] = k}}
<1>1. {r \in all : r.field = "depends"} = UNION {Undone(g, j) : j \in Linker!Depending(g)}
  BY DiagnosticsAre
<1>2. \A r : Triple(r)[1] = r.field /\ Triple(r)[2] = r.of /\ Triple(r)[3] = r.target
  OBVIOUS
<1>3. \A j, i : LET r == Linker!Report("depends", j, i) IN r.field = "depends" /\ r.of = j /\ r.target = i
  BY DEF Linker!Report
<1>4. \A j : Undone(g, j) = {Linker!Report("depends", j, i) : i \in {x \in Linker!Range(g.depends[j]) : Linker!Unresolved(g, x)}}
  BY DEF Undone
<1> HIDE DEF all
<1>5. ASSUME NEW t \in reported, t[1] = "depends", t[2] = k PROVE t[3] \in those
  <2>1. PICK r \in all : t = Triple(r)
    OBVIOUS
  <2> HIDE DEF Triple
  <2>2. r.field = "depends" /\ r.of = k /\ t[3] = r.target
    BY <1>2, <1>5, <2>1
  <2>3. PICK j \in Linker!Depending(g) : r \in Undone(g, j)
    BY <1>1, <2>2
  <2>4. PICK i \in {x \in Linker!Range(g.depends[j]) : Linker!Unresolved(g, x)} : r = Linker!Report("depends", j, i)
    BY <1>4, <2>3
  <2>5. j = k /\ t[3] = i
    BY <1>3, <2>2, <2>4
  <2> QED
    BY <2>4, <2>5
<1>6. ASSUME NEW i \in those PROVE i \in lost
  <2> DEFINE r == Linker!Report("depends", k, i)
  <2>1. r \in all
    BY <1>1, <1>3, <1>4
  <2>2. r.field = "depends" /\ r.of = k /\ r.target = i
    BY <1>3
  <2> HIDE DEF r, Triple
  <2>3. Triple(r) \in reported /\ Triple(r)[1] = "depends" /\ Triple(r)[2] = k /\ Triple(r)[3] = i
    BY <1>2, <2>1, <2>2
  <2> QED
    BY <2>3
<1> HIDE DEF reported, those
<1>7. lost = those
  BY <1>5, <1>6
<1> QED
  BY <1>7 DEF reported, those, all

\* A name behind which there is a hash is another name without it.
LEMMA HashedIsShortened ==
  ASSUME NEW name \in Seq(Int), Linker!Hashed(name)
  PROVE  Linker!Normalize(name) # name
<1> DEFINE s == Linker!Suffix(name)
<1>1. \E i \in DOMAIN name : name[i] = Underscore /\ \A j \in i + 1..Len(name) : name[j] \in Digits
  BY DEF Linker!Hashed
<1>2. s \in DOMAIN name
  BY <1>1 DEF Linker!Suffix
<1> HIDE DEF s
<1>3. Len(name) \in Nat /\ s \in 1..Len(name)
  BY <1>2
<1>4. Len(SubSeq(name, 1, s - 1)) = s - 1
  BY <1>3
<1>5. SubSeq(name, 1, s - 1) # name
  BY <1>3, <1>4
<1> QED
  BY <1>5 DEF Linker!Normalize, s

LEMMA NothingIsEverLostSilently ==
  ASSUME NEW g, IsGraph(g)
  PROVE  Linker!NothingIsLostSilently(g)
<1> DEFINE all == Linker!Range(Linker!Diagnostics(g))
           reported == {<<r.field, r.of, r.target>> : r \in all}
           objects == Linker!Range(Linker!Objects(g))
           exports == DOMAIN g.exports
<1>1. /\ {r \in all : r.field = "outer"} = Nowhere(g, "outer", objects, Linker!Outers(g))
      /\ {r \in all : r.field = "super"} = Nowhere(g, "super", exports, Linker!Supers(g))
      /\ {r \in all : r.field = "template"} = Nowhere(g, "template", exports, Linker!Templates(g))
  BY DiagnosticsAre
<1>2. {t \in reported : t[1] = "outer"} =
        {<<"outer", o, Linker!OuterIndex(g, o)>> : o \in {x \in objects : Linker!OuterIndex(g, x) # 0 /\ Linker!Outer(g, x) = 0}}
  <2>1. {t \in reported : t[1] = "outer"} =
          {<<"outer", o, Linker!Outers(g)[o]>> : o \in {x \in objects : Linker!Unresolved(g, Linker!Outers(g)[x])}}
    <3>1. PICK index, set : index = Linker!Outers(g) /\ set = objects
      OBVIOUS
    <3> HIDE DEF all, objects, exports
    <3>2. {r \in all : r.field = "outer"} = Nowhere(g, "outer", set, index)
      BY <1>1, <3>1
    <3>3. {t \in reported : t[1] = "outer"} = {<<"outer", o, index[o]>> : o \in {x \in set : Linker!Unresolved(g, index[x])}}
      BY ONLY <3>2, TriplesAre
    <3> QED
      BY <3>1, <3>3
  <2>2. \A o \in objects : /\ Linker!Outers(g)[o] = Linker!OuterIndex(g, o)
                           /\ Linker!Unresolved(g, Linker!OuterIndex(g, o)) <=> Linker!OuterIndex(g, o) # 0 /\ Linker!Outer(g, o) = 0
    BY OutersAreObjects DEF Linker!Outers
  <2> HIDE DEF objects, reported
  <2> QED
    BY <2>1, <2>2
<1>3. {t \in reported : t[1] = "super"} =
        {<<"super", k, g.exports[k].super>> : k \in {x \in exports : g.exports[x].super # 0 /\ Linker!Super(g, x) = 0}}
  <2>1. {t \in reported : t[1] = "super"} =
          {<<"super", k, Linker!Supers(g)[k]>> : k \in {x \in exports : Linker!Unresolved(g, Linker!Supers(g)[x])}}
    <3>1. PICK index, set : index = Linker!Supers(g) /\ set = exports
      OBVIOUS
    <3> HIDE DEF all, objects, exports
    <3>2. {r \in all : r.field = "super"} = Nowhere(g, "super", set, index)
      BY <1>1, <3>1
    <3>3. {t \in reported : t[1] = "super"} = {<<"super", o, index[o]>> : o \in {x \in set : Linker!Unresolved(g, index[x])}}
      BY ONLY <3>2, TriplesAre
    <3> QED
      BY <3>1, <3>3
  <2>2. \A k \in exports : g.exports[k].super \in Int
    BY TablesAreLists DEF ExportEntry
  <2>3. \A k \in exports : /\ Linker!Supers(g)[k] = g.exports[k].super
                           /\ Linker!Unresolved(g, g.exports[k].super) <=> g.exports[k].super # 0 /\ Linker!Super(g, k) = 0
    BY <2>2, IndexIsObject DEF Linker!Supers, Linker!Super
  <2> HIDE DEF exports, reported
  <2> QED
    BY <2>1, <2>3
<1>4. {t \in reported : t[1] = "template"} =
        {<<"template", k, g.exports[k].template>> : k \in {x \in exports : g.exports[x].template # 0 /\ Linker!Template(g, x) = 0}}
  <2>1. {t \in reported : t[1] = "template"} =
          {<<"template", k, Linker!Templates(g)[k]>> : k \in {x \in exports : Linker!Unresolved(g, Linker!Templates(g)[x])}}
    <3>1. PICK index, set : index = Linker!Templates(g) /\ set = exports
      OBVIOUS
    <3> HIDE DEF all, objects, exports
    <3>2. {r \in all : r.field = "template"} = Nowhere(g, "template", set, index)
      BY <1>1, <3>1
    <3>3. {t \in reported : t[1] = "template"} = {<<"template", o, index[o]>> : o \in {x \in set : Linker!Unresolved(g, index[x])}}
      BY ONLY <3>2, TriplesAre
    <3> QED
      BY <3>1, <3>3
  <2>2. \A k \in exports : g.exports[k].template \in Int
    BY TablesAreLists DEF ExportEntry
  <2>3. \A k \in exports : /\ Linker!Templates(g)[k] = g.exports[k].template
                           /\ Linker!Unresolved(g, g.exports[k].template) <=> g.exports[k].template # 0 /\ Linker!Template(g, k) = 0
    BY <2>2, IndexIsObject DEF Linker!Templates, Linker!Template
  <2> HIDE DEF exports, reported
  <2> QED
    BY <2>1, <2>3
<1>5. ASSUME NEW k \in Linker!Depending(g)
      PROVE  LET lost == {t[3] : t \in {u \in reported : u[1] = "depends" /\ u[2] = k}} IN
             /\ Linker!Range(g.depends[k]) \ {0} = Linker!Range(Linker!Dependencies(g, k)) \cup lost
             /\ \A i \in Linker!Range(Linker!Dependencies(g, k)) : Linker!IsObject(g, i)
             /\ \A i \in lost : ~Linker!IsObject(g, i)
  <2> DEFINE list == g.depends[k]
             found == {i \in Linker!Range(list) : Linker!Resolve(g, i) # 0}
             lost == {i \in Linker!Range(list) : Linker!Unresolved(g, i)}
  <2>1. list \in Seq(Int)
    BY DependingAreFirst, TablesAreLists
  <2>2. Linker!Dependencies(g, k) = Linker!Only(list, found)
    BY DEF Linker!Dependencies
  <2>3. \A i \in Linker!Range(list) : i \in Int
    BY <2>1 DEF Linker!Range
  <2>4. {t[3] : t \in {u \in reported : u[1] = "depends" /\ u[2] = k}} = lost
    BY LostAre
  <2>5. \A i \in Linker!Range(list) : /\ Linker!Resolve(g, i) = 0 <=> ~Linker!IsObject(g, i)
                                      /\ Linker!IsObject(g, i) => i # 0
                                      /\ Linker!Unresolved(g, i) <=> i # 0 /\ ~Linker!IsObject(g, i)
    BY <2>3, IndexIsObject
  <2>6. Linker!Range(Linker!Only(list, found)) = found
    <3>1. found \subseteq Linker!Range(list)
      OBVIOUS
    <3> HIDE DEF found, list
    <3>2. Linker!Range(Linker!Only(list, found)) = Linker!Range(list) \cap found
      BY <2>1, OnlyHasTheSet
    <3> QED
      BY <3>1, <3>2
  <2>7. /\ Linker!Range(list) \ {0} = found \cup lost
        /\ \A i \in found : Linker!IsObject(g, i)
        /\ \A i \in lost : ~Linker!IsObject(g, i)
    BY <2>5
  <2> HIDE DEF found, lost, list, reported
  <2> QED
    BY <2>2, <2>4, <2>6, <2>7 DEF list
<1>6. \A k \in exports : Linker!Placed(g, k)[1] \in 0..g.size
  <2>1. g.size \in Nat
    BY DEF IsGraph
  <2> QED
    BY <2>1 DEF Linker!Placed
<1>7. ASSUME NEW k \in DOMAIN g.imports \ Linker!ImportErrors(g)
      PROVE  /\ g.imports[k].class # <<>>
             /\ Linker!Outer(g, -k) = 0 =>
                  -k \in Linker!Range(Linker!RootObjects(g)) \/ Linker!Normalize(g.imports[k].name) # g.imports[k].name
  <2>1. ~Linker!ImportError(g, k)
    BY DEF Linker!ImportErrors
  <2>2. g.imports[k].class # <<>> /\ (Linker!Unresolved(g, g.imports[k].outer) => Linker!Hashed(g.imports[k].name))
    BY <2>1 DEF Linker!ImportError
  <2>3. k \in 1..Len(g.imports) /\ Len(g.imports) \in Nat /\ g.imports[k] \in ImportEntry
    BY TablesAreLists
  <2>4. -k \in objects
    BY <2>3, ObjectsAreIndexes
  <2>5. Linker!OuterIndex(g, -k) = g.imports[k].outer
    <3>1. -k < 0 /\ -(-k) = k
      BY <2>3
    <3> QED
      BY <3>1 DEF Linker!OuterIndex, Linker!Entry
  <2>6. g.imports[k].name \in Seq(Int)
    BY <2>3 DEF ImportEntry, Text
  <2>7. Linker!Outer(g, -k) = 0 /\ g.imports[k].outer # 0 => Linker!Unresolved(g, g.imports[k].outer)
    BY <2>4, <2>5, OutersAreObjects
  <2>8. g.imports[k].outer = 0 => -k \in Linker!Range(Linker!RootObjects(g))
    BY <2>4, <2>5, ChildrenAre
  <2> QED
    BY <2>2, <2>6, <2>7, <2>8, HashedIsShortened
<1> HIDE DEF objects, exports, reported, all
<1> QED
  BY <1>2, <1>3, <1>4, <1>5, <1>6, <1>7 DEF Linker!NothingIsLostSilently, reported, objects, exports, all

-----------------------------------------------------------------------------
(* The linker: full names.                                                  *)

Marks == {"circular", "import", "package"}
FullNames == [head : [what : Marks, name : Text], names : Seq(Text)]
Naming(g, f, x, visited) ==
  IF x \in visited THEN [head |-> Linker!Before("circular", <<Linker!Cardinality(visited)>>), names |-> <<>>]
  ELSE IF Linker!Outer(g, x) # 0 THEN Linker!Under(f[visited \cup {x}][Linker!Outer(g, x)], g, x)
  ELSE [head |-> Linker!Own(g, x), names |-> <<Linker!Entry(g, x).name>>]
Named(g, objects, f) == f = [visited \in SUBSET objects |-> [x \in objects |-> Naming(g, f, x, visited)]]

LEMMA NumberOfObjects ==
  ASSUME NEW g, IsGraph(g)
  PROVE  LET objects == Linker!Range(Linker!Objects(g)) IN
           /\ IsFiniteSet(objects) /\ Cardinality(objects) \in Nat
           /\ Len(Linker!Objects(g)) \in Nat /\ Cardinality(objects) <= Len(Linker!Objects(g))
<1> DEFINE list == Linker!Objects(g)
           n == Len(list)
           objects == Linker!Range(list)
           f == [i \in 1..n |-> list[i]]
<1>1. list \in Seq(Int) /\ n \in Nat
  <2>1. list \in Seq(Int)
    BY ObjectsAreIndexes
  <2> HIDE DEF list
  <2> QED
    BY <2>1
<1>2. objects = {list[i] : i \in 1..n}
  <2> HIDE DEF list
  <2> QED
    BY <1>1 DEF Linker!Range
<1> HIDE DEF objects, list
<1>3. f \in [1..n -> objects] /\ \A x \in objects : \E i \in 1..n : f[i] = x
  BY <1>2
<1>4. f \in Surjection(1..n, objects)
  BY <1>3 DEF Surjection
<1> HIDE DEF f, n
<1>5. IsFiniteSet(1..n) /\ Cardinality(1..n) = n
  BY <1>1, FS_Interval
<1>6. IsFiniteSet(objects) /\ Cardinality(objects) <= n
  BY <1>4, <1>5, FS_Surjection
<1>7. Cardinality(objects) \in Nat
  BY <1>6, FS_CardinalityType
<1> QED
  BY <1>1, <1>6, <1>7 DEF n, objects, list

LEMMA EntryHasAName ==
  ASSUME NEW g, IsGraph(g), NEW o \in Linker!Range(Linker!Objects(g))
  PROVE  /\ Linker!Entry(g, o).name \in Text
         /\ Linker!Own(g, o) \in [what : {"import", "package"}, name : Text]
<1> DEFINE m == Len(g.imports)
           n == Len(g.exports)
<1>1. m \in Nat /\ n \in Nat /\ o \in {-k : k \in 1..m} \cup 1..n
  BY ObjectsAreIndexes, TablesAreLists
<1>2. <<>> \in Text
  BY DEF Text
<1>3. CASE o < 0
  <2>1. g.imports[-o] \in ImportEntry
    <3>1. -o \in 1..m
      BY <1>1, <1>3
    <3> QED
      BY <3>1, TablesAreLists
  <2>2. g.imports[-o].name \in Text /\ g.imports[-o].package \in Text
    BY <2>1 DEF ImportEntry
  <2>3. Linker!Normalize(g.imports[-o].package) \in Text
    <3> DEFINE path == g.imports[-o].package
               s == Linker!Suffix(path)
    <3>1. path \in Seq(Int)
      BY <2>2 DEF Text
    <3>2. Linker!Hashed(path) => s \in DOMAIN path
      BY DEF Linker!Hashed, Linker!Suffix
    <3> HIDE DEF path, s
    <3>3. Linker!Hashed(path) => SubSeq(path, 1, s - 1) \in Seq(Int)
      BY <3>1, <3>2
    <3>4. Linker!Normalize(path) \in Seq(Int)
      BY <3>1, <3>3 DEF Linker!Normalize, s
    <3> QED
      BY <3>4 DEF Text, path
  <2> QED
    BY <1>2, <1>3, <2>2, <2>3 DEF Linker!Entry, Linker!Own, Linker!Before
<1>4. CASE ~(o < 0)
  <2>1. o \in 1..n
    BY <1>1, <1>4
  <2>2. g.exports[o].name \in Text
    BY <2>1, TablesAreLists DEF ExportEntry
  <2> QED
    BY <1>2, <1>4, <2>2 DEF Linker!Entry, Linker!Own, Linker!Before
<1> QED
  BY <1>3, <1>4

LEMMA NamingGivesNames ==
  ASSUME NEW g, IsGraph(g), NEW objects, objects = Linker!Range(Linker!Objects(g)),
         NEW f \in [SUBSET objects -> [objects -> FullNames]], NEW x \in objects, NEW visited \in SUBSET objects
  PROVE  Naming(g, f, x, visited) \in FullNames
<1>1. CASE x \in visited
  <2>1. Cardinality(visited) \in Nat
    BY NumberOfObjects, FS_Subset, FS_CardinalityType
  <2>2. Linker!Cardinality(visited) \in Int
    BY <2>1, SameCardinality
  <2>3. <<Linker!Cardinality(visited)>> \in Text /\ <<>> \in Seq(Text)
    BY <2>2 DEF Text
  <2> QED
    BY <1>1, <2>3 DEF Naming, FullNames, Marks, Linker!Before
<1>2. CASE x \notin visited /\ Linker!Outer(g, x) # 0
  <2>1. Linker!Outer(g, x) \in objects
    BY <1>2, OutersAreObjects
  <2>2. visited \cup {x} \in SUBSET objects
    OBVIOUS
  <2>3. PICK above \in FullNames : above = f[visited \cup {x}][Linker!Outer(g, x)]
    BY <2>1, <2>2
  <2>4. Append(above.names, Linker!Entry(g, x).name) \in Seq(Text)
    <3>1. above.names \in Seq(Text) /\ Linker!Entry(g, x).name \in Text
      BY EntryHasAName DEF FullNames
    <3> QED
      BY <3>1
  <2>5. Linker!Under(above, g, x) \in FullNames
    BY <2>4 DEF Linker!Under, FullNames
  <2> QED
    BY <1>2, <2>3, <2>5 DEF Naming
<1>3. CASE x \notin visited /\ Linker!Outer(g, x) = 0
  <2>1. Linker!Own(g, x) \in [what : Marks, name : Text]
    BY EntryHasAName DEF Marks
  <2>2. <<Linker!Entry(g, x).name>> \in Seq(Text)
    BY EntryHasAName
  <2> QED
    BY <1>3, <2>1, <2>2 DEF Naming, FullNames
<1> QED
  BY <1>1, <1>2, <1>3

\* The names that are n outers deep at most are settled after n rounds, and no
\* name is deeper than there are objects that have not been visited.
LEMMA NamesExist ==
  ASSUME NEW g, IsGraph(g), NEW objects, objects = Linker!Range(Linker!Objects(g))
  PROVE  \E f \in [SUBSET objects -> [objects -> FullNames]] : Named(g, objects, f)
<1> DEFINE V == [SUBSET objects -> [objects -> FullNames]]
           N == Cardinality(objects) + 2
           none == [head |-> Linker!Before("package", <<>>), names |-> <<>>]
           start == [visited \in SUBSET objects |-> [x \in objects |-> none]]
           Round(f) == [visited \in SUBSET objects |-> [x \in objects |-> Naming(g, f, x, visited)]]
           h == [y \in (1..N) \X V |-> Round(y[2])]
<1>1. N \in Nat /\ IsFiniteSet(objects)
  BY NumberOfObjects
<1>2. start \in V
  <2>1. none \in FullNames
    BY DEF FullNames, Marks, Text, Linker!Before
  <2> HIDE DEF none
  <2> QED
    BY <2>1
<1> HIDE DEF N, start
<1>3. ASSUME NEW f \in V PROVE Round(f) \in V
  <2>1. \A v \in SUBSET objects, x \in objects : Naming(g, f, x, v) \in FullNames
    BY NamingGivesNames
  <2> QED
    BY <2>1
<1>4. h \in [(1..N) \X V -> V]
  <2> HIDE DEF V, Round
  <2> QED
    BY <1>3
<1>5. \A k \in 1..N : \A f \in V : h[<<k, f>>] = Round(f)
  <2> HIDE DEF V, Round
  <2> QED
    OBVIOUS
<1>6. HasRecursion(V, start, N, h)
  <2> HIDE DEF V, h
  <2> QED
    BY ONLY <1>1, <1>2, <1>4, RecursiveFunction
<1> HIDE DEF h
<1>7. PICK a \in [0..N -> V] : a[0] = start /\ \A k \in 1..N : a[k] = h[<<k, a[k - 1]>>]
  <2> HIDE DEF V
  <2> QED
    BY ONLY <1>6 DEF HasRecursion
<1>8. \A k \in 1..N : a[k] = Round(a[k - 1]) /\ a[k - 1] \in V
  <2> HIDE DEF V, Round
  <2>1. \A k \in 1..N : k - 1 \in 0..N
    BY <1>1
  <2> QED
    BY <1>5, <1>7, <2>1
<1>9. \A k \in 1..N : \A v \in SUBSET objects, x \in objects : a[k][v][x] = Naming(g, a[k - 1], x, v)
  <2> SUFFICES ASSUME NEW k \in 1..N, NEW v \in SUBSET objects, NEW x \in objects
               PROVE  a[k][v][x] = Naming(g, a[k - 1], x, v)
    OBVIOUS
  <2>1. PICK last : last = a[k - 1]
    OBVIOUS
  <2>2. a[k] = Round(last)
    <3> HIDE DEF V, Round
    <3> QED
      BY <1>8, <2>1
  <2>3. Round(last)[v][x] = Naming(g, last, x, v)
    OBVIOUS
  <2> QED
    BY <2>1, <2>2, <2>3
<1> HIDE DEF Round
<1> DEFINE Settled(k) == \A v \in SUBSET objects, x \in objects :
                           Cardinality(objects \ v) < k => a[k + 1][v][x] = a[k][v][x]
           P == {k \in Nat : k + 1 <= N => Settled(k)}
<1>10. \A v \in SUBSET objects : IsFiniteSet(objects \ v) /\ Cardinality(objects \ v) \in Nat
  BY <1>1, FS_Difference, FS_CardinalityType
<1>11. 0 \in P
  <2>1. \A size \in Nat : ~(size < 0)
    OBVIOUS
  <2>2. Settled(0)
    BY <1>10, <2>1
  <2> QED
    BY <2>2
<1>12. ASSUME NEW k \in P PROVE k + 1 \in P
  <2>0. k \in Nat /\ k + 1 \in Nat /\ (k + 1 <= N => Settled(k))
    <3> HIDE DEF Settled
    <3> QED
      OBVIOUS
  <2> SUFFICES ASSUME (k + 1) + 1 <= N PROVE Settled(k + 1)
    BY <2>0
  <2> SUFFICES ASSUME NEW v \in SUBSET objects, NEW x \in objects, Cardinality(objects \ v) < k + 1
               PROVE  a[(k + 1) + 1][v][x] = a[k + 1][v][x]
    OBVIOUS
  <2>1. k \in Nat /\ k + 1 \in 1..N /\ (k + 1) + 1 \in 1..N /\ (k + 1) - 1 = k /\ ((k + 1) + 1) - 1 = k + 1
    BY <1>1, <2>0
  <2>2. Settled(k)
    BY <1>1, <2>0
  <2> HIDE DEF P
  <2>3. a[(k + 1) + 1][v][x] = Naming(g, a[k + 1], x, v) /\ a[k + 1][v][x] = Naming(g, a[k], x, v)
    BY <1>9, <2>1
  <2>4. ASSUME x \notin v, Linker!Outer(g, x) # 0
        PROVE  a[k + 1][v \cup {x}][Linker!Outer(g, x)] = a[k][v \cup {x}][Linker!Outer(g, x)]
    <3>1. Linker!Outer(g, x) \in objects /\ v \cup {x} \in SUBSET objects
      BY <2>4, OutersAreObjects
    <3>2. objects \ (v \cup {x}) = (objects \ v) \ {x} /\ x \in objects \ v
      BY <2>4
    <3>3. Cardinality(objects \ (v \cup {x})) = Cardinality(objects \ v) - 1
      <4>1. IsFiniteSet(objects \ v)
        BY <1>10
      <4>2. Cardinality((objects \ v) \ {x}) = Cardinality(objects \ v) - 1
        BY ONLY <3>2, <4>1, FS_RemoveElement
      <4> QED
        BY ONLY <3>2, <4>2
    <3>4. Cardinality(objects \ (v \cup {x})) < k
      <4>1. PICK size \in Nat : size = Cardinality(objects \ v)
        BY <1>10
      <4> QED
        BY <2>0, <3>3, <4>1
    <3> QED
      BY <2>2, <3>1, <3>4
  <2> QED
    BY <2>3, <2>4 DEF Naming
<1> HIDE DEF P
<1>13. P = Nat
  BY <1>11, <1>12, NaturalsByInduction DEF P
<1> DEFINE f == a[N - 1]
<1>14. Settled(N - 1) /\ f \in V
  <2>1. N - 1 \in Nat /\ (N - 1) + 1 <= N /\ N - 1 \in 0..N
    BY NumberOfObjects DEF N
  <2>2. Settled(N - 1)
    <3>1. N - 1 \in P
      BY <1>13, <2>1
    <3> QED
      BY <2>1, <3>1 DEF P
  <2>3. f \in V
    <3> HIDE DEF V
    <3> QED
      BY <1>7, <2>1
  <2> QED
    BY <2>2, <2>3
<1>15. \A v \in SUBSET objects, x \in objects : f[v][x] = Naming(g, f, x, v)
  <2> SUFFICES ASSUME NEW v \in SUBSET objects, NEW x \in objects PROVE f[v][x] = Naming(g, f, x, v)
    OBVIOUS
  <2>1. Cardinality(objects \ v) < N - 1
    <3>1. Cardinality(objects \ v) <= Cardinality(objects)
      BY <1>1, FS_Subset
    <3> QED
      <4>1. PICK size \in Nat : size = Cardinality(objects \ v)
        BY <1>10
      <4>2. PICK most \in Nat : most = Cardinality(objects)
        BY NumberOfObjects
      <4> QED
        BY <3>1, <4>1, <4>2 DEF N
  <2>2. N \in 1..N /\ (N - 1) + 1 = N
    BY NumberOfObjects DEF N
  <2>3. a[N][v][x] = f[v][x]
    BY <1>14, <2>1, <2>2, ZenonT(30)
  <2>4. a[N][v][x] = Naming(g, f, x, v)
    BY <1>9, <2>2
  <2> QED
    BY <2>3, <2>4
<1> HIDE DEF f
<1>16. \A v \in SUBSET objects : f[v] = [x \in objects |-> Naming(g, f, x, v)]
  BY <1>14, <1>15
<1>17. Named(g, objects, f)
  BY <1>14, <1>16 DEF Named
<1> QED
  BY <1>14, <1>17

\* What a full name is: one step for each outer.
IsNaming(g, objects, f) == \A v \in SUBSET objects, x \in objects : f[v][x] = Naming(g, f, x, v)

LEMMA NamedIsNaming ==
  ASSUME NEW g, NEW objects, NEW f, Named(g, objects, f)
  PROVE  IsNaming(g, objects, f)
BY DEF Named, IsNaming

LEMMA NamesAre ==
  ASSUME NEW g, IsGraph(g), NEW objects, objects = Linker!Range(Linker!Objects(g))
  PROVE  \E f : IsNaming(g, objects, f) /\ \A o : Linker!FullName(g, o) = f[{}][o]
<1>1. PICK f : f = (CHOOSE a : Named(g, objects, a)) /\ Named(g, objects, f)
  BY NamesExist
<1>2. \A o : Linker!FullName(g, o) = f[{}][o]
  <2> SUFFICES ASSUME NEW o PROVE Linker!FullName(g, o) = f[{}][o]
    OBVIOUS
  <2>1. Linker!FullName(g, o) = (CHOOSE a : Named(g, Linker!Range(Linker!Objects(g)), a))[{}][o]
    BY Zenon DEF Linker!FullName, Named, Naming
  <2> QED
    BY <1>1, <2>1
<1>3. IsNaming(g, objects, f)
  BY <1>1, NamedIsNaming
<1> QED
  BY <1>2, <1>3

LEMMA UnderHasOneMore ==
  ASSUME NEW g, IsGraph(g), NEW o \in Linker!Range(Linker!Objects(g)), NEW above \in FullNames
  PROVE  /\ Linker!Under(above, g, o) \in FullNames
         /\ Linker!Under(above, g, o).head = above.head
         /\ Linker!Under(above, g, o).names = Append(above.names, Linker!Entry(g, o).name)
<1>1. above.names \in Seq(Text) /\ Linker!Entry(g, o).name \in Text
  BY EntryHasAName DEF FullNames
<1>2. PICK e \in Text : e = Linker!Entry(g, o).name
  BY <1>1
<1>3. Append(above.names, e) \in Seq(Text)
  BY <1>1
<1> QED
  BY <1>2, <1>3 DEF Linker!Under, FullNames

-----------------------------------------------------------------------------
(* The outers of an object, each once.                                      *)

Climbs(g, objects, u, k) ==
  /\ k \in Nat /\ u \in [0..k -> objects]
  /\ \A i, j \in 0..k : u[i] = u[j] => i = j
  /\ \A i \in 0..k : i < k => Linker!Outer(g, u[i]) = u[i + 1]
Passes(u, d) == {u[i] : i \in 0..(d - 1)}

LEMMA ClimbHasMany ==
  ASSUME NEW g, IsGraph(g), NEW objects, objects = Linker!Range(Linker!Objects(g)), NEW u, NEW k, Climbs(g, objects, u, k)
  PROVE  Cardinality(Passes(u, k + 1)) = k + 1 /\ k < Len(Linker!Objects(g))
<1> DEFINE all == {u[i] : i \in 0..k}
<1>1. k \in Nat /\ u \in [0..k -> objects] /\ \A i, j \in 0..k : u[i] = u[j] => i = j
  BY DEF Climbs
<1>2. IsFiniteSet(0..k) /\ Cardinality(0..k) = k + 1
  BY <1>1, FS_Interval
<1>3. u \in [0..k -> all] /\ \A x \in all : \E i \in 0..k : u[i] = x
  BY <1>1
<1>4. u \in Surjection(0..k, all) /\ u \in Injection(0..k, all)
  <2> HIDE DEF all
  <2> QED
    BY <1>1, <1>3 DEF Surjection, Injection, IsInjective
<1>5. Cardinality(all) = k + 1
  <2> HIDE DEF all
  <2> QED
    BY <1>2, <1>4, FS_Surjection
<1>6. all \in SUBSET objects
  BY <1>1
<1>7. k + 1 <= Len(Linker!Objects(g))
  <2> HIDE DEF all
  <2>1. PICK n \in Nat : n = Len(Linker!Objects(g)) /\ Cardinality(objects) <= n /\ Cardinality(objects) \in Nat /\ IsFiniteSet(objects)
    BY NumberOfObjects
  <2>2. Cardinality(all) <= Cardinality(objects)
    BY <1>6, <2>1, FS_Subset
  <2> QED
    BY <1>1, <1>5, <2>1, <2>2
<1>8. Passes(u, k + 1) = all
  <2>1. (k + 1) - 1 = k
    BY <1>1
  <2> QED
    BY <2>1 DEF Passes
<1>9. k < Len(Linker!Objects(g))
  <2>1. PICK n \in Nat : n = Len(Linker!Objects(g))
    BY NumberOfObjects
  <2> QED
    BY <1>1, <1>7, <2>1
<1> QED
  BY <1>5, <1>8, <1>9

\* The climb from an object ends at one without an outer or comes back.
LEMMA LongestClimb ==
  ASSUME NEW g, IsGraph(g), NEW objects, objects = Linker!Range(Linker!Objects(g)), NEW o \in objects
  PROVE  \E k \in Nat : \E u : /\ Climbs(g, objects, u, k) /\ u[0] = o
                               /\ \/ Linker!Outer(g, u[k]) = 0
                                  \/ \E j \in 0..k : Linker!Outer(g, u[k]) = u[j]
<1> DEFINE n == Len(Linker!Objects(g))
           S == {k \in 0..n : \E u : Climbs(g, objects, u, k) /\ u[0] = o}
<1>1. n \in Nat
  BY NumberOfObjects
<1> HIDE DEF n
<1>2. 0 \in S
  <2> DEFINE u == [i \in 0..0 |-> o]
  <2>1. Climbs(g, objects, u, 0) /\ u[0] = o
    <3>1. u \in [0..0 -> objects] /\ u[0] = o /\ \A i, j \in 0..0 : i = j /\ ~(i < 0)
      OBVIOUS
    <3> HIDE DEF u
    <3> QED
      BY <3>1 DEF Climbs
  <2> HIDE DEF u
  <2> QED
    BY <1>1, <2>1
<1>3. IsFiniteSet(S) /\ S \subseteq Int
  <2>1. IsFiniteSet(0..n)
    BY <1>1, FS_Interval
  <2>2. S \subseteq 0..n
    OBVIOUS
  <2> HIDE DEF S
  <2>3. IsFiniteSet(S)
    BY <2>1, <2>2, FS_Subset
  <2> QED
    BY <1>1, <2>2, <2>3
<1>4. PICK k \in S : \A l \in S : l <= k
  <2> HIDE DEF S
  <2> QED
    BY <1>2, <1>3, HasGreatest
<1>5. PICK u : Climbs(g, objects, u, k) /\ u[0] = o
  BY <1>4
<1>6. /\ k \in Nat /\ u \in [0..k -> objects] /\ \A i, j \in 0..k : u[i] = u[j] => i = j
      /\ \A i \in 0..k : i < k => Linker!Outer(g, u[i]) = u[i + 1]
  BY <1>5 DEF Climbs
<1>7. k < n
  BY <1>5, ClimbHasMany DEF n
<1> SUFFICES ASSUME Linker!Outer(g, u[k]) # 0, \A j \in 0..k : Linker!Outer(g, u[k]) # u[j] PROVE FALSE
  BY <1>5, <1>6
<1>8. Linker!Outer(g, u[k]) \in objects
  <2>1. u[k] \in objects
    BY <1>6
  <2> QED
    BY <2>1, OutersAreObjects
<1> DEFINE next == Linker!Outer(g, u[k])
           w == [i \in 0..k + 1 |-> IF i <= k THEN u[i] ELSE next]
<1> HIDE DEF next
<1>9. /\ w \in [0..k + 1 -> objects] /\ w[k + 1] = next /\ \A i \in 0..k : w[i] = u[i]
  BY <1>6, <1>8 DEF next
<1>10. \A i \in 0..k + 1 : i \in 0..k \/ i = k + 1
  BY <1>6
<1>11. \A j \in 0..k : next # u[j]
  BY DEF next
<1> HIDE DEF w
<1>12. \A i, j \in 0..k + 1 : w[i] = w[j] => i = j
  BY <1>6, <1>9, <1>10, <1>11
<1>13. \A i \in 0..k + 1 : i < k + 1 => Linker!Outer(g, w[i]) = w[i + 1]
  <2> SUFFICES ASSUME NEW i \in 0..k + 1, i < k + 1 PROVE Linker!Outer(g, w[i]) = w[i + 1]
    OBVIOUS
  <2>1. CASE i < k
    <3>1. i \in 0..k /\ i + 1 \in 0..k
      BY <1>6, <2>1
    <3> QED
      BY <1>6, <1>9, <2>1, <3>1
  <2>2. CASE i = k
    <3>1. k \in 0..k
      BY <1>6
    <3> QED
      BY <1>9, <2>2, <3>1 DEF next
  <2> QED
    BY <1>6, <2>1, <2>2
<1>14. Climbs(g, objects, w, k + 1) /\ w[0] = o
  <2>1. k + 1 \in Nat /\ 0 \in 0..k
    BY <1>6
  <2> QED
    BY <1>5, <1>9, <1>12, <1>13, <2>1 DEF Climbs
<1>15. k + 1 \in S
  <2>1. k + 1 \in 0..n
    BY <1>1, <1>6, <1>7
  <2> QED
    BY <1>14, <2>1
<1> QED
  BY <1>4, <1>6, <1>15

\* Up to an object without an outer a full name does not depend on what has been
\* visited below.
LEMMA EndingIsItsOwn ==
  ASSUME NEW g, IsGraph(g), NEW objects, objects = Linker!Range(Linker!Objects(g)),
         NEW f, IsNaming(g, objects, f), NEW u, NEW k, Climbs(g, objects, u, k), Linker!Outer(g, u[k]) = 0
  PROVE  \A d \in 0..k : \A v, w \in SUBSET objects :
           (\A i \in d..k : u[i] \notin v /\ u[i] \notin w) =>
             f[v][u[d]] = f[w][u[d]] /\ f[v][u[d]] \in FullNames /\ f[v][u[d]].head.what # "circular"
<1> DEFINE Free(d, v) == \A i \in d..k : u[i] \notin v
           Same(d) == \A v, w \in SUBSET objects : Free(d, v) /\ Free(d, w) =>
                        f[v][u[d]] = f[w][u[d]] /\ f[v][u[d]] \in FullNames /\ f[v][u[d]].head.what # "circular"
           P == {e \in Nat : e <= k => Same(k - e)}
<1>1. /\ k \in Nat /\ u \in [0..k -> objects] /\ \A i, j \in 0..k : u[i] = u[j] => i = j
      /\ \A i \in 0..k : i < k => Linker!Outer(g, u[i]) = u[i + 1]
  BY DEF Climbs
<1>2. \A v \in SUBSET objects, x \in objects : f[v][x] = Naming(g, f, x, v)
  BY DEF IsNaming
<1>3. \A d \in 0..k : u[d] \in objects
  BY <1>1
<1>4. Same(k)
  <2> SUFFICES ASSUME NEW v \in SUBSET objects, Free(k, v)
               PROVE  /\ f[v][u[k]] = [head |-> Linker!Own(g, u[k]), names |-> <<Linker!Entry(g, u[k]).name>>]
                      /\ f[v][u[k]] \in FullNames /\ f[v][u[k]].head.what # "circular"
    <3> HIDE DEF Free
    <3> QED
      OBVIOUS
  <2>1. k \in k..k /\ k \in 0..k
    BY <1>1
  <2>2. u[k] \in objects /\ u[k] \notin v
    BY <1>3, <2>1
  <2>3. f[v][u[k]] = [head |-> Linker!Own(g, u[k]), names |-> <<Linker!Entry(g, u[k]).name>>]
    BY <1>2, <2>2 DEF Naming
  <2>4. Linker!Entry(g, u[k]).name \in Text /\ Linker!Own(g, u[k]) \in [what : {"import", "package"}, name : Text]
    BY <2>2, EntryHasAName
  <2>5. <<Linker!Entry(g, u[k]).name>> \in Seq(Text)
    BY <2>4
  <2>6. Linker!Own(g, u[k]) \in [what : Marks, name : Text] /\ Linker!Own(g, u[k]).what # "circular"
    BY <2>4 DEF Marks
  <2> QED
    BY <2>3, <2>5, <2>6 DEF FullNames
<1>5. ASSUME NEW d \in 0..k, d < k, Same(d + 1) PROVE Same(d)
  <2>1. d \in d..k /\ d + 1 \in 0..k /\ u[d] \in objects /\ u[d + 1] \in objects /\ Linker!Outer(g, u[d]) = u[d + 1]
    <3>1. d \in d..k /\ d + 1 \in 0..k
      BY <1>1, <1>5
    <3> QED
      BY <1>1, <1>3, <1>5, <3>1
  <2>2. u[d + 1] # 0
    BY <2>1, IndexIsObject, OutersAreObjects
  <2> DEFINE More(v) == v \cup {u[d]}
  <2>3. ASSUME NEW v \in SUBSET objects, Free(d, v)
        PROVE  /\ f[v][u[d]] = Linker!Under(f[More(v)][u[d + 1]], g, u[d])
               /\ More(v) \in SUBSET objects /\ Free(d + 1, More(v))
    <3>1. u[d] \notin v
      BY <2>1, <2>3
    <3>2. f[v][u[d]] = Linker!Under(f[More(v)][u[d + 1]], g, u[d])
      <4>1. f[v][u[d]] = Naming(g, f, u[d], v)
        BY <1>2, <2>1
      <4> QED
        BY <2>1, <2>2, <3>1, <4>1 DEF Naming
    <3>3. \A i \in (d + 1)..k : i \in d..k /\ i \in 0..k /\ i # d
      BY <1>1, <1>5
    <3>4. \A i \in (d + 1)..k : u[i] # u[d]
      BY <1>1, <1>5, <3>3
    <3>5. Free(d + 1, More(v))
      BY <2>3, <3>3, <3>4
    <3> QED
      BY <2>1, <3>2, <3>5
  <2> HIDE DEF Free, More
  <2> SUFFICES ASSUME NEW v \in SUBSET objects, NEW w \in SUBSET objects, Free(d, v), Free(d, w)
               PROVE  f[v][u[d]] = f[w][u[d]] /\ f[v][u[d]] \in FullNames /\ f[v][u[d]].head.what # "circular"
    OBVIOUS
  <2>4. PICK above : above = f[More(v)][u[d + 1]] /\ above = f[More(w)][u[d + 1]]
                     /\ above \in FullNames /\ above.head.what # "circular"
    BY <1>5, <2>3
  <2>5. f[v][u[d]] = Linker!Under(above, g, u[d]) /\ f[w][u[d]] = Linker!Under(above, g, u[d])
    BY <2>3, <2>4
  <2> QED
    BY <2>1, <2>4, <2>5, UnderHasOneMore
<1> HIDE DEF Same
<1>6. 0 \in P
  <2>1. k - 0 = k
    BY <1>1
  <2> QED
    BY <1>4, <2>1
<1>7. ASSUME NEW e \in P PROVE e + 1 \in P
  <2>1. e \in Nat /\ (e <= k => Same(k - e))
    OBVIOUS
  <2>2. ASSUME e + 1 <= k PROVE Same(k - (e + 1))
    <3>1. k - (e + 1) \in 0..k /\ k - (e + 1) < k /\ (k - (e + 1)) + 1 = k - e /\ e <= k
      BY <1>1, <2>1, <2>2
    <3> QED
      BY <1>5, <2>1, <3>1
  <2> QED
    BY <2>1, <2>2
<1> HIDE DEF P
<1>8. P = Nat
  BY <1>6, <1>7, NaturalsByInduction DEF P
<1>9. ASSUME NEW d \in 0..k PROVE Same(d)
  <2>1. k - d \in Nat /\ k - d <= k /\ k - (k - d) = d
    BY <1>1
  <2> QED
    BY <1>8, <2>1 DEF P
<1> QED
  BY <1>9 DEF Same

\* Where the outers come back the name has each of them once, behind the mark.
LEMMA ReturningIsMarked ==
  ASSUME NEW g, IsGraph(g), NEW objects, objects = Linker!Range(Linker!Objects(g)),
         NEW f, IsNaming(g, objects, f), NEW u, NEW k, Climbs(g, objects, u, k),
         NEW j \in 0..k, Linker!Outer(g, u[k]) = u[j]
  PROVE  /\ f[{}][u[0]] \in FullNames
         /\ f[{}][u[0]].head = Linker!Before("circular", <<k + 1>>)
         /\ Len(f[{}][u[0]].names) = k + 1
<1> DEFINE Good(d, r) == r \in FullNames /\ r.head = Linker!Before("circular", <<k + 1>>) /\ Len(r.names) = (k + 1) - d
           P == {e \in Nat : e <= k => Good(k - e, f[Passes(u, k - e)][u[k - e]])}
<1>1. /\ k \in Nat /\ u \in [0..k -> objects] /\ \A i, l \in 0..k : u[i] = u[l] => i = l
      /\ \A i \in 0..k : i < k => Linker!Outer(g, u[i]) = u[i + 1]
  BY DEF Climbs
<1>2. \A v \in SUBSET objects, x \in objects : f[v][x] = Naming(g, f, x, v)
  BY DEF IsNaming
<1>3. \A d \in 0..k : u[d] \in objects /\ u[d] # 0
  BY <1>1, OutersAreObjects
<1>4. \A d \in 0..k : /\ Passes(u, d) \in SUBSET objects /\ Passes(u, d + 1) = Passes(u, d) \cup {u[d]}
                      /\ u[d] \notin Passes(u, d)
  <2> SUFFICES ASSUME NEW d \in 0..k
               PROVE  /\ Passes(u, d) \in SUBSET objects /\ Passes(u, d + 1) = Passes(u, d) \cup {u[d]}
                      /\ u[d] \notin Passes(u, d)
    OBVIOUS
  <2>1. /\ 0..((d + 1) - 1) = 0..(d - 1) \cup {d}
        /\ \A i \in 0..(d - 1) : i \in 0..k /\ i # d
    BY <1>1
  <2> QED
    BY <1>1, <1>3, <2>1 DEF Passes
<1>5. ASSUME NEW d \in 0..k, NEW above, Good(d + 1, above), f[Passes(u, d)][u[d]] = Linker!Under(above, g, u[d])
      PROVE  Good(d, f[Passes(u, d)][u[d]])
  <2>1. above.names \in Seq(Text) /\ Linker!Entry(g, u[d]).name \in Text
    BY <1>3, <1>5, EntryHasAName DEF FullNames
  <2>2. Len(Append(above.names, Linker!Entry(g, u[d]).name)) = Len(above.names) + 1
    BY <2>1
  <2>3. ((k + 1) - (d + 1)) + 1 = (k + 1) - d
    BY <1>1
  <2> QED
    BY <1>3, <1>5, <2>2, <2>3, UnderHasOneMore
<1>6. \A d \in 0..k : f[Passes(u, d)][u[d]] =
                       Linker!Under(f[Passes(u, d + 1)][IF d = k THEN u[j] ELSE u[d + 1]], g, u[d])
  <2> SUFFICES ASSUME NEW d \in 0..k
               PROVE  f[Passes(u, d)][u[d]] = Linker!Under(f[Passes(u, d + 1)][IF d = k THEN u[j] ELSE u[d + 1]], g, u[d])
    OBVIOUS
  <2>1. Linker!Outer(g, u[d]) = IF d = k THEN u[j] ELSE u[d + 1]
    BY <1>1
  <2>2. Linker!Outer(g, u[d]) # 0
    <3>1. d # k => d + 1 \in 0..k
      BY <1>1
    <3> QED
      BY <1>3, <2>1, <3>1
  <2>3. f[Passes(u, d)][u[d]] = Naming(g, f, u[d], Passes(u, d))
    BY <1>2, <1>3, <1>4
  <2> QED
    BY <1>4, <2>1, <2>2, <2>3 DEF Naming
<1>7. Good(k + 1, f[Passes(u, k + 1)][u[j]])
  <2>1. Passes(u, k + 1) \in SUBSET objects
    <3>1. k \in 0..k
      BY <1>1
    <3> QED
      BY <1>3, <1>4, <3>1
  <2>2. u[j] \in Passes(u, k + 1)
    <3>1. j \in 0..((k + 1) - 1)
      BY <1>1
    <3> QED
      BY <3>1 DEF Passes
  <2>3. Linker!Cardinality(Passes(u, k + 1)) = k + 1
    BY ClimbHasMany, SameCardinality
  <2>4. f[Passes(u, k + 1)][u[j]] = [head |-> Linker!Before("circular", <<k + 1>>), names |-> <<>>]
    <3>1. f[Passes(u, k + 1)][u[j]] = Naming(g, f, u[j], Passes(u, k + 1))
      BY <1>2, <1>3, <2>1
    <3> QED
      BY <2>2, <2>3, <3>1 DEF Naming
  <2>5. <<k + 1>> \in Text /\ <<>> \in Seq(Text) /\ Len(<<>>) = (k + 1) - (k + 1)
    BY <1>1 DEF Text
  <2> QED
    BY <2>4, <2>5 DEF FullNames, Marks, Linker!Before
<1> HIDE DEF Good
<1>8. 0 \in P
  <2>1. k - 0 = k /\ k \in 0..k
    BY <1>1
  <2>2. f[Passes(u, k)][u[k]] = Linker!Under(f[Passes(u, k + 1)][u[j]], g, u[k])
    BY <1>6, <2>1
  <2> QED
    BY <1>5, <1>7, <2>1, <2>2
<1>9. ASSUME NEW e \in P PROVE e + 1 \in P
  <2>1. e \in Nat /\ (e <= k => Good(k - e, f[Passes(u, k - e)][u[k - e]]))
    OBVIOUS
  <2>2. ASSUME e + 1 <= k PROVE Good(k - (e + 1), f[Passes(u, k - (e + 1))][u[k - (e + 1)]])
    <3>1. PICK d \in 0..k : d = k - (e + 1) /\ d # k /\ d + 1 = k - e /\ e <= k
      BY <1>1, <2>1, <2>2
    <3>2. Good(d + 1, f[Passes(u, d + 1)][u[d + 1]])
      BY <2>1, <3>1
    <3>3. f[Passes(u, d)][u[d]] = Linker!Under(f[Passes(u, d + 1)][u[d + 1]], g, u[d])
      BY <1>6, <3>1
    <3> QED
      BY <1>5, <3>1, <3>2, <3>3
  <2> QED
    BY <2>1, <2>2
<1> HIDE DEF P
<1>10. P = Nat
  BY <1>8, <1>9, NaturalsByInduction DEF P
<1>11. Good(0, f[Passes(u, 0)][u[0]])
  <2>1. k \in Nat /\ k <= k /\ k - k = 0
    BY <1>1
  <2> QED
    BY <1>10, <2>1 DEF P
<1>12. Passes(u, 0) = {} /\ (k + 1) - 0 = k + 1
  <2>1. 0..(0 - 1) = {}
    OBVIOUS
  <2> QED
    BY <1>1, <2>1 DEF Passes
<1> QED
  BY <1>11, <1>12 DEF Good

\* The outers of an object one after the other.
Upward(g, o, n, up) == up = [d \in 0..n |-> IF d = 0 THEN o ELSE IF up[d - 1] = 0 THEN 0 ELSE Linker!Outer(g, up[d - 1])]
Walks(g, n, up) ==
  DOMAIN up = 0..n /\ \A d \in 0..n : d < n => up[d + 1] = IF up[d] = 0 THEN 0 ELSE Linker!Outer(g, up[d])

LEMMA UpExists ==
  ASSUME NEW g, IsGraph(g), NEW objects, objects = Linker!Range(Linker!Objects(g)), NEW o \in objects, NEW n \in Nat
  PROVE  \E up : /\ up = (CHOOSE a : Upward(g, o, n, a)) /\ Walks(g, n, up) /\ up[0] = o
<1> DEFINE V == {0} \cup objects
           After(x) == IF x = 0 THEN 0 ELSE Linker!Outer(g, x)
           h == [y \in (1..n) \X V |-> After(y[2])]
<1>1. \A x \in V : After(x) \in V
  BY OutersAreObjects
<1>2. h \in [(1..n) \X V -> V] /\ \A k \in 1..n : \A x \in V : h[<<k, x>>] = After(x)
  <2> HIDE DEF V, After
  <2> QED
    BY <1>1
<1> HIDE DEF h
<1>3. PICK a \in [0..n -> V] : a[0] = o /\ \A k \in 1..n : a[k] = h[<<k, a[k - 1]>>]
  <2>1. o \in V
    OBVIOUS
  <2> HIDE DEF V
  <2>2. HasRecursion(V, o, n, h)
    BY ONLY <1>2, <2>1, n \in Nat, RecursiveFunction
  <2> QED
    BY <2>2 DEF HasRecursion
<1>4. \A k \in 0..n : a[k] = IF k = 0 THEN o ELSE After(a[k - 1])
  <2> SUFFICES ASSUME NEW k \in 0..n, k # 0 PROVE a[k] = After(a[k - 1])
    BY <1>3
  <2>1. k \in 1..n /\ k - 1 \in 0..n
    OBVIOUS
  <2> HIDE DEF V, After
  <2> QED
    BY <1>2, <1>3, <2>1
<1>5. Upward(g, o, n, a)
  <2> HIDE DEF V
  <2> QED
    BY <1>3, <1>4 DEF Upward
<1>6. PICK up : up = (CHOOSE b : Upward(g, o, n, b)) /\ Upward(g, o, n, up)
  BY <1>5
<1>7. DOMAIN up = 0..n /\ \A k \in 0..n : up[k] = IF k = 0 THEN o ELSE After(up[k - 1])
  BY <1>6 DEF Upward
<1>8. up[0] = o /\ \A d \in 0..n : d < n => up[d + 1] = After(up[d])
  <2> HIDE DEF After
  <2>1. 0 \in 0..n /\ \A d \in 0..n : d < n => d + 1 \in 0..n /\ d + 1 # 0 /\ (d + 1) - 1 = d
    OBVIOUS
  <2> QED
    BY <1>7, <2>1
<1> QED
  BY <1>6, <1>7, <1>8 DEF Walks

\* The walk goes along the climb, and behind it stays at 0 or comes back.
LEMMA UpFollows ==
  ASSUME NEW g, IsGraph(g), NEW objects, objects = Linker!Range(Linker!Objects(g)),
         NEW u, NEW k, Climbs(g, objects, u, k), NEW n \in Nat, k < n, NEW up, Walks(g, n, up), up[0] = u[0]
  PROVE  /\ Linker!Outer(g, u[k]) = 0 => up[n] = 0
         /\ (\E j \in 0..k : Linker!Outer(g, u[k]) = u[j]) => up[n] # 0 /\ {up[d] : d \in 0..n} = Passes(u, k + 1)
<1>1. /\ k \in Nat /\ u \in [0..k -> objects]
      /\ \A i \in 0..k : i < k => Linker!Outer(g, u[i]) = u[i + 1]
  BY DEF Climbs
<1>0. DOMAIN up = 0..n /\ \A d \in 0..n : d < n => up[d + 1] = IF up[d] = 0 THEN 0 ELSE Linker!Outer(g, up[d])
  BY DEF Walks
<1>2. \A i \in 0..k : u[i] \in objects /\ u[i] # 0
  BY <1>1, OutersAreObjects
<1> DEFINE P == {d \in Nat : d <= k => up[d] = u[d]}
<1>3. 0 \in P
  OBVIOUS
<1>4. ASSUME NEW d \in P PROVE d + 1 \in P
  <2> SUFFICES ASSUME d + 1 <= k PROVE up[d + 1] = u[d + 1]
    OBVIOUS
  <2>1. d \in Nat /\ up[d] = u[d] /\ d \in 0..k /\ d < k /\ d \in 0..n /\ d < n
    BY <1>1
  <2> QED
    BY <1>0, <1>1, <1>2, <2>1
<1> HIDE DEF P
<1>5. P = Nat
  BY <1>3, <1>4, NaturalsByInduction DEF P
<1>6. \A d \in 0..k : up[d] = u[d]
  BY <1>1, <1>5 DEF P
<1>7. k \in 0..k /\ k \in 0..n /\ up[k + 1] = Linker!Outer(g, u[k])
  <2>1. k \in 0..k /\ k \in 0..n
    BY <1>1
  <2> QED
    BY <1>0, <1>2, <1>6, <2>1
<1>8. ASSUME Linker!Outer(g, u[k]) = 0 PROVE up[n] = 0
  <2> DEFINE Q == {e \in Nat : k + 1 + e <= n => up[k + 1 + e] = 0}
  <2>1. 0 \in Q
    <3>1. k + 1 + 0 = k + 1
      BY <1>1
    <3> QED
      BY <1>7, <1>8, <3>1
  <2>2. ASSUME NEW e \in Q PROVE e + 1 \in Q
    <3> SUFFICES ASSUME k + 1 + (e + 1) <= n PROVE up[k + 1 + (e + 1)] = 0
      OBVIOUS
    <3>1. PICK d \in 0..n : d = k + 1 + e /\ d < n /\ d + 1 = k + 1 + (e + 1) /\ e \in Nat
      BY <1>1
    <3>2. up[d] = 0
      BY <3>1
    <3> QED
      BY <1>0, <3>1, <3>2
  <2> HIDE DEF Q
  <2>3. Q = Nat
    BY <2>1, <2>2, NaturalsByInduction DEF Q
  <2>4. n - (k + 1) \in Nat /\ k + 1 + (n - (k + 1)) = n
    BY <1>1
  <2>5. n - (k + 1) \in Q
    BY <2>3, <2>4
  <2> QED
    BY <2>4, <2>5 DEF Q
<1>9. ASSUME NEW j \in 0..k, Linker!Outer(g, u[k]) = u[j] PROVE up[n] # 0 /\ {up[d] : d \in 0..n} = Passes(u, k + 1)
  <2> DEFINE all == {u[i] : i \in 0..k}
             Q == {d \in Nat : d <= n => up[d] \in all}
  <2>1. 0 \in Q
    <3>1. 0 \in 0..k
      BY <1>1
    <3> QED
      BY <3>1
  <2>2. ASSUME NEW d \in Q PROVE d + 1 \in Q
    <3> SUFFICES ASSUME d + 1 <= n PROVE up[d + 1] \in all
      OBVIOUS
    <3>1. d \in Nat /\ d \in 0..n /\ d < n /\ d <= n /\ up[d] \in all
      OBVIOUS
    <3>2. PICK i \in 0..k : up[d] = u[i]
      BY <3>1
    <3>3. up[d + 1] = Linker!Outer(g, u[i])
      BY <1>0, <1>2, <3>1, <3>2
    <3>4. CASE i < k
      <4>1. i + 1 \in 0..k
        BY <1>1, <3>4
      <4> QED
        BY <1>1, <3>3, <3>4, <4>1
    <3>5. CASE i = k
      BY <1>9, <3>3, <3>5
    <3> QED
      BY <1>1, <3>4, <3>5
  <2> HIDE DEF Q
  <2>3. Q = Nat
    BY <2>1, <2>2, NaturalsByInduction DEF Q
  <2>4. \A d \in 0..n : up[d] \in all
    <3> HIDE DEF all
    <3>1. \A d \in 0..n : d \in Nat /\ d <= n
      OBVIOUS
    <3> QED
      BY <2>3, <3>1 DEF Q
  <2>5. \A i \in 0..k : u[i] \in {up[d] : d \in 0..n}
    <3> SUFFICES ASSUME NEW i \in 0..k PROVE u[i] \in {up[d] : d \in 0..n}
      OBVIOUS
    <3>1. i \in 0..n /\ up[i] = u[i]
      BY <1>1, <1>6
    <3> QED
      BY <3>1
  <2>6. {up[d] : d \in 0..n} = all
    BY <2>4, <2>5
  <2>7. up[n] # 0
    <3>1. up[n] \in all
      BY <2>4
    <3> QED
      BY <1>2, <3>1
  <2>8. Passes(u, k + 1) = all
    <3>1. (k + 1) - 1 = k
      BY <1>1
    <3> QED
      BY <3>1 DEF Passes
  <2> QED
    BY <2>6, <2>7, <2>8
<1> QED
  BY <1>8, <1>9

\* A full name follows the outers.
LEMMA NamesAlwaysFollowOuters ==
  ASSUME NEW g, IsGraph(g)
  PROVE  Linker!NamesFollowOuters(g)
<1> DEFINE objects == Linker!Range(Linker!Objects(g))
           n == Len(Linker!Objects(g))
<1>1. PICK f : IsNaming(g, objects, f) /\ \A o : Linker!FullName(g, o) = f[{}][o]
  BY NamesAre
<1>2. n \in Nat
  BY NumberOfObjects
<1> HIDE DEF objects, n
<1>3. ASSUME NEW o \in objects
      PROVE  LET name == Linker!FullName(g, o)
                 Up == CHOOSE a : Upward(g, o, n, a)
                 endless == Up[n] # 0
             IN /\ name.names[Len(name.names)] = Linker!Entry(g, o).name
                /\ name.head.what = "circular" <=> endless
                /\ endless => name.head.name = <<Len(name.names)>> /\ Len(name.names) = Linker!Cardinality({Up[d] : d \in DOMAIN Up})
                /\ ~endless /\ Linker!Outer(g, o) # 0 =>
                     LET above == Linker!FullName(g, Linker!Outer(g, o)) IN
                       above.head = name.head /\ above.names = SubSeq(name.names, 1, Len(name.names) - 1)
  <2>1. PICK k \in Nat : \E u : /\ Climbs(g, objects, u, k) /\ u[0] = o
                                /\ \/ Linker!Outer(g, u[k]) = 0
                                   \/ \E j \in 0..k : Linker!Outer(g, u[k]) = u[j]
    BY LongestClimb DEF objects
  <2>2. PICK u : /\ Climbs(g, objects, u, k) /\ u[0] = o
                 /\ \/ Linker!Outer(g, u[k]) = 0
                    \/ \E j \in 0..k : Linker!Outer(g, u[k]) = u[j]
    BY <2>1
  <2>3. /\ u \in [0..k -> objects] /\ \A i, j \in 0..k : u[i] = u[j] => i = j
        /\ \A i \in 0..k : i < k => Linker!Outer(g, u[i]) = u[i + 1]
    BY <2>2 DEF Climbs
  <2>4. PICK up : up = (CHOOSE a : Upward(g, o, n, a)) /\ Walks(g, n, up) /\ up[0] = o
    BY <1>2, UpExists DEF objects
  <2>5. k < n /\ Cardinality(Passes(u, k + 1)) = k + 1
    BY <2>2, ClimbHasMany DEF objects, n
  <2>6. /\ Linker!Outer(g, u[k]) = 0 => up[n] = 0
        /\ (\E j \in 0..k : Linker!Outer(g, u[k]) = u[j]) => up[n] # 0 /\ {up[d] : d \in 0..n} = Passes(u, k + 1)
    <3>1. Walks(g, n, up) /\ up[0] = u[0] /\ Climbs(g, objects, u, k)
      BY <2>2, <2>4
    <3>2. objects = Linker!Range(Linker!Objects(g))
      BY DEF objects
    <3> QED
      BY ONLY <1>2, <2>5, <3>1, <3>2, IsGraph(g), UpFollows
  <2>7. PICK name : name = Linker!FullName(g, o) /\ name = f[{}][o]
    BY <1>1
  <2>8. {} \in SUBSET objects /\ \A v \in SUBSET objects, x \in objects : f[v][x] = Naming(g, f, x, v)
    BY <1>1 DEF IsNaming
  <2>9. CASE Linker!Outer(g, u[k]) = 0
    <3>1. \A d \in 0..k : \A v, w \in SUBSET objects :
            (\A i \in d..k : u[i] \notin v /\ u[i] \notin w) =>
              f[v][u[d]] = f[w][u[d]] /\ f[v][u[d]] \in FullNames /\ f[v][u[d]].head.what # "circular"
      BY <1>1, <2>2, <2>9, EndingIsItsOwn DEF objects
    <3>2. up[n] = 0
      BY <2>6, <2>9
    <3>3. name \in FullNames /\ name.head.what # "circular"
      <4>1. 0 \in 0..k
        OBVIOUS
      <4> QED
        BY <2>2, <2>7, <2>8, <3>1, <4>1
    <3>4. CASE k = 0
      <4>1. Linker!Outer(g, o) = 0
        BY <2>2, <2>9, <3>4
      <4>2. name = [head |-> Linker!Own(g, o), names |-> <<Linker!Entry(g, o).name>>]
        <5>1. name = Naming(g, f, o, {})
          BY <2>7, <2>8
        <5> QED
          BY <4>1, <5>1 DEF Naming
      <4>3. name.names[Len(name.names)] = Linker!Entry(g, o).name
        BY <4>2
      <4> QED
        BY <2>4, <2>7, <3>2, <3>3, <4>1, <4>3
    <3>5. CASE k # 0
      <4>1. 0 \in 0..k /\ 0 < k /\ 1 \in 0..k /\ Linker!Outer(g, o) = u[1]
        <5>1. 0 \in 0..k /\ 0 < k /\ 1 \in 0..k /\ 0 + 1 = 1
          BY <3>5
        <5> QED
          BY <2>2, <2>3, <5>1
      <4>2. u[1] \in objects /\ u[1] # 0
        <5>1. u[1] \in objects
          BY <2>3, <4>1
        <5> QED
          BY <5>1, OutersAreObjects DEF objects
      <4>3. PICK above : above = f[{}][u[1]]
        OBVIOUS
      <4>4. above = f[{o}][u[1]] /\ above \in FullNames
        <5>1. \A i \in 1..k : i \in 0..k /\ i # 0
          OBVIOUS
        <5>2. \A i \in 1..k : u[i] \notin {} /\ u[i] \notin {o}
          BY <2>2, <2>3, <4>1, <5>1
        <5>3. {} \in SUBSET objects /\ {o} \in SUBSET objects
          OBVIOUS
        <5> QED
          BY <3>1, <4>1, <4>3, <5>2, <5>3
      <4>5. name = Linker!Under(above, g, o)
        <5>1. name = Naming(g, f, o, {})
          BY <2>7, <2>8
        <5>2. {} \cup {o} = {o}
          OBVIOUS
        <5> QED
          BY <4>1, <4>2, <4>4, <5>1, <5>2 DEF Naming
      <4>6. name.head = above.head /\ name.names = Append(above.names, Linker!Entry(g, o).name)
        BY <4>4, <4>5, ZenonT(30), UnderHasOneMore DEF objects
      <4>7. PICK list \in Seq(Text), e \in Text : list = above.names /\ e = Linker!Entry(g, o).name
        BY <4>4, EntryHasAName DEF FullNames, objects
      <4>8. LET more == Append(list, e) IN more[Len(more)] = e /\ SubSeq(more, 1, Len(more) - 1) = list
        OBVIOUS
      <4>9. Linker!FullName(g, Linker!Outer(g, o)) = above
        BY <1>1, <4>1, <4>3
      <4> QED
        BY <2>4, <2>7, <3>2, <3>3, <4>6, <4>7, <4>8, <4>9
    <3> QED
      BY <3>4, <3>5
  <2>10. CASE Linker!Outer(g, u[k]) # 0
    <3>1. PICK j \in 0..k : Linker!Outer(g, u[k]) = u[j]
      BY <2>2, <2>10
    <3>2. up[n] # 0 /\ {up[d] : d \in 0..n} = Passes(u, k + 1)
      BY <2>6, <3>1
    <3>3. name \in FullNames /\ name.head = Linker!Before("circular", <<k + 1>>) /\ Len(name.names) = k + 1
      <4>1. Climbs(g, objects, u, k) /\ IsNaming(g, objects, f)
        BY <1>1, <2>2
      <4>2. objects = Linker!Range(Linker!Objects(g))
        BY DEF objects
      <4>3. /\ f[{}][u[0]] \in FullNames
            /\ f[{}][u[0]].head = Linker!Before("circular", <<k + 1>>)
            /\ Len(f[{}][u[0]].names) = k + 1
        BY ONLY <3>1, <4>1, <4>2, IsGraph(g), k \in Nat, ReturningIsMarked, SMTT(30)
      <4> QED
        BY <2>2, <2>7, <4>3
    <3>4. name.head.what = "circular" /\ name.head.name = <<Len(name.names)>>
      BY <3>3 DEF Linker!Before
    <3>5. Len(name.names) = Linker!Cardinality({up[d] : d \in DOMAIN up})
      BY <2>4, <2>5, <3>2, <3>3, SameCardinality DEF Walks
    <3>6. name.names[Len(name.names)] = Linker!Entry(g, o).name
      <4>1. PICK above : name = Linker!Under(above, g, o)
        <5>1. Linker!Outer(g, o) # 0
          <6>1. CASE k = 0
            BY <2>2, <2>10, <6>1
          <6>2. CASE k # 0
            <7>1. 0 \in 0..k /\ 0 < k /\ 1 \in 0..k /\ 0 + 1 = 1
              BY <6>2
            <7>2. Linker!Outer(g, o) = u[1] /\ u[1] \in objects
              BY <2>2, <2>3, <7>1
            <7> QED
              BY <7>2, OutersAreObjects DEF objects
          <6> QED
            BY <6>1, <6>2
        <5>2. name = Naming(g, f, o, {})
          BY <2>7, <2>8
        <5> QED
          BY <5>1, <5>2 DEF Naming
      <4>2. name.names = Append(above.names, Linker!Entry(g, o).name)
        BY <3>3, <4>1 DEF Linker!Under, FullNames
      <4> QED
        BY <3>3, <4>2 DEF FullNames
    <3> QED
      BY <2>4, <2>7, <3>2, <3>4, <3>5, <3>6
  <2> QED
    BY <2>9, <2>10
<1> QED
  BY <1>3 DEF Linker!NamesFollowOuters, Upward, objects, n

-----------------------------------------------------------------------------
(* The header of a package and the objects of its tables.                   *)

\* What the fields of a file say, its words, indexes, offsets and characters are
\* numbers, whatever numbers they are.
ExportOf == [name : STRING, class : Int, outer : Int, size : Int]
IsHeaderCase ==
  /\ c.p = "summary" => Saying(c.odd) /\ c.room \in Nat /\ c.v.ue4 \in Int /\ c.v.ue5 \in Int
  /\ c.p = "depends" => c.w \in Seq(Int)
  /\ c.p = "exports" => c.e \in Seq(ExportOf)
  /\ c.p = "versions" => c.vs \in Seq(Int \X Int) /\ c.asked \in Seq(Int)
  /\ c.p = "graph" => IsGraph(c.g)
  /\ c.p = "hash" => c.path \in Seq(Int) /\ c.digits \in Seq(Digits)

\* The header and the linker's objects are as the readers behind them rely on
\* (read_package_summary, read_depends_map, the resolvers of indexes, get_version,
\* PackageLinker): bounds, resolved indexes, full names and reports.
THEOREM HeaderStaysGuarded ==
  ASSUME IsHeaderCase
  PROVE  HeaderIsGuarded
<1>1. ASSUME c.p = "summary"
      PROVE  /\ Header!SummaryGuards(c.v, c.odd, c.room) /\ Header!SummaryIsPrefix(c.v, c.odd, c.room)
             /\ \A n \in 0..2 : Header!WholeIsNotTruncated(c.v, 1, n, 120 + n)
  <2>1. Saying(c.odd) /\ c.room \in Nat /\ c.v.ue4 \in Int /\ c.v.ue5 \in Int
    BY <1>1 DEF IsHeaderCase
  <2>2. \A n \in 0..2 : n \in Nat /\ 120 + n \in Int
    OBVIOUS
  <2> QED
    BY <2>1, <2>2, SummaryIsGuarded, SummaryIsItsPrefix, WholeIsNotNoted
<1>2. ASSUME c.p = "depends" PROVE \A n \in 0..3 : Header!DependsIsPerExport(c.w, n, 2)
  BY <1>2, MapIsPerExport DEF IsHeaderCase
<1>3. ASSUME c.p = "exports"
      PROVE  /\ \A i \in -3..3 : Header!ResolversAgree(i, <<Generated>>, c.e)
             /\ Header!MainIsGenerated(<<Generated, Import("Actor"), Generated>>, c.e, "A")
  <2>1. PICK e \in Seq(ExportOf) : e = c.e
    BY <1>3 DEF IsHeaderCase
  <2>2. /\ Len(e) \in Nat /\ DOMAIN e = 1..Len(e)
        /\ \A k \in 1..Len(e) : e[k].class \in Int /\ e[k].size \in Int
    <3>1. \A k \in 1..Len(e) : e[k] \in ExportOf
      OBVIOUS
    <3> QED
      BY <3>1 DEF ExportOf
  <2>3. \A i \in -3..3 : Header!ResolversAgree(i, <<Generated>>, e)
    BY <2>2, ResolversAlwaysAgree
  <2> DEFINE three == <<Generated, Import("Actor"), Generated>>
             kinds == {Generated, Import("Actor")}
  <2>4. three \in Seq(kinds)
    OBVIOUS
  <2> HIDE DEF three, kinds
  <2>5. Header!MainIsGenerated(three, e, "A")
    BY <2>2, <2>4, MainIsAlwaysGenerated
  <2> QED
    BY <2>1, <2>3, <2>5 DEF three
<1>4. ASSUME c.p = "versions" PROVE Header!CacheIsTheList(c.vs, c.asked)
  BY <1>4, CacheIsAlwaysTheList DEF IsHeaderCase
<1>5. ASSUME c.p = "graph"
      PROVE  /\ Linker!TreeIsWhole(c.g) /\ Linker!NamesFollowOuters(c.g) /\ Linker!NothingIsLostSilently(c.g)
             /\ \A i \in -3..3 : LET linked == Linker!ResolveParentWithLinker(c.g, i)
                                     listed == Header!ResolveParentClass(i, c.g.imports, c.g.exports)
                                 IN linked.error = listed.error /\ (Linker!IsObject(c.g, i) => linked.name = listed.name)
  <2>1. IsGraph(c.g)
    BY <1>5 DEF IsHeaderCase
  <2>2. \A i \in -3..3 : i \in Int
    OBVIOUS
  <2> QED
    BY <2>1, <2>2, TreeIsAlwaysWhole, NamesAlwaysFollowOuters, NothingIsEverLostSilently, LinkerAgrees
<1>6. ASSUME c.p = "hash" PROVE Linker!HashIsUndone(c.path, c.digits)
  <2>1. c.path \in Seq(Int) /\ c.digits \in Seq(Digits) /\ Digits \subseteq Int /\ Underscore \in Int
    BY <1>6, HeaderAssumption DEF IsHeaderCase
  <2>2. PICK digits \in Seq(Digits) : digits = c.digits
    BY <2>1
  <2>3. \A i \in 1..Len(digits) : digits[i] \in Digits
    OBVIOUS
  <2>4. digits \in Seq(Int)
    <3>1. Len(digits) \in Nat /\ DOMAIN digits = 1..Len(digits)
      OBVIOUS
    <3>2. \A i \in 1..Len(digits) : digits[i] \in Int
      BY <2>1, <2>3
    <3>3. digits = [i \in 1..Len(digits) |-> digits[i]]
      BY <3>1
    <3>4. digits \in [1..Len(digits) -> Int]
      BY ONLY <3>2, <3>3
    <3> QED
      BY ONLY <3>1, <3>4, IsASeq
  <2> QED
    BY <2>1, <2>2, <2>3, <2>4, HashGoes
<1> QED
  BY <1>1, <1>2, <1>3, <1>4, <1>5, <1>6 DEF HeaderIsGuarded

-----------------------------------------------------------------------------
(* The container readers share their helpers.                               *)

LEMMA CodecIsShared ==
  ASSUME NEW s, NEW from, NEW n, NEW m
  PROVE  /\ Io!Slice(s, from, n) = Pak!Slice(s, from, n)
         /\ Io!Aligned(n) = Pak!Aligned(n)
         /\ Io!DecryptAesEcb(n, s) = Pak!DecryptAesEcb(n, s)
         /\ Io!Decompress(s, n, m) = Pak!Decompress(s, n, m)
         /\ Io!Fail = Pak!Fail /\ Io!Fine(s) = Pak!Fine(s)
<1>1. \A t : Io!Min(t) = Pak!Min(t)
  BY Zenon DEF Io!Min, Pak!Min
<1>2. \A t, a, b : Io!Slice(t, a, b) = Pak!Slice(t, a, b)
  BY <1>1, Zenon DEF Io!Slice, Pak!Slice
<1>3. Io!Aligned(n) = Pak!Aligned(n)
  BY Zenon DEF Io!Aligned, Pak!Aligned
<1>4. Io!DecryptAesEcb(n, s) = Pak!DecryptAesEcb(n, s)
  BY Zenon DEF Io!DecryptAesEcb, Pak!DecryptAesEcb, Io!Garbled, Pak!Garbled
<1>5. Io!Fail = Pak!Fail /\ \A t : Io!Fine(t) = Pak!Fine(t)
  BY Zenon DEF Io!Fail, Pak!Fail, Io!Fine, Pak!Fine
<1>6. Io!Doubled(s) = Pak!Doubled(s)
  BY Zenon DEF Io!Doubled, Pak!Doubled
<1>7. Io!Decompress(s, n, m) = Pak!Decompress(s, n, m)
  BY <1>2, <1>5, <1>6, Zenon DEF Io!Decompress, Pak!Decompress
<1> QED
  BY <1>2, <1>3, <1>4, <1>5, <1>7

LEMMA LeastOfStore ==
  ASSUME NEW S, S # {}, NEW n \in Nat, S \subseteq 1..n
  PROVE  Io!Min(S) \in S /\ \A x \in S : Io!Min(S) <= x
<1>1. IsFiniteSet(S) /\ S \subseteq Int
  <2>1. IsFiniteSet(1..n)
    BY FS_Interval
  <2>2. IsFiniteSet(S)
    BY <2>1, FS_Subset
  <2>3. S \subseteq Int
    BY ONLY S \subseteq 1..n, n \in Nat
  <2> QED
    BY <2>2, <2>3
<1>2. Min(S) \in S /\ \A x \in S : Min(S) <= x
  BY <1>1, MinIsLeast
<1>3. Io!Min(S) = Min(S)
  BY Zenon DEF Io!Min, Min
<1> QED
  BY <1>2, <1>3

-----------------------------------------------------------------------------
(* Opening a container.                                                     *)

TocHeader == [version : Nat, entries : Nat, seeds : Nat, without : Nat, blocks : Nat, names : Nat, signed : BOOLEAN,
              indexed : BOOLEAN, index : Nat, parts : Nat]

\* The sums of the sizes of ever more sections.
Sizes(S, n, g) == g = [k \in 0..n |-> IF k = 0 THEN 0 ELSE g[k - 1] + S[k].size]

LEMMA NeededIsNumber ==
  ASSUME NEW S, NEW n \in Nat, Len(S) = n, \A k \in 1..n : S[k].size \in Nat
  PROVE  \A k \in 1..n : Io!Needed(S)[k] \in Nat
<1> DEFINE h == [x \in (1..n) \X Nat |-> x[2] + S[x[1]].size]
<1>1. h \in [(1..n) \X Nat -> Nat]
  OBVIOUS
<1>2. \A k \in 1..n : \A m \in Nat : h[<<k, m>>] = m + S[k].size
  OBVIOUS
<1> HIDE DEF h
<1>3. PICK f \in [0..n -> Nat] : f[0] = 0 /\ \A k \in 1..n : f[k] = h[<<k, f[k - 1]>>]
  <2>1. HasRecursion(Nat, 0, n, h)
    BY <1>1, RecursiveFunction
  <2> QED
    BY <2>1 DEF HasRecursion
<1>4. Sizes(S, n, f)
  <2>1. ASSUME NEW k \in 0..n PROVE f[k] = IF k = 0 THEN 0 ELSE f[k - 1] + S[k].size
    <3>1. CASE k = 0
      BY <1>3, <3>1
    <3>2. CASE k # 0
      <4>1. k \in 1..n /\ k - 1 \in 0..n
        BY <3>2
      <4> QED
        BY <1>2, <1>3, <3>2, <4>1
    <3> QED
      BY <3>1, <3>2
  <2> QED
    BY <2>1 DEF Sizes
<1>5. PICK g : g = (CHOOSE s : Sizes(S, n, s)) /\ Sizes(S, n, g)
  BY <1>4
<1>6. Io!Needed(S) = g
  BY <1>5, Len(S) = n, Zenon DEF Io!Needed, Sizes
<1>7. \A k \in 0..n : g[k] = IF k = 0 THEN 0 ELSE g[k - 1] + S[k].size
  BY <1>5 DEF Sizes
<1> DEFINE P == {k \in Nat : k <= n => g[k] \in Nat}
<1>8. 0 \in P
  BY <1>7
<1>9. ASSUME NEW k \in P PROVE k + 1 \in P
  <2> SUFFICES ASSUME k + 1 <= n PROVE g[k + 1] \in Nat
    OBVIOUS
  <2>1. k + 1 \in 0..n /\ k + 1 # 0 /\ (k + 1) - 1 = k /\ g[k] \in Nat /\ k + 1 \in 1..n
    OBVIOUS
  <2>2. g[k + 1] = g[k] + S[k + 1].size
    BY <1>7, <2>1
  <2> QED
    BY <2>1, <2>2
<1> HIDE DEF P
<1>10. P = Nat
  BY <1>8, <1>9, NaturalsByInduction DEF P
<1> QED
  BY <1>6, <1>10 DEF P

LEMMA SectionsAre ==
  ASSUME NEW h \in TocHeader
  PROVE  /\ Len(Io!Sections(h)) = 8 /\ DOMAIN Io!Sections(h) = 1..8
         /\ \A k \in 1..8 : /\ Io!Sections(h)[k].size \in Nat /\ Io!Sections(h)[k].over \in BOOLEAN
                            /\ Io!Sections(h)[k].short \in {"ValueError", "struct.error", "nothing"}
                            /\ Io!Sections(h)[k].short = "nothing" <=> Io!Sections(h)[k].name = "signatures"
<1> DEFINE Good(s) == /\ s.size \in Nat /\ s.over \in BOOLEAN /\ s.short \in {"ValueError", "struct.error", "nothing"}
                      /\ s.short = "nothing" <=> s.name = "signatures"
<1>0. MaxEntries \in Nat
  BY StoreAssumption
<1>1. ASSUME NEW name, NEW size \in Nat, NEW over \in BOOLEAN, NEW short \in {"ValueError", "struct.error", "nothing"},
             short = "nothing" <=> name = "signatures"
      PROVE  Good(Io!Section(name, size, over, short))
  BY <1>1 DEF Io!Section
<1> HIDE DEF Good
<1>2. Good(Io!Header)
  BY <1>1 DEF Io!Header
<1>3. Good(Io!ChunkIds(h)) /\ Good(Io!ChunkOffsets(h))
  <2>1. h.entries \in Nat /\ (h.entries > MaxEntries) \in BOOLEAN
    BY <1>0 DEF TocHeader
  <2> QED
    BY <1>1, <2>1 DEF Io!ChunkIds, Io!ChunkOffsets
<1>4. Good(Io!PerfectHashSeeds(h))
  <2>1. (IF h.version >= 4 THEN h.seeds ELSE 0) + (IF h.version >= 5 THEN h.without ELSE 0) \in Nat
    BY DEF TocHeader
  <2> QED
    BY <1>1, <2>1 DEF Io!PerfectHashSeeds
<1>5. Good(Io!CompressionBlocks(h)) /\ Good(Io!CompressionMethods(h))
  <2>1. /\ h.blocks \in Nat /\ (h.blocks > MaxEntries) \in BOOLEAN
        /\ h.names \in Nat /\ (h.names > MaxEntries) \in BOOLEAN
    BY <1>0 DEF TocHeader
  <2> QED
    BY <1>1, <2>1 DEF Io!CompressionBlocks, Io!CompressionMethods
<1>6. Good(Io!Signatures(h))
  <2>1. (IF h.signed THEN 1 ELSE 0) \in Nat
    OBVIOUS
  <2> QED
    BY <1>1, <2>1 DEF Io!Signatures
<1>7. Good(Io!DirectoryIndex(h))
  <2> DEFINE read == h.version >= 2 /\ h.indexed
  <2>1. (IF read THEN h.index ELSE 0) \in Nat /\ (read /\ h.index > MaxEntries) \in BOOLEAN
    BY <1>0 DEF TocHeader
  <2> QED
    BY <1>1, <2>1 DEF Io!DirectoryIndex
<1>8. Io!Sections(h) = <<Io!Header, Io!ChunkIds(h), Io!ChunkOffsets(h), Io!PerfectHashSeeds(h), Io!CompressionBlocks(h),
                         Io!CompressionMethods(h), Io!Signatures(h), Io!DirectoryIndex(h)>>
  BY DEF Io!Sections
<1>9. /\ Len(Io!Sections(h)) = 8 /\ DOMAIN Io!Sections(h) = 1..8
      /\ \A k \in 1..8 : Good(Io!Sections(h)[k])
  <2>1. \A k \in 1..8 : k = 1 \/ k = 2 \/ k = 3 \/ k = 4 \/ k = 5 \/ k = 6 \/ k = 7 \/ k = 8
    OBVIOUS
  <2> QED
    BY <1>2, <1>3, <1>4, <1>5, <1>6, <1>7, <1>8, <2>1
<1> QED
  BY <1>9 DEF Good

LEMMA ContainerOpensWhole ==
  ASSUME NEW h \in TocHeader, NEW units \in Nat, NEW existing \in Nat
  PROVE  Io!OpenIsWhole(h, units, existing)
<1> DEFINE S == Io!Sections(h)
           need == Io!Needed(S)
           Bad(k) == S[k].over \/ (need[k] > units /\ S[k].short # "nothing")
           bad == {k \in DOMAIN S : Bad(k)}
           k == Io!Min(bad)
           parts == Io!OpenParts(h, existing)
           raised == IF bad # {} THEN (IF S[k].over THEN "ParseError" ELSE S[k].short) ELSE parts.raised
           held == {0} \cup (IF bad # {} THEN {} ELSE parts.open)
           o == Io!Open(h, units, existing)
           fits == \A i \in DOMAIN S : ~S[i].over /\ (need[i] <= units \/ S[i].name = "signatures")
<1>1. /\ Len(S) = 8 /\ DOMAIN S = 1..8
      /\ \A i \in 1..8 : /\ S[i].size \in Nat /\ S[i].over \in BOOLEAN
                         /\ S[i].short \in {"ValueError", "struct.error", "nothing"}
                         /\ S[i].short = "nothing" <=> S[i].name = "signatures"
  BY SectionsAre
<1>2. o = [raised |-> raised, open |-> IF raised \in Io!Caught THEN Io!Closed ELSE held]
  BY Zenon DEF Io!Open
<1> HIDE DEF o, S
<1>3. \A i \in 1..8 : need[i] \in Nat
  BY <1>1, NeededIsNumber
<1> HIDE DEF need
<1>4. fits <=> bad = {}
  BY <1>1, <1>3
<1>5. bad # {} => k \in bad
  <2>1. bad \subseteq 1..8
    BY <1>1
  <2> HIDE DEF bad
  <2> QED
    BY <2>1, LeastOfStore
<1>6. bad # {} => raised \in {"ParseError", "ValueError", "struct.error"}
  <2>1. k \in bad => S[k].over \/ S[k].short \in {"ValueError", "struct.error"}
    BY <1>1, ZenonT(30)
  <2> HIDE DEF bad, k
  <2> QED
    BY <1>5, <2>1, SMTT(30)
<1>7. /\ Io!Parts(h) \in Nat /\ MaxEntries \in Nat
      /\ parts.raised \in {"none", "ParseError", "OSError"}
      /\ parts.raised = "none" <=> existing >= Io!Parts(h) /\ Io!Parts(h) <= MaxEntries
      /\ parts.raised = "none" => parts.open = 1..Io!Parts(h)
  <2>1. Io!Parts(h) \in Nat /\ MaxEntries \in Nat
    BY StoreAssumption DEF Io!Parts, TocHeader
  <2>2. CASE Io!Parts(h) > MaxEntries
    <3>1. parts = [raised |-> "ParseError", open |-> {}]
      BY <2>1, <2>2 DEF Io!OpenParts
    <3> QED
      BY <2>1, <2>2, <3>1
  <2>3. CASE Io!Parts(h) <= MaxEntries /\ existing < Io!Parts(h)
    <3>1. parts = [raised |-> "OSError", open |-> 1..existing]
      BY <2>1, <2>3 DEF Io!OpenParts
    <3> QED
      BY <2>1, <2>3, <3>1
  <2>4. CASE Io!Parts(h) <= MaxEntries /\ ~(existing < Io!Parts(h))
    <3>1. parts = [raised |-> "none", open |-> 1..Io!Parts(h)]
      BY <2>1, <2>4 DEF Io!OpenParts
    <3> QED
      BY <2>1, <2>4, <3>1
  <2> QED
    BY <2>1, <2>2, <2>3, <2>4
<1> HIDE DEF bad, parts, fits, k
<1>8. raised = "none" <=> bad = {} /\ parts.raised = "none"
  BY <1>6
<1>9. o.raised = raised /\ (raised = "none" => o.open = held) /\ (raised \in Io!Caught => o.open = {})
  BY <1>2 DEF Io!Caught, Io!Closed
<1>10. raised = "none" => held = 0..Io!Parts(h)
  <2>1. {0} \cup (1..Io!Parts(h)) = 0..Io!Parts(h)
    BY <1>7
  <2> QED
    BY <1>7, <1>8, <2>1
<1> HIDE DEF raised, held
<1>11. /\ o.raised = "none" <=> fits /\ existing >= Io!Parts(h) /\ Io!Parts(h) <= MaxEntries
       /\ o.raised = "none" => o.open = 0..Io!Parts(h)
       /\ o.raised \in Io!Caught => o.open = {}
  BY <1>4, <1>7, <1>8, <1>9, <1>10
<1> QED
  BY <1>11, Zenon DEF Io!OpenIsWhole, o, fits, need, S

-----------------------------------------------------------------------------
(* Finding a chunk.                                                         *)

Byte == 0..(Modulus - 1)
\* The seeds are signed; those used to hash are bytes of the same width.
ChunkTable == [ids : Seq(Seq(Byte)), seeds : Seq({s \in Int : s < Modulus}), without : Seq(Int)]

Hashes(id, seed, n, g) == g = [k \in 0..n |-> IF k = 0 THEN BitXor(Basis, seed) ELSE (BitXor(g[k - 1], id[k]) * Prime) % Modulus]

LEMMA HashIsNumber ==
  ASSUME NEW id \in Seq(Byte), NEW seed \in Byte
  PROVE  Io!HashWithSeed(id, seed) \in Byte
<1> DEFINE n == Len(id)
           h == [x \in (1..n) \X Byte |-> (BitXor(x[2], id[x[1]]) * Prime) % Modulus]
<1>0. Modulus \in Nat \ {0} /\ Prime \in Nat /\ Basis \in Byte /\ \A a, b \in Byte : BitXor(a, b) \in Byte
  BY StoreAssumption DEF Byte
<1>1. n \in Nat /\ \A k \in 1..n : id[k] \in Byte
  OBVIOUS
<1> HIDE DEF n
<1>2. ASSUME NEW a \in Byte, NEW b \in Byte PROVE (BitXor(a, b) * Prime) % Modulus \in Byte
  <2>1. BitXor(a, b) \in Nat
    <3>1. BitXor(a, b) \in Byte
      BY <1>0
    <3> QED
      BY ONLY <1>0, <3>1 DEF Byte
  <2>2. BitXor(a, b) * Prime \in Nat
    BY ONLY <1>0, <2>1
  <2>3. \A x \in Nat : x % Modulus \in 0..(Modulus - 1)
    BY ONLY <1>0
  <2> QED
    BY ONLY <2>2, <2>3 DEF Byte
<1>3. h \in [(1..n) \X Byte -> Byte]
  <2>1. ASSUME NEW x \in (1..n) \X Byte PROVE (BitXor(x[2], id[x[1]]) * Prime) % Modulus \in Byte
    BY <1>1, <1>2
  <2> QED
    BY <2>1
<1>4. \A k \in 1..n : \A m \in Byte : h[<<k, m>>] = (BitXor(m, id[k]) * Prime) % Modulus
  OBVIOUS
<1> HIDE DEF h
<1>5. BitXor(Basis, seed) \in Byte
  BY <1>0
<1>6. PICK f \in [0..n -> Byte] : f[0] = BitXor(Basis, seed) /\ \A k \in 1..n : f[k] = h[<<k, f[k - 1]>>]
  <2>1. HasRecursion(Byte, BitXor(Basis, seed), n, h)
    BY ONLY <1>1, <1>3, <1>5, RecursiveFunction
  <2> QED
    BY <2>1 DEF HasRecursion
<1>7. Hashes(id, seed, n, f)
  <2>1. ASSUME NEW k \in 0..n PROVE f[k] = IF k = 0 THEN BitXor(Basis, seed) ELSE (BitXor(f[k - 1], id[k]) * Prime) % Modulus
    <3>1. CASE k = 0
      BY <1>6, <3>1
    <3>2. CASE k # 0
      <4>1. k \in 1..n /\ k - 1 \in 0..n
        BY <1>1, <3>2
      <4>2. f[k - 1] \in Byte /\ f[k] = h[<<k, f[k - 1]>>]
        BY <1>6, <4>1
      <4> QED
        BY <1>4, <3>2, <4>1, <4>2
    <3> QED
      BY <3>1, <3>2
  <2> QED
    BY <2>1 DEF Hashes
<1>8. PICK g : g = (CHOOSE s : Hashes(id, seed, n, s)) /\ Hashes(id, seed, n, g)
  BY <1>7
<1>9. Io!HashWithSeed(id, seed) = g[n]
  BY <1>8, Zenon DEF Io!HashWithSeed, Hashes, n
<1>10. \A k \in 0..n : g[k] = IF k = 0 THEN BitXor(Basis, seed) ELSE (BitXor(g[k - 1], id[k]) * Prime) % Modulus
  BY <1>8 DEF Hashes
<1> DEFINE P == {k \in Nat : k <= n => g[k] \in Byte}
<1>11. 0 \in P
  BY <1>1, <1>5, <1>10
<1>12. ASSUME NEW k \in P PROVE k + 1 \in P
  <2> SUFFICES ASSUME k + 1 <= n PROVE g[k + 1] \in Byte
    OBVIOUS
  <2>1. k + 1 \in 0..n /\ k + 1 # 0 /\ (k + 1) - 1 = k /\ g[k] \in Byte /\ k + 1 \in 1..n
    BY <1>1
  <2>2. g[k + 1] = (BitXor(g[k], id[k + 1]) * Prime) % Modulus
    BY <1>10, <2>1
  <2> QED
    BY <1>1, <1>2, <2>1, <2>2
<1> HIDE DEF P
<1>13. P = Nat
  BY <1>11, <1>12, NaturalsByInduction DEF P
<1> QED
  BY <1>1, <1>9, <1>13 DEF P
LEMMA SeedIsNumber ==
  ASSUME NEW t \in ChunkTable, NEW id \in Seq(Byte), t.seeds # <<>>
  PROVE  /\ t.seeds[(Io!HashWithSeed(id, 0) % Len(t.seeds)) + 1] \in Int
         /\ t.seeds[(Io!HashWithSeed(id, 0) % Len(t.seeds)) + 1] < Modulus
<1>1. Modulus \in Nat \ {0} /\ 0 \in Byte
  BY StoreAssumption DEF Byte
<1>2. PICK h \in Nat : h = Io!HashWithSeed(id, 0)
  <2>1. Io!HashWithSeed(id, 0) \in Byte
    BY <1>1, HashIsNumber
  <2> QED
    BY <1>1, <2>1 DEF Byte
<1>3. t.seeds \in Seq({s \in Int : s < Modulus}) /\ Len(t.seeds) \in Nat \ {0}
  BY DEF ChunkTable
<1>4. (h % Len(t.seeds)) + 1 \in 1..Len(t.seeds)
  BY ONLY <1>2, <1>3
<1>5. t.seeds[(h % Len(t.seeds)) + 1] \in {s \in Int : s < Modulus}
  BY ONLY <1>3, <1>4
<1> QED
  BY <1>2, <1>5

\* The map past the hash: what is found there is the chunk, and each chunk
\* that is listed is found when no other has its identifier.
LEMMA FoundPastTheHash ==
  ASSUME NEW t \in ChunkTable, NEW id
  PROVE  LET r == Io!ResolveImperfect(t, id)
         IN /\ r # 0 => r \in DOMAIN t.ids /\ t.ids[r] = id
            /\ \A i \in DOMAIN t.ids :
                 /\ t.ids[i] = id /\ Io!IsInjective(t.ids)
                 /\ t.seeds = <<>> \/ t.without = <<>> \/ i - 1 \in Io!Range(t.without)
                 => r = i
<1> DEFINE mapped == t.seeds # <<>> /\ t.without # <<>>
           from == IF mapped THEN Io!FallbackMap(t) ELSE DOMAIN t.ids
           at == {i \in from : t.ids[i] = id}
           K == {k \in DOMAIN t.without : t.without[k] + 1 \in at}
           r == Io!ResolveImperfect(t, id)
<1>1. r = IF at = {} THEN 0 ELSE IF mapped THEN 1 + t.without[Io!Max(K)] ELSE Io!Min(at)
  BY Zenon DEF Io!ResolveImperfect
<1>2. /\ t.ids \in Seq(Seq(Byte)) /\ t.without \in Seq(Int) /\ Len(t.ids) \in Nat /\ Len(t.without) \in Nat
      /\ DOMAIN t.ids = 1..Len(t.ids) /\ DOMAIN t.without = 1..Len(t.without)
      /\ \A k \in DOMAIN t.without : t.without[k] \in Int
  BY DEF ChunkTable
<1>3. mapped => \A i : i \in from <=> i \in DOMAIN t.ids /\ \E k \in DOMAIN t.without : t.without[k] + 1 = i
  <2> SUFFICES ASSUME mapped PROVE \A i : i \in from <=> i \in DOMAIN t.ids /\ \E k \in DOMAIN t.without : t.without[k] + 1 = i
    OBVIOUS
  <2>1. from = {i + 1 : i \in {j \in {t.without[k] : k \in DOMAIN t.without} : j \in 0..(Len(t.ids) - 1)}}
    BY DEF Io!FallbackMap, Io!Range
  <2> HIDE DEF from, mapped
  <2>2. ASSUME NEW i, i \in from PROVE i \in DOMAIN t.ids /\ \E k \in DOMAIN t.without : t.without[k] + 1 = i
    <3>1. PICK k \in DOMAIN t.without : t.without[k] \in 0..(Len(t.ids) - 1) /\ i = t.without[k] + 1
      BY <2>1, <2>2
    <3> QED
      BY <1>2, <3>1, SMTT(30)
  <2>3. ASSUME NEW i \in DOMAIN t.ids, NEW k \in DOMAIN t.without, t.without[k] + 1 = i PROVE i \in from
    <3>1. t.without[k] \in Int /\ t.without[k] \in 0..(Len(t.ids) - 1)
      BY <1>2, <2>3
    <3> QED
      BY <2>1, <2>3, <3>1
  <2> QED
    BY <2>2, <2>3
<1>4. at \subseteq DOMAIN t.ids
  BY <1>3
<1>5. \A i \in at : t.ids[i] = id
  OBVIOUS
<1> HIDE DEF r, from
<1>6. ASSUME at # {} PROVE r \in at
  <2>1. CASE mapped
    <3>1. K # {}
      BY <1>3, <1>6, <2>1
    <3>2. Io!Max(K) \in K
      <4>1. K \subseteq 1..Len(t.without)
        BY <1>2
      <4> HIDE DEF K
      <4>2. IsFiniteSet(1..Len(t.without))
        BY <1>2, FS_Interval
      <4>3. IsFiniteSet(K) /\ K \subseteq Int
        <5>1. IsFiniteSet(K)
          BY <4>1, <4>2, FS_Subset
        <5>2. K \subseteq Int
          BY ONLY <1>2, <4>1
        <5> QED
          BY <5>1, <5>2
      <4>4. Max(K) \in K
        BY <3>1, <4>3, MaxIsGreatest
      <4>5. Io!Max(K) = Max(K)
        BY Zenon DEF Io!Max, Max
      <4> QED
        BY <4>4, <4>5
    <3>3. t.without[Io!Max(K)] + 1 \in at /\ t.without[Io!Max(K)] \in Int
      BY <1>2, <3>2
    <3> HIDE DEF K, at
    <3>4. r = 1 + t.without[Io!Max(K)]
      BY <1>1, <1>6, <2>1
    <3> QED
      BY <3>3, <3>4
  <2>2. CASE ~mapped
    <3> HIDE DEF at, mapped
    <3>1. at \subseteq 1..Len(t.ids) /\ Len(t.ids) \in Nat
      BY <1>2, <1>4
    <3>2. Io!Min(at) \in at
      BY <1>6, <3>1, LeastOfStore
    <3> QED
      BY <1>1, <1>6, <2>2, <3>2
  <2> QED
    BY <2>1, <2>2
<1>7. r # 0 => r \in DOMAIN t.ids /\ t.ids[r] = id
  <2> HIDE DEF at
  <2> QED
    BY <1>1, <1>4, <1>5, <1>6
<1>8. ASSUME NEW i \in DOMAIN t.ids, t.ids[i] = id, Io!IsInjective(t.ids),
             t.seeds = <<>> \/ t.without = <<>> \/ i - 1 \in Io!Range(t.without)
      PROVE  r = i
  <2>1. \A j \in at : j = i
    BY <1>4, <1>5, <1>8 DEF Io!IsInjective
  <2>2. i \in at
    <3>1. i \in from
      <4>1. CASE mapped
        <5>1. PICK k \in DOMAIN t.without : t.without[k] = i - 1
          BY <1>8, <4>1 DEF Io!Range
        <5>2. t.without[k] + 1 = i
          BY <1>2, <1>8, <5>1
        <5> QED
          BY <1>3, <4>1, <5>2
      <4>2. CASE ~mapped
        BY <4>2 DEF from
      <4> QED
        BY <4>1, <4>2
    <3> QED
      BY <1>8, <3>1
  <2> HIDE DEF at
  <2> QED
    BY <1>6, <2>1, <2>2
<1> QED
  BY <1>7, <1>8 DEF r

LEMMA ChunkIsFound ==
  ASSUME NEW t \in ChunkTable, NEW ids \in SUBSET Seq(Byte)
  PROVE  Io!ChunkFoundIsAsked(t, ids)
<1> DEFINE Seed(id) == t.seeds[(Io!HashWithSeed(id, 0) % Len(t.seeds)) + 1]
           Slot(id) == 1 + IF Seed(id) < 0 THEN -Seed(id) - 1 ELSE (Io!HashWithSeed(id, Seed(id)) % Len(t.ids))
           R(id) == Io!ResolveChunk(t, id)
           Past(id) == Io!ResolveImperfect(t, id)
<1>1. \A id : R(id) = IF t.seeds # <<>>
                      THEN IF Len(t.ids) = 0 \/ Seed(id) = 0 THEN 0
                           ELSE IF Seed(id) < 0 /\ -Seed(id) - 1 >= Len(t.ids) THEN Past(id)
                           ELSE IF t.ids[Slot(id)] = id THEN Slot(id) ELSE 0
                      ELSE Past(id)
  BY Zenon DEF Io!ResolveChunk, Io!ResolvePerfect
<1>2. \A id : Past(id) # 0 => t.ids[Past(id)] = id
  BY FoundPastTheHash
<1>3. \A id, i : /\ i \in DOMAIN t.ids /\ t.ids[i] = id /\ Io!IsInjective(t.ids)
                 /\ t.seeds = <<>> \/ t.without = <<>> \/ i - 1 \in Io!Range(t.without)
                 => Past(id) = i
  BY FoundPastTheHash
<1> HIDE DEF R, Past
<1>4. \A id : R(id) # 0 => t.ids[R(id)] = id
  <2> HIDE DEF Seed, Slot
  <2> QED
    BY <1>1, <1>2
<1>5. ASSUME NEW i \in DOMAIN t.ids, t.seeds = <<>> \/ Io!Placed(t, i), Io!IsInjective(t.ids)
      PROVE  R(t.ids[i]) = i
  <2> DEFINE id == t.ids[i]
  <2>0. id \in Seq(Byte) /\ i \in 1..Len(t.ids) /\ Len(t.ids) \in Nat /\ i \in Nat
    BY DEF ChunkTable
  <2>1. CASE t.seeds = <<>>
    BY <1>1, <1>3, <1>5, <2>1
  <2>2. CASE t.seeds # <<>>
    <3>1. Seed(id) \in Int
      BY <2>0, <2>2, SeedIsNumber
    <3>2. \/ Seed(id) < 0 /\ -Seed(id) = i
          \/ Seed(id) < 0 /\ -Seed(id) > Len(t.ids) /\ (t.without = <<>> \/ i - 1 \in Io!Range(t.without))
          \/ Seed(id) > 0 /\ (Io!HashWithSeed(id, Seed(id)) % Len(t.ids)) + 1 = i
      BY <1>5, <2>2, Zenon DEF Io!Placed
    <3>3. R(id) = IF Seed(id) = 0 THEN 0
                  ELSE IF Seed(id) < 0 /\ -Seed(id) - 1 >= Len(t.ids) THEN Past(id)
                  ELSE IF t.ids[Slot(id)] = id THEN Slot(id) ELSE 0
      <4>1. Len(t.ids) # 0
        BY <2>0
      <4> HIDE DEF Seed, Slot
      <4> QED
        BY <1>1, <2>2, <4>1
    <3> HIDE DEF Seed
    <3>4. CASE Seed(id) < 0 /\ -Seed(id) = i
      <4>1. Seed(id) # 0 /\ ~(-Seed(id) - 1 >= Len(t.ids))
        BY <2>0, <3>1, <3>4
      <4>2. Slot(id) = i
        BY <2>0, <3>1, <3>4
      <4> HIDE DEF Slot
      <4> QED
        BY <3>3, <4>1, <4>2
    <3>5. CASE Seed(id) < 0 /\ -Seed(id) > Len(t.ids) /\ (t.without = <<>> \/ i - 1 \in Io!Range(t.without))
      <4>1. Seed(id) # 0 /\ -Seed(id) - 1 >= Len(t.ids)
        BY <2>0, <3>1, <3>5
      <4>2. Past(id) = i
        BY <1>3, <1>5, <3>5
      <4> HIDE DEF Slot
      <4> QED
        BY <3>3, <3>5, <4>1, <4>2
    <3>6. CASE Seed(id) > 0 /\ (Io!HashWithSeed(id, Seed(id)) % Len(t.ids)) + 1 = i
      <4>1. Seed(id) # 0 /\ ~(Seed(id) < 0)
        BY <3>1, <3>6
      <4>2. Slot(id) = i
        <5>1. PICK x : x = Io!HashWithSeed(id, Seed(id)) % Len(t.ids)
          OBVIOUS
        <5>2. x \in Int
          <6>1. Modulus \in Nat /\ Seed(id) < Modulus
            BY <2>0, <2>2, SeedIsNumber, StoreAssumption DEF Seed
          <6>2. Seed(id) \in Byte
            BY <3>1, <3>6, <6>1 DEF Byte
          <6>3. Io!HashWithSeed(id, Seed(id)) \in Byte
            BY <2>0, <6>2, HashIsNumber
          <6>4. PICK y \in Nat : y = Io!HashWithSeed(id, Seed(id))
            BY <6>1, <6>3 DEF Byte
          <6>5. y % Len(t.ids) \in Int
            BY ONLY <2>0, y \in Nat
          <6> QED
            BY <5>1, <6>4, <6>5
        <5>3. Slot(id) = 1 + x
          BY <4>1, <5>1
        <5> QED
          BY <3>6, <5>1, <5>2, <5>3
      <4> HIDE DEF Slot
      <4> QED
        BY <3>3, <4>1, <4>2
    <3> QED
      BY <3>2, <3>4, <3>5, <3>6
  <2> QED
    BY <2>1, <2>2
<1> QED
  BY <1>4, <1>5, Zenon DEF Io!ChunkFoundIsAsked, R

-----------------------------------------------------------------------------
(* Loops: the value after each round, from a given one.                     *)

\* g is what a loop of n rounds goes through: h takes it from round to round.
IsLoop(g, n, v, h) == g = [k \in 0..n |-> IF k = 0 THEN v ELSE h[<<k, g[k - 1]>>]]

LEMMA LoopInvariant ==
  ASSUME NEW n \in Nat, NEW g, NEW Inv, <<0, g[0]>> \in Inv,
         \A k \in 1..n : <<k - 1, g[k - 1]>> \in Inv => <<k, g[k]>> \in Inv
  PROVE  \A k \in 0..n : <<k, g[k]>> \in Inv
<1> DEFINE P == {k \in Nat : k <= n => <<k, g[k]>> \in Inv}
<1>1. 0 \in P
  OBVIOUS
<1>2. ASSUME NEW k \in P PROVE k + 1 \in P
  <2>1. (k + 1) - 1 = k /\ (k + 1 <= n => k + 1 \in 1..n /\ k <= n)
    OBVIOUS
  <2>2. k + 1 <= n => <<k, g[k]>> \in Inv
    BY <2>1
  <2>3. k + 1 <= n => <<k + 1, g[k + 1]>> \in Inv
    BY <2>1, <2>2
  <2> QED
    BY <2>3
<1> HIDE DEF P
<1>3. P = Nat
  BY <1>1, <1>2, NaturalsByInduction DEF P
<1> QED
  BY <1>3 DEF P

\* A loop whose rounds keep an invariant exists: it does not leave V.
LEMMA LoopExists ==
  ASSUME NEW n \in Nat, NEW V, NEW v, NEW h, NEW Inv \in SUBSET ((0..n) \X V), <<0, v>> \in Inv,
         \A k \in 1..n : \A s \in V : <<k - 1, s>> \in Inv => <<k, h[<<k, s>>]>> \in Inv
  PROVE  \E g : IsLoop(g, n, v, h) /\ \A k \in 0..n : <<k, g[k]>> \in Inv
<1> DEFINE t == [x \in (1..n) \X V |-> IF <<x[1], h[x]>> \in Inv THEN h[x] ELSE v]
<1>1. v \in V /\ t \in [(1..n) \X V -> V]
  OBVIOUS
<1>2. \A k \in 1..n : \A s \in V : t[<<k, s>>] = IF <<k, h[<<k, s>>]>> \in Inv THEN h[<<k, s>>] ELSE v
  OBVIOUS
<1> HIDE DEF t
<1>3. PICK f \in [0..n -> V] : f[0] = v /\ \A k \in 1..n : f[k] = t[<<k, f[k - 1]>>]
  <2>1. HasRecursion(V, v, n, t)
    BY <1>1, RecursiveFunction
  <2> QED
    BY <2>1 DEF HasRecursion
<1>4. \A k \in 1..n : k - 1 \in 0..n
  OBVIOUS
<1>5. ASSUME NEW k \in 1..n, <<k - 1, f[k - 1]>> \in Inv PROVE f[k] = h[<<k, f[k - 1]>>] /\ <<k, f[k]>> \in Inv
  <2>1. f[k - 1] \in V
    BY <1>3, <1>4
  <2>2. <<k, h[<<k, f[k - 1]>>]>> \in Inv
    BY <1>5, <2>1
  <2> QED
    BY <1>2, <1>3, <2>1, <2>2
<1>6. \A k \in 0..n : <<k, f[k]>> \in Inv
  <2>1. <<0, f[0]>> \in Inv
    BY <1>3
  <2>2. \A k \in 1..n : <<k - 1, f[k - 1]>> \in Inv => <<k, f[k]>> \in Inv
    BY <1>5
  <2> QED
    BY <2>1, <2>2, LoopInvariant
<1>7. \A k \in 0..n : f[k] = IF k = 0 THEN v ELSE h[<<k, f[k - 1]>>]
  <2>1. \A k \in 0..n : k # 0 => k \in 1..n
    OBVIOUS
  <2> QED
    BY <1>3, <1>4, <1>5, <1>6, <2>1
<1>8. IsLoop(f, n, v, h)
  <2>1. f = [k \in 0..n |-> f[k]]
    BY <1>3
  <2> QED
    BY <1>7, <2>1 DEF IsLoop
<1> QED
  BY <1>6, <1>8

-----------------------------------------------------------------------------
(* Whole units of the cipher.                                               *)

UnitsOf(n) == \E k \in Int : n = Align * k

LEMMA UnitsAddUp ==
  ASSUME NEW a \in Int, NEW b \in Int, UnitsOf(a), UnitsOf(b)
  PROVE  UnitsOf(a + b) /\ UnitsOf(a - b)
<1>1. Align \in Int
  BY PakAssumption
<1>2. PICK k \in Int, m \in Int : a = Align * k /\ b = Align * m
  BY DEF UnitsOf
<1>3. a + b = Align * (k + m) /\ a - b = Align * (k - m)
  BY ONLY <1>1, <1>2
<1> QED
  BY <1>2, <1>3 DEF UnitsOf

LEMMA UnitsByRest ==
  ASSUME NEW n \in Nat
  PROVE  n % Align = 0 <=> UnitsOf(n)
<1>1. Align \in Nat \ {0}
  BY PakAssumption
<1>2. n % Align \in 0..(Align - 1) /\ n \div Align \in Int /\ (n % Align) + Align * (n \div Align) = n
  BY ONLY <1>1, n \in Nat
<1>3. ASSUME n % Align = 0 PROVE UnitsOf(n)
  <2>1. n = Align * (n \div Align)
    BY <1>1, <1>2, <1>3
  <2> QED
    BY <1>2, <2>1 DEF UnitsOf
<1>4. ASSUME NEW k \in Int, n = Align * k PROVE n % Align = 0
  <2>1. PICK q \in Int, r \in 0..(Align - 1) : q = n \div Align /\ r = n % Align /\ r + Align * q = n
    BY <1>2
  <2>2. PICK d \in Int : d = k - q
    OBVIOUS
  <2>3. Align * d = r
    BY ONLY <1>1, <1>4, <2>1, <2>2
  <2>4. d = 0
    <3>1. CASE d >= 1
      <4>1. Align * d >= Align
        BY ONLY <1>1, <2>2, <3>1
      <4> QED
        BY ONLY <1>1, <2>1, <2>3, <4>1
    <3>2. CASE d <= -1
      <4>1. Align * d <= -Align
        BY ONLY <1>1, <2>2, <3>2
      <4> QED
        BY ONLY <1>1, <2>1, <2>3, <4>1
    <3> QED
      BY ONLY <2>2, <3>1, <3>2
  <2> QED
    BY ONLY <1>1, <2>1, <2>3, <2>4
<1> QED
  BY <1>3, <1>4 DEF UnitsOf

\* What is read where a unit begins, in whole units, is what was written.
LEMMA WholeUnitsAreRead ==
  ASSUME NEW raw \in Seq(Nat), NEW at \in Nat, at % Align = 0, Len(raw) % Align = 0
  PROVE  Io!DecryptAesEcb(at, raw) = raw
<1>1. Align \in Nat \ {0} /\ Len(raw) \in Nat
  BY PakAssumption
<1>2. ASSUME NEW k \in 1..Len(raw) PROVE ((k - 1) \div Align + 1) * Align <= Len(raw)
  <2>1. PICK m \in Int : Len(raw) = Align * m
    BY <1>1, UnitsByRest DEF UnitsOf
  <2>2. PICK q \in Int : q = (k - 1) \div Align
    BY <1>1
  <2>3. Align * q <= k - 1
    <3>1. PICK j \in Nat : j = k - 1
      OBVIOUS
    <3>2. j % Align \in 0..(Align - 1) /\ (j % Align) + Align * (j \div Align) = j
      BY ONLY <1>1, <3>1
    <3>3. q = j \div Align
      BY <2>2, <3>1
    <3> QED
      BY ONLY <1>1, <2>2, <3>1, <3>2, <3>3
  <2>4. Align * q < Align * m
    <3>1. PICK x \in Int, y \in Int : x = Align * q /\ y = Align * m
      BY ONLY <1>1, <2>1, <2>2
    <3>2. x <= k - 1 /\ k <= y /\ k \in Int
      BY <2>1, <2>3, <3>1
    <3>3. x < y
      BY ONLY <3>1, <3>2
    <3> QED
      BY ONLY <3>1, <3>3
  <2>5. q < m
    <3>1. CASE q >= m
      <4>0. q - m \in Nat /\ q = m + (q - m)
        BY ONLY <3>1, <2>1, <2>2
      <4>1. PICK e \in Nat : q = m + e
        BY ONLY <4>0
      <4>2. Align * e >= 0 /\ Align * q = Align * m + Align * e
        BY ONLY <1>1, <2>1, <4>1
      <4> QED
        BY ONLY <1>1, <2>1, <2>2, <2>4, <4>1, <4>2
    <3> QED
      BY ONLY <2>1, <2>2, <3>1
  <2>0. m - q - 1 \in Nat /\ m = q + 1 + (m - q - 1)
    BY ONLY <2>1, <2>2, <2>5
  <2>6. PICK e \in Nat : m = q + 1 + e
    BY ONLY <2>0
  <2>7. Align * e >= 0 /\ Align * m = (q + 1) * Align + Align * e
    BY ONLY <1>1, <2>1, <2>2, <2>6
  <2>8. (q + 1) * Align <= Len(raw)
    BY ONLY <1>1, <2>1, <2>2, <2>6, <2>7
  <2> QED
    BY <2>2, <2>8
<1>3. DOMAIN raw = 1..Len(raw)
  OBVIOUS
<1>4. Io!DecryptAesEcb(at, raw) = [k \in DOMAIN raw |-> raw[k]]
  BY <1>2, <1>3 DEF Io!DecryptAesEcb
<1> QED
  BY <1>3, <1>4

\* What the cipher gives is what was written, or garbled.
LEMMA ReadOrGarbled ==
  ASSUME NEW at, NEW raw \in Seq(Nat), NEW k \in 1..Len(raw)
  PROVE  /\ Io!DecryptAesEcb(at, raw) \in Seq(Int) /\ Len(Io!DecryptAesEcb(at, raw)) = Len(raw)
         /\ Io!DecryptAesEcb(at, raw)[k] \in {raw[k], Io!Garbled}
<1>1. DOMAIN raw = 1..Len(raw) /\ Len(raw) \in Nat /\ \A j \in 1..Len(raw) : raw[j] \in Int
  OBVIOUS
<1>2. Io!DecryptAesEcb(at, raw) \in [1..Len(raw) -> Int]
  BY <1>1 DEF Io!DecryptAesEcb, Io!Garbled
<1>3. Io!DecryptAesEcb(at, raw)[k] \in {raw[k], Io!Garbled}
  BY <1>1 DEF Io!DecryptAesEcb
<1> QED
  BY <1>1, <1>2, <1>3

-----------------------------------------------------------------------------
(* Ranges of the bytes a container stands for.                              *)

StandsAt(val, all, from) == val \in Seq(Int) /\ \A j \in 1..Len(val) : val[j] = all[from + j]

LEMMA MoreIsRead ==
  ASSUME NEW all, NEW from \in Nat, NEW val, NEW bytes, StandsAt(val, all, from), StandsAt(bytes, all, from + Len(val))
  PROVE  StandsAt(val \o bytes, all, from) /\ Len(val \o bytes) = Len(val) + Len(bytes)
<1>1. val \in Seq(Int) /\ bytes \in Seq(Int) /\ Len(val) \in Nat /\ Len(bytes) \in Nat
  BY DEF StandsAt
<1>2. /\ val \o bytes \in Seq(Int) /\ Len(val \o bytes) = Len(val) + Len(bytes)
      /\ \A i \in 1..(Len(val) + Len(bytes)) : (val \o bytes)[i] = IF i <= Len(val) THEN val[i] ELSE bytes[i - Len(val)]
  BY <1>1, ConcatProperties
<1> DEFINE more == val \o bytes
<1> HIDE DEF more
<1>3. ASSUME NEW j \in 1..(Len(val) + Len(bytes)) PROVE more[j] = all[from + j]
  <2>1. CASE j <= Len(val)
    BY <1>1, <1>2, <2>1 DEF StandsAt, more
  <2>2. CASE ~(j <= Len(val))
    <3>0. j - Len(val) \in Int
      BY <1>1
    <3>1. PICK i \in Int : i = j - Len(val)
      BY <3>0
    <3>2. i \in 1..Len(bytes) /\ (from + Len(val)) + i = from + j
      BY <1>1, <2>2, <3>1
    <3>3. more[j] = bytes[i]
      BY <1>2, <2>2, <3>1 DEF more
    <3>4. bytes[i] = all[(from + Len(val)) + i]
      BY <3>2 DEF StandsAt
    <3> QED
      BY <3>2, <3>3, <3>4
  <2> QED
    BY <2>1, <2>2
<1> QED
  BY <1>2, <1>3 DEF StandsAt, more

\* A part of a sequence that is long enough is cut out whole.
Fits(T, s, from, n) == s \in Seq(T) /\ from \in Nat /\ n \in Nat /\ from + n <= Len(s)
IsCut(T, part, s, from, n) == part \in Seq(T) /\ Len(part) = n /\ \A j \in 1..n : part[j] = s[from + j]

LEMMA PartIsCut ==
  ASSUME NEW T, NEW s, NEW from, NEW n, Fits(T, s, from, n)
  PROVE  IsCut(T, Io!Slice(s, from, n), s, from, n)
<1>1. s \in Seq(T) /\ from \in Nat /\ n \in Nat /\ from + n <= Len(s)
  BY DEF Fits
<1>2. Io!Slice(s, from, n) = Pak!Slice(s, from, n)
  BY CodecIsShared
<1> QED
  BY <1>1, <1>2, SliceIsPart, ZenonT(30) DEF IsCut

LEMMA ReadIsSlice ==
  ASSUME NEW all \in Seq(Int), NEW from \in Nat, NEW n \in Nat, from + n <= Len(all),
         NEW val, StandsAt(val, all, from), Len(val) = n
  PROVE  Io!Slice(all, from, n) = val
<1> DEFINE t == Io!Slice(all, from, n)
<1>1. t \in Seq(Int) /\ Len(t) = n /\ \A j \in 1..n : t[j] = all[from + j]
  <2>1. Fits(Int, all, from, n)
    BY DEF Fits
  <2>2. IsCut(Int, t, all, from, n)
    BY ONLY <2>1, PartIsCut
  <2> QED
    BY <2>2 DEF IsCut
<1> HIDE DEF t
<1>2. val \in Seq(Int) /\ \A j \in 1..n : val[j] = all[from + j]
  BY DEF StandsAt
<1>3. t = val
  BY <1>1, <1>2, SeqEqual
<1> QED
  BY <1>3 DEF t

LEMMA LowerOfTwo ==
  ASSUME NEW a \in Int, NEW b \in Int
  PROVE  Io!Min({a, b}) = IF a <= b THEN a ELSE b
<1>1. Io!Min({a, b}) = Pak!Min({a, b})
  BY Zenon DEF Io!Min, Pak!Min
<1> QED
  BY <1>1, LessOfTwo

\* The parts of a content: all but the last have length m, and the last no
\* more; m is 0 only when there is one.
Parts(seqs, m) ==
  /\ seqs \in Seq(Seq(Int)) /\ m \in Nat /\ AllButLast(seqs, Len(seqs), m)
  /\ IF m = 0 THEN Len(seqs) <= 1 ELSE \A k \in 1..Len(seqs) : Len(seqs[k]) <= m

\* The place in the content of a place in part q.
PartPlace(m, q, at) == m * (q - 1) + at

\* What is left of a range goes on in part q, of which k bytes are read.
GoesOn(seqs, m, all, q, at, left, pos, k) ==
  /\ Parts(seqs, m) /\ all = Io!Joined(seqs)
  /\ q \in Nat \ {0} /\ at \in Nat /\ left \in Nat \ {0} /\ pos \in Nat /\ k \in Nat
  /\ PartPlace(m, q, at) = pos /\ pos + left <= Len(all) /\ k <= left
  /\ IF m = 0 THEN q = 1 ELSE at + k <= m

\* They are there, and they are what the content has at their place.
IsThere(seqs, all, q, at, pos, k) ==
  /\ q <= Len(seqs) /\ seqs[q] \in Seq(Int) /\ at + k <= Len(seqs[q])
  /\ \A j \in 1..k : seqs[q][at + j] = all[pos + j]

LEMMA PartIsThere ==
  ASSUME NEW seqs, NEW m, NEW all, NEW q, NEW at, NEW left, NEW pos, NEW k, GoesOn(seqs, m, all, q, at, left, pos, k)
  PROVE  IsThere(seqs, all, q, at, pos, k)
<1> DEFINE n == Len(seqs)
<1> SUFFICES ASSUME Parts(seqs, m), all = Io!Joined(seqs),
                    q \in Nat \ {0}, at \in Nat, left \in Nat \ {0}, pos \in Nat, k \in Nat,
                    PartPlace(m, q, at) = pos, pos + left <= Len(all), k <= left, m = 0 => q = 1, m # 0 => at + k <= m
             PROVE  /\ q <= n /\ seqs[q] \in Seq(Int) /\ at + k <= Len(seqs[q])
                    /\ \A j \in 1..k : seqs[q][at + j] = all[pos + j]
  BY DEF GoesOn, IsThere
<1>1. seqs \in Seq(Seq(Int)) /\ m \in Nat /\ n \in Nat /\ AllButLast(seqs, n, m)
  BY DEF Parts
<1>2. IsLaidOut(all, Int, n, m, seqs)
  BY <1>1, JoinedIsLaidOut, JoinedIsLayout
<1>3. n > 0
  <2>1. CASE n = 0
    <3>1. all = <<>>
      BY <1>2, <2>1 DEF IsLaidOut
    <3> QED
      BY <3>1
  <2> QED
    BY <1>1, <2>1
<1>4. /\ Len(all) = m * (n - 1) + Len(seqs[n])
      /\ \A i \in 1..n : \A j \in 1..Len(seqs[i]) : all[m * (i - 1) + j] = seqs[i][j]
  BY <1>1, <1>2, <1>3 DEF IsLaidOut
<1>5. \A i \in 1..n : seqs[i] \in Seq(Int) /\ Len(seqs[i]) \in Nat
  BY <1>1
<1>6. q <= n
  <2>1. CASE m = 0
    BY <1>1, <1>3, <2>1
  <2>2. CASE m # 0 /\ q > n
    <3>1. PICK e \in Nat : q - 1 = n + e
      <4>1. q - 1 - n \in Nat /\ q - 1 = n + (q - 1 - n)
        BY <1>1, <2>2
      <4> QED
        BY ONLY <4>1
    <3>2. m * (q - 1) >= m * n
      <4>1. m * e >= 0 /\ m * (q - 1) = m * n + m * e
        BY ONLY <1>1, <3>1
      <4> QED
        BY ONLY <1>1, <3>1, <4>1
    <3>3. Len(all) <= m * n
      <4>1. m * n = m * (n - 1) + m
        BY ONLY <1>1
      <4>2. Len(seqs[n]) <= m /\ Len(seqs[n]) \in Nat
        BY <1>1, <1>3, <1>5, <2>2 DEF Parts
      <4>3. PICK x \in Int, y \in Int : x = m * (n - 1) /\ y = m * n
        BY ONLY <1>1
      <4>4. PICK z \in Nat : z = Len(seqs[n])
        BY <4>2
      <4>5. Len(all) = x + z /\ y = x + m /\ z <= m
        BY <1>4, <4>1, <4>2, <4>3, <4>4
      <4>6. m \in Int
        BY <1>1
      <4>7. x + z <= y
        BY ONLY x \in Int, y \in Int, z \in Nat, <4>5, <4>6
      <4> QED
        BY ONLY <4>3, <4>5, <4>7
    <3>4. PICK x \in Int, y \in Int : x = m * (q - 1) /\ y = m * n
      BY ONLY <1>1, q \in Nat \ {0}
    <3>5. x + at = pos /\ x >= y /\ Len(all) <= y
      BY <3>2, <3>3, <3>4 DEF PartPlace
    <3>6. Len(all) \in Nat
      BY <1>2 DEF IsLaidOut
    <3>7. pos + left <= Len(all)
      OBVIOUS
    <3> QED
      BY ONLY <3>4, <3>5, <3>6, <3>7, at \in Nat, left \in Nat \ {0}, pos \in Nat
  <2> QED
    BY <1>1, <2>1, <2>2
<1>7. q \in 1..n
  BY <1>1, <1>6
<1>8. at + k <= Len(seqs[q])
  <2>1. CASE q = n
    <3>1. PICK x \in Int : x = m * (n - 1)
      BY ONLY <1>1
    <3>2. Len(all) = x + Len(seqs[n]) /\ x + at = pos
      BY <1>4, <2>1, <3>1 DEF PartPlace
    <3>3. Len(seqs[n]) \in Nat
      BY <1>5, <1>7, <2>1
    <3> QED
      BY <2>1, <3>1, <3>2, <3>3, SMTT(30)
  <2>2. CASE q # n
    <3>1. q \in 1..(n - 1) /\ m # 0
      BY <1>1, <1>7, <2>2 DEF Parts
    <3>2. Len(seqs[q]) = m
      BY <1>1, <3>1 DEF AllButLast
    <3> QED
      BY <3>1, <3>2
  <2> QED
    BY <2>1, <2>2
<1>9. ASSUME NEW j \in 1..k PROVE seqs[q][at + j] = all[pos + j]
  <2>1. at + j \in 1..Len(seqs[q])
    BY <1>5, <1>7, <1>8
  <2>2. all[m * (q - 1) + (at + j)] = seqs[q][at + j]
    BY <1>4, <1>7, <2>1
  <2>3. PICK x \in Int : x = m * (q - 1)
    BY ONLY <1>1, q \in Nat \ {0}
  <2>4. x + (at + j) = pos + j
    BY <2>3, SMTT(30) DEF PartPlace
  <2> QED
    BY <2>2, <2>3, <2>4
<1> QED
  BY <1>5, <1>6, <1>7, <1>8, <1>9
=============================================================================
