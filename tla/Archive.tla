------------------------------- MODULE Archive -------------------------------
(***************************************************************************)
(* FArchive and ByteArchive: reads, seeks and strings over a file of bytes. *)
(* A file is a sequence of digits 0..Base-1, a word WordBytes of them.  A    *)
(* reader's answer is [at, err, val]: the position it leaves, whether it    *)
(* raised ParseError, and what it read.                                     *)
(***************************************************************************)
EXTENDS Integers, Sequences, FiniteSetsExt

CONSTANTS Base, WordBytes,   \* 256 and 4
          MaxString,    \* MAX_FSTRING_LENGTH, in bytes
          Window,       \* the bytes looked at for a padding zone (1024)
          Threshold,    \* _FNAME_INDEX_RECOVERY_THRESHOLD (1000)
          MaxArray      \* MAX_ARRAY_COUNT

Ok(at, val) == [at |-> at, err |-> FALSE, val |-> val]
Raise(at) == [at |-> at, err |-> TRUE, val |-> <<>>]

\* read: refused before anything is consumed.
Read(f, at, n) == IF n < 0 \/ n > Len(f) - at THEN Raise(at) ELSE Ok(at + n, SubSeq(f, at + 1, at + n))

\* seek and skip raise outside the file; seek_safe answers False and stays.
Seek(f, at, pos) == IF pos \in 0..Len(f) THEN Ok(pos, <<>>) ELSE Raise(at)
SeekSafe(f, at, pos) == IF pos \in 0..Len(f) THEN Ok(pos, TRUE) ELSE Ok(at, FALSE)
ReadSafe(f, at, n) == IF n \in 0..(Len(f) - at) THEN Read(f, at, n) ELSE Ok(at, <<>>)
CheckRemaining(f, at, n) == Ok(at, Len(f) - at >= n)

\* A word, in the byte order of the archive.
Value(ds, swapped) ==
  LET big == IF swapped THEN ds ELSE [i \in DOMAIN ds |-> ds[Len(ds) - i + 1]]
      v[n \in 0..Len(ds)] == IF n = 0 THEN 0 ELSE v[n - 1] * Base + big[n]
  IN v[Len(ds)]
ReadU(f, at, swapped) ==
  LET r == Read(f, at, WordBytes) IN IF r.err THEN r ELSE Ok(r.at, Value(r.val, swapped))
ReadI(f, at, swapped) ==
  LET r == ReadU(f, at, swapped)
      high == Base ^ WordBytes
  IN IF r.err THEN r ELSE Ok(r.at, IF 2 * r.val >= high THEN r.val - high ELSE r.val)

\* peek: the position is given back.
Peek(f, at, swapped) == LET r == ReadI(f, at, swapped) IN [r EXCEPT !.at = at]

ReadArray(f, at, count, size) == IF count \in 0..MaxArray THEN Read(f, at, count * size) ELSE Raise(at)
ReadBulkArray(f, at, size, count) == IF size < 0 \/ count < 0 THEN Raise(at) ELSE Read(f, at, size * count)

-----------------------------------------------------------------------------
(* Strings.                                                                 *)

RStrip(cs) == SubSeq(cs, 1, Max({0} \cup {k \in DOMAIN cs : cs[k] # 0}))
Units(ds) == [k \in 1..(Len(ds) \div 2) |-> ds[2 * k - 1] + Base * ds[2 * k]]

\* A refused string goes back to its start: with an exception, or as "".
Refuse(start, tolerant) == IF tolerant THEN Ok(start, <<>>) ELSE Raise(start)
TooLong(f, start, n) == n > MaxString \/ start + WordBytes + n > Len(f)

\* Negative length: UTF-16, kept up to its trailing nulls.
Utf16(f, start, n, tolerant) ==
  LET text == RStrip(Units(SubSeq(f, start + WordBytes + 1, start + WordBytes + n)))
  IN IF TooLong(f, start, n) THEN Refuse(start, tolerant)
     ELSE IF text = <<>> /\ ~tolerant THEN Raise(start) ELSE Ok(start + WordBytes + n, text)

\* A text that begins with a null: before a stretch with hardly a byte in it,
\* the rest of the file is taken for padding.
AfterLeadingNull(f, at) ==
  LET next == SubSeq(f, at + 1, Min({at + Window, Len(f)}))
      filled == Cardinality({k \in DOMAIN next : next[k] # 0})
  IN IF 20 * filled < Len(next) THEN Len(f) ELSE at

\* Variant: the position is not given back.
Utf8Stays(f, start, n, tolerant) ==
  IF TooLong(f, start, n) THEN [Refuse(start, tolerant) EXCEPT !.at = start + WordBytes]
  ELSE Ok(start + WordBytes + n, RStrip(SubSeq(f, start + WordBytes + 1, start + WordBytes + n)))

\* Positive length: UTF-8, cut at a null that does not lead.
Utf8(f, start, n, tolerant) ==
  LET text == RStrip(SubSeq(f, start + WordBytes + 1, start + WordBytes + n))
      end == start + WordBytes + n
      nulls == {k \in DOMAIN text : text[k] = 0}
  IN CASE TooLong(f, start, n) -> Refuse(start, tolerant)
       [] ~TooLong(f, start, n) /\ (text = <<>> \/ (nulls # {} /\ Min(nulls) = 1)) ->
            IF ~tolerant THEN Raise(start) ELSE Ok(IF text = <<>> THEN end ELSE AfterLeadingNull(f, end), <<>>)
       [] OTHER -> Ok(end, SubSeq(text, 1, IF nulls = {} THEN Len(text) ELSE Min(nulls) - 1))

Characters(f, start, size, tolerant) ==
  CASE size.err -> size
    [] ~size.err /\ size.val = 0 -> Ok(size.at, <<>>)
    [] ~size.err /\ size.val < 0 -> Utf16(f, start, -2 * size.val, tolerant)
    [] ~size.err /\ size.val > 0 -> Utf8(f, start, size.val, tolerant)
FString(f, start, swapped, tolerant) == Characters(f, start, ReadI(f, start, swapped), tolerant)

\* read_utf8_string: a negative length is refused by read, behind the word.
Utf8Characters(f, start, size, tolerant) ==
  LET text == RStrip(SubSeq(f, start + WordBytes + 1, start + WordBytes + size.val))
  IN CASE size.err -> size
       [] ~size.err /\ size.val = 0 -> Ok(size.at, <<>>)
       [] ~size.err /\ size.val > 0 /\ TooLong(f, start, size.val) -> Refuse(start, tolerant)
       [] ~size.err /\ size.val < 0 -> Raise(size.at)
       [] OTHER -> IF text = <<>> /\ ~tolerant THEN Raise(start) ELSE Ok(size.at + size.val, text)
Utf8String(f, start, swapped, tolerant) == Utf8Characters(f, start, ReadI(f, start, swapped), tolerant)

SoftObjectPath(f, start, swapped, tolerant) ==
  LET path == FString(f, start, swapped, tolerant) IN IF path.err THEN path ELSE FString(f, path.at, swapped, tolerant)

-----------------------------------------------------------------------------
(* Names: an index into a table of "names" entries, and a number.           *)

\* <<>> stands for the name None.  The first of four shifted places that holds a valid index.
TryRecover(f, start, swapped, names) ==
  LET Fits(d) == /\ start + d >= 0 /\ start + d + 2 * WordBytes <= Len(f)
                 /\ ReadU(f, start + d, swapped).val < names
      fits == {d \in {-2, -1, 1, 2} : Fits(d)}
      p == start + Min(fits)
  IN IF fits = {} THEN Raise(start)
     ELSE Ok(p + 2 * WordBytes, <<ReadU(f, p, swapped).val, ReadU(f, p + WordBytes, swapped).val>>)

ReadName(f, start, swapped, tolerant, names) ==
  LET index == ReadU(f, start, swapped)
      number == ReadU(f, index.at, swapped)
      shifted == TryRecover(f, start, swapped, names)
  IN CASE index.err -> index
       [] ~index.err /\ number.err -> number
       [] OTHER -> IF index.val > Threshold /\ tolerant /\ ~shifted.err THEN shifted
                   ELSE IF index.val < names THEN Ok(number.at, <<index.val, number.val>>)
                   ELSE IF tolerant THEN Ok(number.at, <<>>) ELSE Raise(number.at)

-----------------------------------------------------------------------------
(* What the archive promises.                                               *)

Sizes(f) == -1..(Len(f) + 1)
\* Where every operation can leave a position of the file.
Left(f, at, swapped, tolerant) ==
  (UNION {{Read(f, at, n).at, Seek(f, at, n).at, Seek(f, at, at + n).at, SeekSafe(f, at, n).at,
           ReadSafe(f, at, n).at, CheckRemaining(f, at, n).at, ReadArray(f, at, n, 2).at,
           ReadBulkArray(f, at, 2, n).at} : n \in Sizes(f)})
    \cup {ReadU(f, at, swapped).at, Peek(f, at, swapped).at, FString(f, at, swapped, tolerant).at,
          Utf8String(f, at, swapped, tolerant).at, SoftObjectPath(f, at, swapped, tolerant).at}

\* No operation leaves the file, whatever the bytes, and a read that is refused
\* has consumed nothing.
StaysInFile(f, swapped, tolerant) ==
  \A at \in 0..Len(f) : /\ Left(f, at, swapped, tolerant) \subseteq 0..Len(f)
                        /\ \A n \in Sizes(f) : Read(f, at, n).err => Read(f, at, n).at = at

\* A string that is refused gives its position back, a tolerant archive
\* refuses none whose length it can read, and where a strict one succeeds the
\* tolerant one reads the same.
StringsRestore(f, at, swapped) ==
  \A strict \in {FString(f, at, swapped, FALSE)}, kind \in {FString(f, at, swapped, TRUE)} :
     /\ strict.err => strict.at = at
     /\ ~strict.err => kind = strict /\ strict.at >= at + WordBytes
     /\ kind.err => ReadI(f, at, swapped).err
     /\ ~kind.err => kind.at >= at /\ (kind.val # <<>> => ~strict.err)

\* A name that is read is one of the table, of which a strict archive reads the
\* written one, while a tolerant archive takes any two words for a name.
NameIsOfTheTable(f, at, swapped, names) ==
  \A strict \in {ReadName(f, at, swapped, FALSE, names)}, kind \in {ReadName(f, at, swapped, TRUE, names)} :
     /\ ~strict.err => /\ strict.val[1] = ReadU(f, at, swapped).val /\ strict.val[1] < names
                       /\ strict.at = at + 2 * WordBytes
     /\ kind.err => at + 2 * WordBytes > Len(f)
     /\ ~kind.err => kind.at <= Len(f) /\ (kind.val # <<>> => kind.val[1] < names)
=============================================================================
