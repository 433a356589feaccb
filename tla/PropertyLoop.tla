---------------------------- MODULE PropertyLoop ----------------------------
(***************************************************************************)
(* parse_properties_from_export on one export with versioned properties:   *)
(* the loop that reads property tags until "None", the end of the export   *)
(* or the end of the file, and what it does when the bytes are damaged.    *)
(*                                                                         *)
(* The bytes are not a variable: each tag read is a choice among all that  *)
(* bytes at that place can say.  No place is read twice (Progress), so the *)
(* choices are those of one file.                                          *)
(***************************************************************************)
EXTENDS Integers, FiniteSets

CONSTANTS
  FileSize,      \* length of the archive, in units of the smallest read
  Ends,          \* serial_offset + serial_size; serial_offset is 0
  NameLen,       \* an FName
  TagLens,       \* a tag from its name up to and with its size field
  TailLens,      \* what follows the size: flags, array index, guid, extensions
  Sizes,         \* values of the size field
  Reasonable,    \* the cap of FArchive.validate_size
  Window,        \* _MAX_RECOVERY_SCAN
  MaxProperties, \* MAX_PROPERTY_COUNT
  Layouts        \* "legacy" or "full" type names (UE5 before and since 1012)

ASSUME PropertyAssumption ==
  /\ FileSize \in Nat /\ Ends \subseteq Nat /\ NameLen \in Nat \ {0}
  /\ TagLens \subseteq Nat \ {0} /\ TailLens \subseteq Nat /\ Sizes \subseteq Int
  /\ Reasonable \in Nat /\ Window \in Nat /\ MaxProperties \in Nat
  /\ Layouts \subseteq {"legacy", "full"}

VARIABLES
  mode, end, layout, \* "tolerant" or "strict"; the export's end; the tag layout
  pc,       \* "begin", "loop", "handler", or how the call ended
  pos,      \* archive.tell()
  count,    \* property_count
  values,   \* the extents of the values read, as records from..to
  damaged,  \* extents or places recorded as a fallback
  handled   \* calls of _try_asset_type_handler

input == <<mode, end, layout>>
output == <<values, damaged>>
loopVars == <<input, pc, pos, count, output, handled>>

\* "escaped": a ParseError left the loop; "raised": one left the rest of the
\* function; "failed": any other exception.
Ended == {"done", "skipped", "escaped", "raised", "failed"}
Places == 0..FileSize
Extents == [from : Places, to : Places]

LoopTypeOK ==
  /\ mode \in {"tolerant", "strict"} /\ end \in Ends /\ layout \in Layouts
  /\ pc \in {"begin", "loop", "handler"} \cup Ended
  /\ pos \in Places
  /\ count \in 0..MaxProperties
  /\ values \subseteq Extents /\ damaged \subseteq Places
  /\ handled \in 0..2

LoopInit ==
  /\ mode \in {"tolerant", "strict"} /\ end \in Ends /\ layout \in Layouts
  /\ pc = "begin" /\ pos = 0 /\ count = 0
  /\ values = {} /\ damaged = {} /\ handled = 0

Tolerant == mode = "tolerant"
Smaller(a, b) == IF a < b THEN a ELSE b
\* Variant: the end of the file is not looked for.
ExportEnd == end
\* Reading stops at the end of the export and at the end of the file.
Boundary == Smaller(end, FileSize)

Stop(how) == pc' = how /\ UNCHANGED <<input, pos, count, output, handled>>

\* Class-specific payloads are skipped in either mode; the control header of
\* UE5 1011 and later is a byte or two, which may be missing.
BeginLoop ==
  /\ pc = "begin"
  /\ \/ Stop("skipped") \/ Stop("raised")
     \/ \E h \in 0..2 : h <= FileSize /\ pos' = h /\ pc' = "loop"
                        /\ UNCHANGED <<input, count, output, handled>>

-----------------------------------------------------------------------------
\* The checks at the top of an iteration, in this order.
Reading == pc = "loop" /\ count < MaxProperties /\ pos < Boundary

LimitReached == pc = "loop" /\ count >= MaxProperties /\ Stop("escaped")

EndOfData ==
  /\ pc = "loop" /\ count < MaxProperties /\ pos >= Boundary
  /\ pc' = "handler" /\ count' = count + 1
  /\ UNCHANGED <<input, pos, output, handled>>

\* One more iteration, which leaves the archive at p.
Continue(p) == pc' = "loop" /\ pos' = p /\ count' = count + 1 /\ UNCHANGED <<input, handled>>
Escape == pc' = "escaped" /\ count' = count + 1 /\ UNCHANGED <<input, handled>>

\* The terminator; so does an index outside the name table read in tolerant mode.
ReadNone ==
  /\ Reading /\ pos + NameLen <= FileSize
  /\ pc' = "handler" /\ pos' = pos + NameLen /\ count' = count + 1
  /\ UNCHANGED <<input, output, handled>>

\* FArchive.validate_size at the place behind the size field.
Exceeds(size, place) == size < 0 \/ size > FileSize - place \/ size > Reasonable

\* Where the size field of the tag read at pos may end.
SizeEnds == {pos + n : n \in TagLens} \cap Places
\* Where its value may begin, if the size is accepted.
ValueStarts(s) == {s + n : n \in TailLens} \cap Places

-----------------------------------------------------------------------------
(* _try_recover_property_tag from place q                                   *)

Limit(q) == Smaller(q + Window, Boundary)
Candidates(q) == {c \in Places : q < c /\ Limit(q) - c >= NameLen}

\* With full type names a candidate near the end of the file is read past it,
\* and the ParseError is not among the exceptions the scan catches.
ScanRaises(q) == layout = "full" /\ \E c \in Candidates(q) : c + 2 * NameLen > FileSize

\* Variant: the archive is left where it was.
StayPut(p) == {p}
\* One unit ahead, so as not to read the same place again.
Ahead(p) == {Smaller(p + 1, FileSize)}

-----------------------------------------------------------------------------
\* _handle_property_parse_error when the tag was read: to the end of the value
\* by the tag's size, one unit ahead if that is no progress.  The seek is
\* checked against the file, and raises out of the handler.
SkipDamaged(start, size) ==
  IF size > 0
  THEN IF start + size <= FileSize
       THEN Continue(start + size) /\ damaged' = damaged \cup {start} /\ UNCHANGED values
       ELSE Escape /\ pos' = start /\ UNCHANGED output
  ELSE /\ \E p \in Ahead(start) : Continue(p)
       /\ damaged' = damaged \cup {start} /\ UNCHANGED values

\* Reading the tag fails at place q, by running into the end of the file.
TornTag ==
  /\ Reading
  /\ \E q \in pos..FileSize :
       IF ~Tolerant THEN Escape /\ pos' = q /\ UNCHANGED output
       ELSE \/ ScanRaises(q) /\ Escape /\ pos' = q /\ UNCHANGED output
            \/ /\ \E p \in Candidates(q) \cup Ahead(q) : Continue(p)
               /\ damaged' = damaged \cup {q} /\ UNCHANGED values

\* Variant: validate_size never raises.
RecoversAlways == TRUE
\* validate_size raises in strict mode and answers False in tolerant mode.
Recovers == Tolerant

\* A size that cannot be: strict mode raises, tolerant mode looks for the next
\* tag, and otherwise goes on right behind the size field.
SizeExceeded ==
  /\ Reading
  /\ \E s \in SizeEnds, size \in Sizes :
       /\ Exceeds(size, s)
       /\ \/ ~Recovers /\ Escape /\ pos' = s /\ UNCHANGED output
          \/ /\ Recovers
             /\ \/ ScanRaises(s) /\ SkipDamaged(s, size)
                \/ \E c \in Candidates(s) : Continue(c) /\ UNCHANGED output
                \/ Continue(s) /\ damaged' = damaged \cup {s} /\ UNCHANGED values

\* Variant: the size is not compared with what is left of the export.
FitsFile(v, size) == size <= FileSize - v
Fits(v, size) == size <= end - v

\* The size was accepted before the rest of the tag was read, and against the
\* file: here it is compared with the export.
ValueOverruns ==
  /\ Reading
  /\ \E s \in SizeEnds, size \in Sizes : ~Exceeds(size, s) /\ \E v \in ValueStarts(s) :
       /\ ~Fits(v, size)
       /\ IF Tolerant THEN SkipDamaged(v, size) ELSE Escape /\ pos' = v /\ UNCHANGED output

\* Variant: the archive is left where the value parser stopped.
Unbounded(v, size) == v..FileSize
\* read_tag_value_bounded: whatever the value parser consumed, the archive
\* stands at the end of the value.  The seek is checked against the file.
FinalPos(v, size) == {v + size}

ReadValue ==
  /\ Reading
  /\ \E s \in SizeEnds, size \in Sizes : ~Exceeds(size, s) /\ \E v \in ValueStarts(s) :
       /\ Fits(v, size) /\ v + size <= FileSize
       /\ \E p \in FinalPos(v, size) : Continue(p)
       /\ values' = values \cup {[from |-> v, to |-> v + size]} /\ UNCHANGED damaged

\* The value parser raises a ParseError that parse_property_value lets through,
\* or the seek behind the value does.
ValueRaises ==
  /\ Reading
  /\ \E s \in SizeEnds, size \in Sizes : ~Exceeds(size, s) /\ \E v \in ValueStarts(s) :
       /\ Fits(v, size)
       /\ IF Tolerant THEN SkipDamaged(v, size) ELSE Escape /\ pos' = v /\ UNCHANGED output

\* Any other exception leaves the loop in both modes.
UnexpectedError == Reading /\ Stop("failed")

-----------------------------------------------------------------------------
\* _try_asset_type_handler, called by the loop and again by its caller; it
\* puts the archive back, and lets a ParseError of the handler through.  An
\* export without a class name has no handler.
HandleAsset ==
  /\ pc = "handler"
  /\ \/ /\ handled < 2 /\ handled' = handled + 1 /\ UNCHANGED <<input, pc, pos, count, output>>
     \/ handled \in {0, 2} /\ Stop("done")
     \/ handled < 2 /\ (Stop("raised") \/ Stop("failed"))

Halted == pc \in Ended /\ UNCHANGED loopVars

Loop ==
  \/ LimitReached \/ EndOfData \/ ReadNone \/ TornTag \/ SizeExceeded
  \/ ValueOverruns \/ ReadValue \/ ValueRaises \/ UnexpectedError
LoopNext == BeginLoop \/ Loop \/ HandleAsset \/ Halted

LoopSpec == LoopInit /\ [][LoopNext]_loopVars

-----------------------------------------------------------------------------
\* The work is bounded by the bytes consumed: however damaged the data is, an
\* iteration that goes on has moved the archive, so the limit on the number of
\* properties is never what ends the loop of an export shorter than it.
BoundedWork == count <= pos + 1 /\ (pc = "loop" => count <= pos)

\* Values lie in the data of the export, and no two of them share a byte,
\* although recovery resumes in the middle of data that was given up.
Before(v, w) == v.to <= w.from
ValuesPlaced ==
  /\ \A v \in values : v.from <= v.to /\ v.to <= end
  /\ \A v, w \in values : v = w \/ Before(v, w) \/ Before(w, v)

\* Strict mode makes no attempt to recover: nothing is recorded as damaged.
StrictStops == ~Tolerant => damaged = {}

\* The archive never goes back, an iteration that is not the last one moves it
\* ahead, and what has been recorded stays.
Forward ==
  [][/\ pos' >= pos /\ values \subseteq values'
     /\ pc = "loop" /\ pc' = "loop" => pos' > pos]_loopVars
=============================================================================
