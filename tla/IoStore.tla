-------------------------------- MODULE IoStore --------------------------------
(***************************************************************************)
(* IoStoreReader: a table of contents (.utoc) and its partitions (.ucas).  *)
(* What open() checks and leaves open when it fails, how a chunk is found, *)
(* how its bytes are put together, and the paths of the directory index.   *)
(*                                                                         *)
(* A container c has ids and chunks (sequences of the same length), seeds  *)
(* and without (<<>> when the file has none), blocks, partitions (each a   *)
(* sequence of bytes), partSize, blockSize (0 when no method is named),    *)
(* methods (their number) and encrypted.  A reader answers [err, val].     *)
(***************************************************************************)
EXTENDS Codec

CONSTANTS BitXor(_, _),            \* bit by bit
          Basis, Prime, Modulus,   \* FNV-1a
          DefaultBlock,            \* the block size when none was loaded (64 MB)
          MaxEntries, MaxDepth,    \* MAX_TOC_ENTRIES and its like, MAX_DEPTH
          Invalid                  \* 0xFFFFFFFF

-----------------------------------------------------------------------------
(* open(): the sections of the file in their order.  A section needs "size" *)
(* units of the file; "over" says that a limit of the reader is passed.     *)

Section(name, size, over, short) == [name |-> name, size |-> size, over |-> over, short |-> short]
Header == Section("header", 1, FALSE, "ValueError")
ChunkIds(h) == Section("ids", h.entries, h.entries > MaxEntries, "ValueError")
ChunkOffsets(h) == Section("offsets", h.entries, FALSE, "ValueError")
PerfectHashSeeds(h) ==
  Section("seeds", (IF h.version >= 4 THEN h.seeds ELSE 0) + (IF h.version >= 5 THEN h.without ELSE 0),
          FALSE, "struct.error")
CompressionBlocks(h) == Section("blocks", h.blocks, h.blocks > MaxEntries, "ValueError")
CompressionMethods(h) == Section("methods", h.names, h.names > MaxEntries, "ValueError")
Signatures(h) == Section("signatures", IF h.signed THEN 1 ELSE 0, FALSE, "nothing")   \* a seek: never short
DirectoryIndex(h) ==
  LET read == h.version >= 2 /\ h.indexed
  IN Section("directory", IF read THEN h.index ELSE 0, read /\ h.index > MaxEntries, "ValueError")

Sections(h) == <<Header, ChunkIds(h), ChunkOffsets(h), PerfectHashSeeds(h), CompressionBlocks(h),
                 CompressionMethods(h), Signatures(h), DirectoryIndex(h)>>

\* The partitions: one file, or one per partition up to the limit.
Parts(h) == IF h.version < 3 \/ h.parts <= 1 THEN 1 ELSE h.parts
OpenParts(h, existing) ==
  CASE Parts(h) > MaxEntries -> [raised |-> "ParseError", open |-> {}]
    [] Parts(h) <= MaxEntries /\ existing < Parts(h) -> [raised |-> "OSError", open |-> 1..existing]
    [] OTHER -> [raised |-> "none", open |-> 1..Parts(h)]

\* close(): every file, whatever happened before.
Closed == {}
Caught == {"OSError", "struct.error", "ValueError"}

\* open() over a file of "units", with "existing" partitions beside it:
\* what it raises and which files stay open (0 is the .utoc).
Needed(S) == LET sum[k \in 0..Len(S)] == IF k = 0 THEN 0 ELSE sum[k - 1] + S[k].size IN sum
Open(h, units, existing) ==
  LET S == Sections(h)
      Bad(k) == S[k].over \/ (Needed(S)[k] > units /\ S[k].short # "nothing")
      bad == {k \in DOMAIN S : Bad(k)}
      k == Min(bad)
      parts == OpenParts(h, existing)
      raised == IF bad # {} THEN (IF S[k].over THEN "ParseError" ELSE S[k].short) ELSE parts.raised
      held == {0} \cup (IF bad # {} THEN {} ELSE parts.open)
  IN [raised |-> raised, open |-> IF raised \in Caught THEN Closed ELSE held]

-----------------------------------------------------------------------------
(* Finding a chunk: 0 when there is none.                                   *)

HashWithSeed(id, seed) ==
  LET hash[k \in 0..Len(id)] == IF k = 0 THEN BitXor(Basis, seed) ELSE (BitXor(hash[k - 1], id[k]) * Prime) % Modulus
  IN hash[Len(id)]

FallbackMap(c) == {i + 1 : i \in {j \in Range(c.without) : j \in 0..(Len(c.ids) - 1)}}
\* The map keeps the last of several entries with one id, the scan the first.
ResolveImperfect(c, id) ==
  LET at == {i \in (IF c.seeds # <<>> /\ c.without # <<>> THEN FallbackMap(c) ELSE DOMAIN c.ids) : c.ids[i] = id}
  IN IF at = {} THEN 0
     ELSE IF c.seeds # <<>> /\ c.without # <<>>
          THEN 1 + c.without[Max({k \in DOMAIN c.without : c.without[k] + 1 \in at})] ELSE Min(at)

\* Variant: the id of the slot is not compared.
ResolveUnchecked(c, id) ==
  LET seed == c.seeds[(HashWithSeed(id, 0) % Len(c.seeds)) + 1]
  IN IF c.ids = <<>> \/ seed <= 0 THEN 0 ELSE (HashWithSeed(id, seed) % Len(c.ids)) + 1

ResolvePerfect(c, id) ==
  LET count == Len(c.ids)
      seed == c.seeds[(HashWithSeed(id, 0) % Len(c.seeds)) + 1]
      slot == 1 + IF seed < 0 THEN -seed - 1 ELSE (HashWithSeed(id, seed) % count)
  IN IF count = 0 \/ seed = 0 THEN 0
     ELSE IF seed < 0 /\ -seed - 1 >= count THEN ResolveImperfect(c, id)
     ELSE IF c.ids[slot] = id THEN slot ELSE 0

ResolveChunk(c, id) == IF c.seeds # <<>> THEN ResolvePerfect(c, id) ELSE ResolveImperfect(c, id)

-----------------------------------------------------------------------------
(* Reading a chunk.                                                         *)

PartitionOf(c, at) == IF c.partSize > 0 THEN (at \div c.partSize) + 1 ELSE 1
PlaceIn(c, at) == IF c.partSize > 0 THEN at % c.partSize ELSE at

Decrypt(c, at, raw) == IF c.encrypted THEN DecryptAesEcb(at, raw) ELSE raw

\* One block, read where it lies, in one partition.
BlockBytes(c, b) ==
  LET p == PartitionOf(c, b.at)
      at == PlaceIn(c, b.at)
      raw == Slice(c.partitions[p], at, b.size)
      units == Slice(c.partitions[p], at, Aligned(b.size))
      bytes == Slice(Decrypt(c, at, units), 0, b.size)
  IN IF p > Len(c.partitions) THEN Fail
     ELSE IF Len(raw) < b.size \/ (c.encrypted /\ Len(units) < Aligned(b.size)) THEN Fail
     ELSE IF b.method > c.methods THEN Fail
     ELSE Decompress(bytes, b.full, b.method)

\* A range while it is put together: the place where the next partition or
\* block is entered, what is left to read, and what was read.
Begun(at, left) == [err |-> FALSE, at |-> at, left |-> left, val |-> <<>>]
More(s, n, bytes) == [s EXCEPT !.at = 0, !.left = @ - n, !.val = @ \o bytes]
Answer(s) == IF s.err THEN Fail ELSE Fine(s.val)

\* _read_uncompressed_partitions: partition p, unless nothing is left.
NextPartition(c, p, s) ==
  LET n == IF c.partSize > 0 THEN Min({s.left, c.partSize - s.at}) ELSE s.left
      raw == Slice(c.partitions[p], s.at, n)
  IN IF s.err \/ s.left = 0 THEN s
     ELSE IF p > Len(c.partitions) \/ Len(raw) < n THEN [s EXCEPT !.err = TRUE]
     ELSE More(s, n, Decrypt(c, s.at, raw))
\* One round for each partition that is left, and one that finds none.
Plain(c, p, at, length) ==
  LET rounds == Len(c.partitions) - p + 2
      state[i \in 0..rounds] == IF i = 0 THEN Begun(at, length) ELSE NextPartition(c, p + i - 1, state[i - 1])
  IN Answer(state[rounds])

\* Variant: every block is entered where the first one is.
NextBlockAtSkip(c, k, size, s) ==
  LET b == BlockBytes(c, c.blocks[k])
      n == Min({size - s.at, s.left})
  IN IF s.err \/ k > Len(c.blocks) \/ b.err THEN [s EXCEPT !.err = TRUE]
     ELSE [More(s, n, Slice(b.val, s.at, n)) EXCEPT !.at = s.at]

\* Block k: the first is entered at a place of its own, and a block with less
\* than its share adds less.
NextBlock(c, k, size, s) ==
  LET b == BlockBytes(c, c.blocks[k])
      n == Min({size - s.at, s.left})
  IN IF s.err \/ k > Len(c.blocks) \/ b.err THEN [s EXCEPT !.err = TRUE]
     ELSE More(s, n, Slice(b.val, s.at, n))
Blocks(c, first, last, size, skip, length) ==
  LET rounds == last - first + 1
      state[i \in 0..rounds] == IF i = 0 THEN Begun(skip, length) ELSE NextBlock(c, first + i - 1, size, state[i - 1])
  IN Answer(state[rounds])

ReadData(c, offset, length) ==
  LET p == PartitionOf(c, offset)
      size == IF c.blockSize = 0 THEN DefaultBlock ELSE c.blockSize
      first == (offset \div size) + 1
      last == (offset + length + size - 1) \div size
      raw == Slice(c.partitions[p], PlaceIn(c, offset), length)
  IN IF c.partitions = <<>> \/ p > Len(c.partitions) THEN Fail
     ELSE IF c.blocks = <<>> THEN Plain(c, p, PlaceIn(c, offset), length)
     ELSE IF first = last /\ first <= Len(c.blocks) /\ c.blocks[first].method = 0
          THEN (IF Len(raw) < length THEN Fail ELSE Fine(Decrypt(c, PlaceIn(c, offset), raw)))
     ELSE Blocks(c, first, last, size, offset % size, length)

ReadChunk(c, id) ==
  LET i == ResolveChunk(c, id)
  IN IF i = 0 THEN Fail ELSE ReadData(c, c.chunks[i][1], c.chunks[i][2])

-----------------------------------------------------------------------------
(* The directory index.  A directory is [name, child, sibling, file], a     *)
(* file [name, next, data]; a path is the sequence of its names.            *)

NameAt(d, n) == IF n < d.names THEN <<n>> ELSE <<>>
IsEntry(n, s) == n # Invalid /\ n < Len(s)

\* The files of a directory, from the first that is named: f is the next one.
NextFile(d, path, s) ==
  LET e == d.files[s.f + 1]
  IN IF s.err \/ ~IsEntry(s.f, d.files) THEN s
     ELSE IF s.f \in s.files THEN [s EXCEPT !.err = TRUE]
     ELSE [s EXCEPT !.f = e.next, !.files = @ \cup {s.f},
                    !.list = IF e.data < d.chunks THEN @ \cup {<<path \o NameAt(d, e.name), e.data>>} ELSE @]
FileChain(d, f, path, w) ==
  LET start == [err |-> FALSE, f |-> f, files |-> w.files, list |-> w.list]
      state[k \in 0..(Len(d.files) + 1)] == IF k = 0 THEN start ELSE NextFile(d, path, state[k - 1])
  IN state[Len(d.files) + 1]

\* A directory, its files, its children one level down, then its sibling:
\* todo is the stack of the calls, the next directory in front.
Visit(n, path, depth) == [n |-> n, path |-> path, depth |-> depth]
ReadIndex(d, w) ==
  LET x == Head(w.todo)
      e == d.dirs[x.n + 1]
      here == x.path \o NameAt(d, e.name)
      read == FileChain(d, e.file, here, w)
  IN IF w.err \/ w.todo = <<>> THEN w
     ELSE IF ~IsEntry(x.n, d.dirs) THEN [w EXCEPT !.todo = Tail(@)]
     ELSE IF x.n \in w.dirs \/ x.depth > MaxDepth \/ Cardinality(w.dirs) > MaxEntries THEN [w EXCEPT !.err = TRUE]
     ELSE [err |-> read.err, dirs |-> w.dirs \cup {x.n}, files |-> read.files, list |-> read.list,
           todo |-> <<Visit(e.child, here, x.depth + 1), Visit(e.sibling, x.path, x.depth)>> \o Tail(w.todo)]

\* Each round takes one directory or the end of a chain from the stack.
Walk(d) ==
  LET start == [err |-> FALSE, todo |-> <<Visit(0, d.mount, 0)>>, dirs |-> {}, files |-> {}, list |-> {}]
      rounds == 2 * Len(d.dirs) + 1
      state[k \in 0..rounds] == IF k = 0 THEN start ELSE ReadIndex(d, state[k - 1])
  IN state[rounds]

\* extract_path: exactly, or by the end of the path; the names of this model
\* have no case and no suffix.
PathAnswers(list, path) ==
  LET exact == {e \in list : e[1] = path}
  IN IF exact # {} THEN exact ELSE {e \in list : EndsWith(path, e[1])}

-----------------------------------------------------------------------------
(* Properties.                                                              *)

\* What the table of a well-built container says of a chunk (the writer's
\* side of the hash): the seed of its bucket leads to it, or to the overflow.
Placed(c, i) ==
  LET seed == c.seeds[(HashWithSeed(c.ids[i], 0) % Len(c.seeds)) + 1]
  IN \/ seed < 0 /\ -seed = i
     \/ seed < 0 /\ -seed > Len(c.ids) /\ (c.without = <<>> \/ i - 1 \in Range(c.without))
     \/ seed > 0 /\ (HashWithSeed(c.ids[i], seed) % Len(c.ids)) + 1 = i

\* Whatever the seeds say, a chunk that is found is the one asked for; and a
\* chunk the table places is found, through the hash or past it
\* (_resolve_chunk and the fallback map).
ChunkFoundIsAsked(c, ids) ==
  /\ \A id \in ids : ResolveChunk(c, id) # 0 => c.ids[ResolveChunk(c, id)] = id
  /\ \A i \in DOMAIN c.ids : (c.seeds = <<>> \/ Placed(c, i)) /\ IsInjective(c.ids) => ResolveChunk(c, c.ids[i]) = i

\* The bytes the container stands for, and whether it is one a writer makes:
\* partitions and blocks are full but the last, and a unit of the cipher is
\* never cut in two by the end of a partition.
Content(c) ==
  IF c.blocks = <<>> THEN Joined(c.partitions) ELSE Joined([k \in DOMAIN c.blocks |-> BlockBytes(c, c.blocks[k]).val])
WellFormed(c) ==
  /\ c.encrypted => c.partSize % Align = 0
  /\ \A p \in DOMAIN c.partitions :
       LET n == Len(c.partitions[p])
       IN IF c.partSize = 0 THEN p = 1 ELSE n <= c.partSize /\ (p < Len(c.partitions) => n = c.partSize)
  /\ \A k \in DOMAIN c.blocks :
       LET b == BlockBytes(c, c.blocks[k])
       IN ~b.err /\ Garbled \notin Range(b.val) /\ (IF k < Len(c.blocks) THEN Len(b.val) = c.blockSize ELSE Len(b.val) <= c.blockSize)
InPlace(c) == \A k \in DOMAIN c.blocks : c.blocks[k].method = 0 => c.blocks[k].at = (k - 1) * c.blockSize

\* A chunk is the range it names of the bytes the container stands for,
\* across blocks and partitions, when uncompressed blocks lie at the place
\* they have in the content and an encrypted range is one of whole units; it
\* is refused when that place lies past the partitions, even when its blocks
\* are there (read_chunk, _read_data).
ChunksAreTheContent(c) ==
  \A i \in DOMAIN c.chunks :
    LET offset == c.chunks[i][1]
        length == c.chunks[i][2]
    IN ResolveChunk(c, c.ids[i]) = i /\ WellFormed(c) /\ InPlace(c) /\ length > 0 /\ (c.encrypted => offset % Align = 0 /\ length % Align = 0)
         /\ offset + length <= Len(Content(c))
       => ReadChunk(c, c.ids[i]) = IF PartitionOf(c, offset) > Len(c.partitions) THEN Fail ELSE Fine(Slice(Content(c), offset, length))

\* A file is opened exactly when each section fits in it and its limit and
\* the partitions are there; of what open() catches itself nothing stays open.
OpenIsWhole(h, units, existing) ==
  \A o \in {Open(h, units, existing)} :
  LET fits == \A k \in DOMAIN Sections(h) :
                ~Sections(h)[k].over /\ (Needed(Sections(h))[k] <= units \/ Sections(h)[k].name = "signatures")
  IN /\ o.raised = "none" <=> fits /\ existing >= Parts(h) /\ Parts(h) <= MaxEntries
     /\ o.raised = "none" => o.open = 0..Parts(h)
     /\ o.raised \in Caught => o.open = {}

\* The index as relations: what follows a directory (its sibling and its
\* child, with the path each is under) and what can be reached, never in more
\* steps than there are entries; the same for files.
Follows(d, x) ==
  LET e == d.dirs[x[1] + 1]
  IN {y \in {<<e.sibling, x[2]>>, <<e.child, x[2] \o NameAt(d, e.name)>>} : IsEntry(y[1], d.dirs)}
Places(d) ==
  LET reached[k \in 0..Len(d.dirs)] ==
        IF k = 0 THEN {x \in {<<0, d.mount>>} : IsEntry(x[1], d.dirs)}
        ELSE reached[k - 1] \cup UNION {Follows(d, x) : x \in reached[k - 1]}
  IN reached[Len(d.dirs)]
Chain(d, f) ==
  LET reached[k \in 0..Len(d.files)] ==
        {g \in (IF k = 0 THEN {f} ELSE reached[k - 1] \cup {d.files[h + 1].next : h \in reached[k - 1]}) : IsEntry(g, d.files)}
  IN reached[Len(d.files)]

\* No directory and no file is named twice: each has one way to be reached.
Named(s, field, n) == {<<m, field>> : m \in {k \in 0..(Len(s) - 1) : s[k + 1][field] = n}}
DirsBefore(d, n) == Named(d.dirs, "child", n) \cup Named(d.dirs, "sibling", n)
FilesBefore(d, f) == Named(d.dirs, "file", f) \cup Named(d.files, "next", f)
IsTree(d) ==
  /\ DirsBefore(d, 0) = {}
  /\ \A n \in 0..(Len(d.dirs) - 1) : \A x, y \in DirsBefore(d, n) : x = y
  /\ \A f \in 0..(Len(d.files) - 1) : \A x, y \in FilesBefore(d, f) : x = y

\* A walk that succeeds lists every file of every directory that can be
\* reached, under its path, and nothing else; a tree no larger than the limits
\* never fails (_parse_directory_index).
WalkListsTheTree(d) ==
  \A w \in {Walk(d)} :
  LET At(x) == x[2] \o NameAt(d, d.dirs[x[1] + 1].name)
      expected == UNION {{<<At(x) \o NameAt(d, d.files[f + 1].name), d.files[f + 1].data>> :
                          f \in Chain(d, d.dirs[x[1] + 1].file)} : x \in Places(d)}
  IN /\ ~w.err => /\ w.list = {e \in expected : e[2] < d.chunks}
                  /\ \A e \in w.list : PathAnswers(w.list, e[1]) = {x \in w.list : x[1] = e[1]}
     /\ IsTree(d) /\ Len(d.dirs) <= MaxDepth /\ Len(d.dirs) <= MaxEntries => ~w.err
=============================================================================
