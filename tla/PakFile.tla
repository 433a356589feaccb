-------------------------------- MODULE PakFile --------------------------------
(***************************************************************************)
(* PakFileReader: the trailer of a .pak, its index in the layouts of the   *)
(* versions, the entries packed into bit fields, and how an entry is found *)
(* and its bytes are put together.                                         *)
(***************************************************************************)
EXTENDS Codec

CONSTANTS Word32,      \* 2^32: what fits four bytes is below it
          Methods,     \* 64, the method indices a bit field holds
          MaxBlocks,   \* 65536, the block counts it holds
          Reserved,    \* 0x3F, the block size index for "read from stream"
          SizeUnit,    \* 2048, what a block size index counts
          MaxPakEntries

-----------------------------------------------------------------------------
(* An entry as a bit field and the words behind it.                         *)

\* A number in one word or, when it does not fit, in two.
Packed(n) == IF n < Word32 THEN <<n>> ELSE <<n % Word32, n \div Word32>>

\* encode_bitfield; a compressed entry without a block size is refused.
EncodeBitfield(e) ==
  LET inUnits == e.blockSize % SizeUnit = 0 /\ e.blockSize \div SizeUnit < Reserved
      index == IF inUnits THEN e.blockSize \div SizeUnit ELSE Reserved
  IN IF e.method > 0 /\ e.blockSize = 0 THEN Fail
     ELSE Fine([at32 |-> e.at < Word32, full32 |-> e.full < Word32, size32 |-> e.size < Word32,
                method |-> e.method % Methods, encrypted |-> e.encrypted,
                count |-> e.count % MaxBlocks, index |-> index,
                words |-> (IF index = Reserved /\ e.blockSize > 0 THEN <<e.blockSize>> ELSE <<>>)
                            \o Packed(e.at) \o Packed(e.full) \o (IF e.method > 0 THEN Packed(e.size) ELSE <<>>)])

\* decode_bitfield: words in their order, each as wide as its bit says.
DecodeBitfield(b) ==
  LET Take(ws, one) == IF one THEN ws[1] ELSE ws[1] + Word32 * ws[2]
      Drop(ws, one) == SubSeq(ws, IF one THEN 2 ELSE 3, Len(ws))
      ats == IF b.index = Reserved THEN Tail(b.words) ELSE b.words
      fulls == Drop(ats, b.at32)
      sizes == Drop(fulls, b.full32)
  IN [at |-> Take(ats, b.at32), full |-> Take(fulls, b.full32),
      size |-> IF b.method > 0 THEN Take(sizes, b.size32) ELSE Take(fulls, b.full32),
      method |-> b.method, encrypted |-> b.encrypted, count |-> b.count,
      blockSize |-> IF b.index = Reserved THEN b.words[1] ELSE b.index * SizeUnit]

\* deserialize_legacy: blocks from version 3 on, for what is compressed, and
\* neither "encrypted" nor "deleted" is taken from the flags.  The positions of
\* the blocks are taken as they are stored, whatever the version.
LegacyEntry(version, x) ==
  LET blocks == version >= 3 /\ x.method # 0
  IN [at |-> x.at, full |-> x.full, size |-> x.size, method |-> x.method, encrypted |-> FALSE, deleted |-> FALSE,
      blocks |-> IF blocks THEN x.blocks ELSE <<>>, blockSize |-> IF version >= 3 THEN x.blockSize ELSE 0]

-----------------------------------------------------------------------------
(* The trailer.  "magics" gives, for a distance from the end of the file at *)
(* which a known magic stands, the version behind it.                       *)

TrailerSize(v) == CASE v <= 6 -> 45 [] v = 7 -> 61 [] v = 8 -> 221 [] v = 9 -> 222 [] v >= 10 -> 221
Groups == <<{12, 11, 10}, {9}, {8}, {7}, 1..6>>

\* FPakInfo.deserialize: the first group whose magic is in place and whose
\* versions hold the one behind it, anything from 10 on for the first group.
DeserializeInfo(fileSize, magics) ==
  LET Place(g) == TrailerSize(Max(Groups[g])) - (IF Max(Groups[g]) >= 7 THEN 17 ELSE 1)
      Matches(g) == /\ fileSize >= TrailerSize(Max(Groups[g])) /\ Place(g) \in DOMAIN magics
                    /\ LET v == magics[Place(g)] IN IF g = 1 THEN v >= 10 ELSE v \in Groups[g]
      found == {g \in DOMAIN Groups : Matches(g)}
      v == magics[Place(Min(found))]
  IN IF found = {} THEN Fail
     ELSE Fine([version |-> v, guid |-> v >= 7, methods |-> v >= 8, frozen |-> v = 9])

-----------------------------------------------------------------------------
(* The index.                                                               *)

\* What a v10 index lists: the entries with a path; those packed without one
\* are kept beside them, and so is the directory that would name them.
V10Entries(x) == IF x.cut THEN Fail ELSE Fine(x.plain)

\* parse_primary_index: the blob whole and with its hash, then a count within
\* its limits, then the entries; an empty path is refused by the old layout.
PrimaryIndex(x, version) ==
  IF x.truncated \/ ~x.hashed \/ (x.encrypted /\ ~x.key) \/ x.count \notin 0..MaxPakEntries THEN Fail
  ELSE IF version >= 10 THEN V10Entries(x)
  ELSE IF x.count > Len(x.list) \/ \E k \in 1..x.count : x.list[k][1] = <<>> THEN Fail
  ELSE Fine([p \in {x.list[k][1] : k \in 1..x.count} |-> x.list[Max({k \in 1..x.count : x.list[k][1] = p})][2]])

\* open(): whatever fails, the file is closed.
OpenPak(fileSize, magics, x) ==
  LET info == DeserializeInfo(fileSize, magics)
      index == PrimaryIndex(x, info.val.version)
  IN IF info.err \/ index.err THEN [open |-> FALSE, err |-> TRUE, val |-> <<>>]
     ELSE [open |-> TRUE, err |-> FALSE, val |-> index.val]

-----------------------------------------------------------------------------
(* Finding an entry.  A path is a sequence of numbers; those that differ by *)
(* 10 differ in case, Up is "..", and a last number below 5 has no suffix:  *)
(* the same number with 5 added has one of those that are tried.            *)

Up == 99
Lower(path) == [k \in DOMAIN path |-> path[k] % 10]
WithSuffix(path) == [path EXCEPT ![Len(path)] = @ + 5]

\* Variant: an entry of exactly the path is not looked for.
ResolveEntryPathNear(entries, mount, path) ==
  LET near == {k \in DOMAIN entries : EndsWith(Lower(path), Lower(entries[k]))}
  IN IF Up \in Range(path) \/ mount = "absolute" \/ near = {} THEN 0 ELSE Min(near)

\* _resolve_entry_path: no ".." and nothing below an absolute mount point;
\* then the path itself, else the first entry that ends with it.
ResolveEntryPath(entries, mount, path) ==
  LET exact == {k \in DOMAIN entries : entries[k] = path}
      wanted == {Lower(path)} \cup (IF path # <<>> /\ path[Len(path)] % 10 < 5 THEN {Lower(WithSuffix(path))} ELSE {})
      near == {k \in DOMAIN entries : \E w \in wanted : EndsWith(w, Lower(entries[k]))}
  IN IF Up \in Range(path) \/ mount = "absolute" THEN 0
     ELSE IF exact # {} THEN Min(exact) ELSE IF near # {} THEN Min(near) ELSE 0

\* list_files: the entries that are not deleted.
ListFiles(entries, deleted) == {entries[k] : k \in DOMAIN entries \ deleted}

\* _get_compression_method: 0 is "None", the first name is 1, and a file
\* without names has "Zlib" throughout.
MethodOf(e, names) == IF e.method = 0 THEN Fine(0)
                      ELSE IF names = 0 \/ e.method <= names THEN Fine(1) ELSE Fail

-----------------------------------------------------------------------------
(* The bytes of an entry.                                                   *)

\* One block, decompressed to the block size of the entry, the last as well.
BlockBytes(f, e, b) ==
  LET n == b[2] - b[1]
      raw == Slice(f, b[1], n)
      units == IF e.encrypted THEN DecryptAesEcb(b[1], Slice(f, b[1], Aligned(n))) ELSE raw
  IN IF n < 0 \/ Len(raw) < n THEN Fail ELSE Decompress(Slice(units, 0, n), e.blockSize, 1)

\* decompress_entry: as it lies, or block after block, cut to its size.
DecompressEntry(f, e, key) ==
  LET n == IF e.encrypted THEN Aligned(e.full) ELSE e.full
      raw == Slice(f, e.at, n)
      bytes == [k \in DOMAIN e.blocks |-> BlockBytes(f, e, e.blocks[k])]
      all == Joined([k \in DOMAIN bytes |-> bytes[k].val])
  IN IF e.encrypted /\ ~key THEN Fail
     ELSE IF e.method = 0
          THEN (IF Len(raw) < n THEN Fail
                ELSE Fine(Slice(IF e.encrypted THEN DecryptAesEcb(e.at, raw) ELSE raw, 0, e.full)))
     ELSE IF e.blocks = <<>> \/ (\E k \in DOMAIN bytes : bytes[k].err) \/ Len(all) < e.full THEN Fail
     ELSE Fine(Slice(all, 0, e.full))

\* extract: None (here <<>>) for a path nothing answers to.  paths and entries
\* are the keys and the values of the index, in its order.
Extract(f, paths, entries, mount, path, key, names) ==
  LET k == ResolveEntryPath(paths, mount, path)
      e == entries[k]
      method == MethodOf(e, names)
  IN IF k = 0 THEN Fine(<<>>)
     ELSE IF e.deleted \/ e.at \notin 0..(Len(f) - 1) \/ method.err THEN Fail
     ELSE DecompressEntry(f, e, key)

-----------------------------------------------------------------------------
(* Properties.                                                              *)

\* An entry written with encode_bitfield comes back from decode_bitfield, at
\* every width and block size, as long as its numbers fit the fields.
PackedEntryReturns(e) ==
  LET b == EncodeBitfield(e)
      kept == [e EXCEPT !.size = IF e.method = 0 THEN e.full ELSE @]
  IN b.err \/ (e.method < Methods /\ e.count < MaxBlocks => DecodeBitfield(b.val) = kept)

\* The trailer of every version is found by its own group, although groups
\* share their sizes and places (FPakInfo.deserialize).
TrailerIsItsVersion(v, fileSize) ==
  LET at == TrailerSize(v) - (IF v >= 7 THEN 17 ELSE 1)
      info == DeserializeInfo(fileSize, [place \in {at} |-> v])
  IN IF fileSize < TrailerSize(v) THEN info.err
     ELSE ~info.err /\ info.val.version = v /\ (info.val.frozen <=> v = 9) /\ (info.val.guid <=> v >= 7)

\* A path that names an entry exactly gets that entry whatever ends alike,
\* and what is found always ends as was asked (_resolve_entry_path).
PathFoundIsAsked(entries, mount, path) ==
  LET k == ResolveEntryPath(entries, mount, path)
  IN /\ k # 0 => EndsWith(Lower(path), Lower(entries[k])) \/ EndsWith(Lower(WithSuffix(path)), Lower(entries[k]))
     /\ mount # "absolute" /\ path \in ListFiles(entries, {}) /\ Up \notin Range(path) => entries[k] = path

\* A pak is open only with an index that is whole and of which each path names
\* the last entry written under it; any failure closes the file (open).
IndexIsWhole(fileSize, magics, x) ==
  \A pak \in {OpenPak(fileSize, magics, x)} :
  LET v10 == DeserializeInfo(fileSize, magics).val.version >= 10
  IN /\ pak.open <=> ~pak.err
     /\ pak.open => /\ x.hashed /\ ~x.truncated /\ x.count \in 0..MaxPakEntries
                    /\ IF v10 THEN pak.val = x.plain
                       ELSE \A k \in 1..x.count : /\ x.list[k][1] \in DOMAIN pak.val
                                                  /\ (\A j \in (k + 1)..x.count : x.list[j][1] # x.list[k][1])
                                                       => pak.val[x.list[k][1]] = x.list[k][2]

\* An entry cut into blocks by a writer, at positions in the file (as the reader
\* takes them in every version), is put together again, whole, as long as the ratio
\* declared for its last block passes and it starts within the file; a short file
\* or a block out of bounds fails and never gives fewer bytes (extract,
\* decompress_entry).
EntryIsWhole(f, e) ==
  LET x == Extract(f, <<<<1>>>>, <<e>>, "relative", <<1>>, TRUE, 1)
      blocks == [k \in DOMAIN e.blocks |-> Slice(f, e.blocks[k][1], e.blocks[k][2] - e.blocks[k][1])]
      content == Joined([k \in DOMAIN blocks |-> Doubled(blocks[k])])
      written == /\ ~e.deleted /\ e.at \in 0..(Len(f) - 1) /\ e.blocks # <<>>
                 /\ \A k \in DOMAIN e.blocks :
                      LET n == e.blocks[k][2] - e.blocks[k][1]
                      IN /\ n > 0 /\ e.blocks[k][1] >= 0 /\ e.blocks[k][2] <= Len(f)
                         /\ IF k < Len(e.blocks) THEN 2 * n = e.blockSize ELSE 2 * n <= e.blockSize
                         /\ e.blockSize <= MaxRatio * n
  IN /\ ~x.err => Len(x.val) = e.full
     /\ e.method = 1 /\ ~e.encrypted /\ written /\ e.full = Len(content) => x = Fine(content)
=============================================================================
