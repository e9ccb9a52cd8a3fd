--------------------------- MODULE AndroidSparse ---------------------------
(***************************************************************************)
(* The android-sparse handler (genimage-src/image-android-sparse.c): the   *)
(* extents of the input are aligned to the block size and merged; then     *)
(* they are read block by block into chunks, the holes between them        *)
(* becoming "don't care".  The header of a chunk is written when the chunk *)
(* is begun and again, over the first one, when its length is known.       *)
(***************************************************************************)
EXTENDS ImageFile, FiniteSetsExt

CONSTANTS
  Step512,     \* units in 512 bytes, which a block size is a multiple of
  ChunkHeader, \* units of a chunk header
  SizeMod      \* the size field of a chunk header counts modulo this: 2^32 bytes

ASSUME SparseAssumption == {Step512, ChunkHeader, SizeMod} \subseteq Nat \ {0}

\* The header of a chunk with the value of a fill fits the size field.
ASSUME HeaderAssumption == ChunkHeader + 1 < SizeMod

VARIABLES
  blockSize,   \* the block-size option
  spc,         \* where the handler is
  exts,        \* the extents of the input, aligned and merged
  ei,          \* the one its loops are at
  left,        \* units of it still to read
  block,       \* blocks written so far
  chunks,      \* the chunks in the output file
  ch,          \* chunk_header: the header of the chunk being written
  pos,         \* which chunk that is
  header,      \* the file header: blocks of output, chunks
  crc          \* the units the checksum was computed of

sparse == <<blockSize, spc, exts, ei, left, block, chunks, ch, pos, header, crc>>

RAW == "raw"
FILL == "fill"
DONTCARE == "dont care"
CRC32 == "crc32"
NoChunk == [type |-> "none", blocks |-> 0, size |-> 0]

RoundUp(n) == ((n + blockSize - 1) \div blockSize) * blockSize

-----------------------------------------------------------------------------
\* A block size of 0 is a multiple of 512.
SparseSetup ==
  /\ spc = "setup"
  /\ spc' = IF blockSize % Step512 # 0 THEN "refused" ELSE "open"
  /\ UNCHANGED <<blockSize, exts, ei, left, block, chunks, ch, pos, header, crc>>

\* The number of blocks is a division by the block size.
SparseOpen(in) ==
  /\ spc = "open"
  /\ IF blockSize = 0 THEN spc' = "crash" /\ UNCHANGED <<exts, header>>
     ELSE IF MapFails(in, StSize(in)) THEN spc' = "failed" /\ UNCHANGED <<exts, header>>
     ELSE /\ exts' = MapFileExtents(in, StSize(in))
          /\ header' = [blocks |-> RoundUp(StSize(in)) \div blockSize, chunks |-> 0]
          /\ spc' = "merge"
  /\ UNCHANGED <<blockSize, ei, left, block, chunks, ch, pos, crc>>

-----------------------------------------------------------------------------
\* Extent ei is aligned, the end not beyond the file, and joined to the last
\* one still there if it begins in it or right behind it.
AlignedExtent(x, size) ==
  [start |-> (x.start \div blockSize) * blockSize, end |-> Min({RoundUp(x.end), size})]

Removed == [start |-> 0, end |-> 0]

\* Mistaken variant: always the extent before, removed or not.
PreviousExtentNext(e) == e - 1

PreviousExtent(e) ==
  IF \E j \in 2 .. e - 1 : exts[j].end # 0
  THEN Max({j \in 2 .. e - 1 : exts[j].end # 0}) ELSE 1

MergedExtents(size) ==
  LET x == AlignedExtent(exts[ei], size)
      j == PreviousExtent(ei)
  IN  IF ei > 1 /\ x.start <= exts[j].end
      THEN [exts EXCEPT ![j].end = x.end, ![ei] = Removed]
      ELSE [exts EXCEPT ![ei] = x]

Length(x) == x.end - x.start

\* The limit is on each extent as it is met: one that grows is not looked at
\* again, nor is the padding of the last block counted.
TooLong(x) == Length(x) > SizeMod - 1 - ChunkHeader

SparseMerge(in) ==
  /\ spc = "merge" /\ ei <= Len(exts)
  /\ exts' = MergedExtents(StSize(in))
  /\ IF TooLong(exts'[ei]) THEN spc' = "failed" /\ ei' = ei
     ELSE ei' = ei + 1 /\ spc' = spc
  /\ UNCHANGED <<blockSize, left, block, chunks, ch, pos, header, crc>>

\* The output is created.
SparseCreate ==
  /\ spc = "merge" /\ ei > Len(exts)
  /\ ei' = 1 /\ spc' = "extent"
  /\ chunks' = << >>
  /\ UNCHANGED <<blockSize, exts, left, block, ch, pos, header, crc>>

-----------------------------------------------------------------------------
Chunk(h, data) == [type |-> h.type, blocks |-> h.blocks, size |-> h.size, data |-> data]
Zeros(n) == [i \in 1 .. n |-> 0]

\* flush_header over the one written at pos; nothing for the first chunk.
Flushed(cs) ==
  IF ch.type = "none" THEN cs ELSE [cs EXCEPT ![pos] = Chunk(ch, @.data)]

Added(n) == [header EXCEPT !.chunks = @ + n]

SkipExtent ==
  /\ spc = "extent" /\ ei <= Len(exts) /\ Length(exts[ei]) = 0
  /\ ei' = ei + 1
  /\ UNCHANGED <<blockSize, spc, exts, left, block, chunks, ch, pos, header, crc>>

\* An extent, and the hole in front of it.
SparseExtent ==
  /\ spc = "extent" /\ ei <= Len(exts) /\ Length(exts[ei]) > 0
  /\ LET startBlock == exts[ei].start \div blockSize
         skipped == startBlock - block
         hole == Chunk([type |-> DONTCARE, blocks |-> skipped, size |-> ChunkHeader], << >>)
     IN  IF skipped > 0
         THEN /\ chunks' = Append(chunks, hole) /\ header' = Added(1)
              /\ block' = startBlock
              /\ crc' = crc \o Zeros(skipped * blockSize)
         ELSE UNCHANGED <<chunks, header, block, crc>>
  /\ left' = Length(exts[ei])
  /\ ch' = NoChunk /\ pos' = Len(chunks') + 1
  /\ spc' = "block"
  /\ UNCHANGED <<blockSize, exts, ei>>

\* One block, padded with zeros at the end of the file.
Now == Min({left, blockSize})
BlockData(in) ==
  [i \in 1 .. blockSize |->
     IF i <= Now THEN in.at[exts[ei].end - left + i - 1] ELSE 0]
IsFill(data) == \A i \in DOMAIN data : data[i] = data[1]

\* The chunk being written goes on, or ends and another one begins.
Continues(data) ==
  IF IsFill(data) THEN ch.type = FILL /\ chunks[pos].data = <<data[1]>> ELSE ch.type = RAW

NewHeader(data) ==
  [type |-> IF IsFill(data) THEN FILL ELSE RAW, blocks |-> 0,
   size |-> ChunkHeader + IF IsFill(data) THEN 1 ELSE 0]

Payload(cs, p, data) == [cs EXCEPT ![p].data = @ \o data]

SparseBlock(in) ==
  /\ spc = "block" /\ left > 0
  /\ LET data == BlockData(in)
         h    == IF Continues(data) THEN ch ELSE NewHeader(data)
         p    == IF Continues(data) THEN pos ELSE Len(chunks) + 1
         cs   == IF Continues(data) THEN chunks
                 ELSE Append(Flushed(chunks), Chunk(h, IF IsFill(data) THEN <<data[1]>> ELSE << >>))
     IN  /\ header' = IF Continues(data) THEN header ELSE Added(1)
         /\ pos' = p
         /\ IF IsFill(data)
            THEN ch' = [h EXCEPT !.blocks = @ + 1] /\ chunks' = cs
            ELSE /\ ch' = [h EXCEPT !.blocks = @ + 1, !.size = (@ + blockSize) % SizeMod]
                 /\ chunks' = Payload(cs, p, data)
         /\ crc' = crc \o data
  /\ left' = left - Now
  /\ UNCHANGED <<blockSize, spc, exts, ei, block>>

SparseExtentEnd ==
  /\ spc = "block" /\ left = 0
  /\ chunks' = Flushed(chunks)
  /\ block' = exts[ei].end \div blockSize
  /\ ei' = ei + 1 /\ spc' = "extent"
  /\ UNCHANGED <<blockSize, exts, left, ch, pos, header, crc>>

\* The checksum is the last chunk; then the header of the file is written again.
SparseFinish ==
  /\ spc = "extent" /\ ei > Len(exts)
  /\ chunks' = Append(chunks, Chunk([type |-> CRC32, blocks |-> 0, size |-> ChunkHeader + 1], << >>))
  /\ header' = Added(1)
  /\ spc' = "ok"
  /\ UNCHANGED <<blockSize, exts, ei, left, block, ch, pos, crc>>

\* A system call fails.
SparseFails ==
  /\ spc \in {"open", "merge", "extent", "block"}
  /\ spc' = "failed"
  /\ UNCHANGED <<blockSize, exts, ei, left, block, chunks, ch, pos, header, crc>>

SparseGenerate(in) ==
  \/ SparseOpen(in) \/ SparseMerge(in) \/ SparseCreate
  \/ SkipExtent \/ SparseExtent \/ SparseBlock(in) \/ SparseExtentEnd \/ SparseFinish
  \/ SparseFails
=============================================================================
