--------------------------- MODULE ImagePipeline ---------------------------
(***************************************************************************)
(* A file image (genimage-src/image-file.c), the image it is put into - a  *)
(* flash image, or an hdimage without a partition table - and the Android  *)
(* sparse image made of that, or of the file itself.  genimage sets up all *)
(* of them and then generates them, in this order (see Genimage); when one *)
(* fails it removes that one's output file and stops.                      *)
(***************************************************************************)
EXTENDS FlashImage, AndroidSparse

CONSTANTS
  Configs,     \* the configurations, each with the files found at the start
  MaxPos       \* the last position in a file

Kinds == {"flash", "hd", "none"}
Partition == [size: Nat, offset: Nat, image: {"child", NoChild}]
Names == {"other file", "same name", "same file"}   \* infile compared to outfile

\* What cp makes of a file: a regular file, of a device as well.
Copied(f) ==
  IF f.device THEN [f EXCEPT !.device = FALSE, !.alloc = BlocksOf(0 .. f.size - 1)] ELSE f

ASSUME ConfigsAssumption ==
  \A c \in Configs :
    /\ c.kind \in Kinds /\ c.copy \in BOOLEAN /\ c.names \in Names
    /\ IsFile(c.source) /\ NoSub \notin {c.source, Copied(c.source)} /\ IsFile(c.out) /\ c.declared \in Nat
    /\ c.typed \in BOOLEAN /\ c.imageSize \in Nat /\ c.blockSize \in Nat
    /\ c.parts \in Seq(Partition)
    /\ c.kind = "hd" => c.typed

\* No configuration writes behind MaxPos.
ASSUME PositionsAssumption ==
  /\ MaxPos \in Nat /\ FlashSize <= MaxPos + 1 /\ Buf \div 2 <= MaxPos + 1
  /\ \A c \in Configs : \A i \in DOMAIN c.parts :
       c.kind = "hd" => c.parts[i].offset + c.parts[i].size <= MaxPos + 1

VARIABLES
  cfg,         \* the configuration (never changes)
  ppc,         \* which image genimage is at
  sourceThere, \* the input file is there
  childSize,   \* image->size of the file image
  childThere   \* the file the file image ends as is there

pipeline == <<cfg, ppc, sourceThere, childSize, childThere>>
vars == <<pipeline, flash, out, call, faults, sparse>>

Source == cfg.source

\* Copied or not, a file image ends as the same data.
Child == IF cfg.copy /\ cfg.names = "other file" THEN Copied(Source) ELSE Source
Go(p) == ppc' = p

Init ==
  /\ cfg \in Configs
  /\ ppc = "file setup" /\ sourceThere \in BOOLEAN
  /\ childSize = 0 /\ childThere = FALSE
  /\ typed = cfg.typed /\ parts = cfg.parts /\ imageSize = cfg.imageSize
  /\ fpc = (IF cfg.kind = "flash" THEN "setup" ELSE "ready")
  /\ at = 1 /\ partsize = 0 /\ last = FALSE /\ end = 0
  /\ out = cfg.out /\ call = NoCall /\ faults = 0
  /\ blockSize = cfg.blockSize /\ spc = "setup"
  /\ exts = << >> /\ ei = 1 /\ left = 0 /\ block = 0
  /\ chunks = << >> /\ ch = NoChunk /\ pos = 1
  /\ header = [blocks |-> 0, chunks |-> 0] /\ crc = << >>

-----------------------------------------------------------------------------
\* file_setup: the file must be there; a size given in the section is kept,
\* whatever the file's.  Without copy the output is the input itself.  The holes
\* of the section, listed as text, may be refused.
FileSetup ==
  /\ ppc = "file setup"
  /\ IF sourceThere
     THEN /\ childSize' = IF cfg.declared = 0 THEN StSize(Source) ELSE cfg.declared
          /\ childThere' = (~cfg.copy \/ cfg.names # "other file")
          /\ Go("failed") \/ Go(IF cfg.kind = "flash" THEN "setup" ELSE "sparse setup")
     ELSE Go("failed") /\ UNCHANGED <<childSize, childThere>>
  /\ UNCHANGED <<cfg, sourceThere, flash, out, call, faults, sparse>>

ContainerSetup ==
  /\ ppc = "setup"
  /\ FlashSetup(childSize)
  /\ Go(IF fpc' = "ready" THEN "sparse setup" ELSE IF fpc' = "refused" THEN "failed" ELSE ppc)
  /\ UNCHANGED <<cfg, sourceThere, childSize, childThere, sparse>>

SparseImageSetup ==
  /\ ppc = "sparse setup"
  /\ SparseSetup
  /\ Go(IF spc' = "refused" THEN "failed" ELSE "file")
  /\ UNCHANGED <<cfg, sourceThere, childSize, childThere, flash, out, call, faults>>

-----------------------------------------------------------------------------
AfterFile == IF cfg.kind = "none" THEN "sparse" ELSE "image"

\* file_generate: nothing to do for a file used where it is; otherwise cp.
FileStays ==
  /\ ppc = "file"
  /\ ~cfg.copy \/ cfg.names = "same name"
  /\ Go(AfterFile)
  /\ UNCHANGED <<cfg, sourceThere, childSize, childThere, flash, out, call, faults, sparse>>

\* Mistaken variant: the input is not compared with the output first.
FileCopyAlways ==
  /\ ppc = "file" /\ cfg.copy
  /\ IF cfg.names = "other file"
     THEN Go(AfterFile) /\ childThere' = TRUE /\ sourceThere' = sourceThere
     ELSE Go("failed") /\ childThere' = FALSE /\ sourceThere' = FALSE
  /\ UNCHANGED <<cfg, childSize, flash, out, call, faults, sparse>>

\* cp refuses to copy a file onto itself, which a different spelling of the
\* path hides from the comparison; image_generate then removes the output
\* file, the input.
FileCopy ==
  /\ ppc = "file" /\ cfg.copy /\ cfg.names # "same name"
  /\ IF cfg.names = "other file"
     THEN Go(AfterFile) /\ childThere' = TRUE /\ sourceThere' = sourceThere
     ELSE Go("failed") /\ childThere' = FALSE /\ sourceThere' = FALSE
  /\ UNCHANGED <<cfg, childSize, flash, out, call, faults, sparse>>

FileCopyFails ==
  /\ ppc = "file" /\ cfg.copy /\ cfg.names = "other file"
  /\ Go("failed") /\ childThere' = FALSE
  /\ UNCHANGED <<cfg, sourceThere, childSize, flash, out, call, faults, sparse>>

-----------------------------------------------------------------------------
Unchanged == UNCHANGED <<cfg, sourceThere, childSize, childThere, sparse>>

FlashImageGenerate ==
  /\ ppc = "image" /\ cfg.kind = "flash"
  /\ FlashGenerate(Child)
  /\ Go(IF fpc' = "done" THEN "sparse" ELSE IF fpc' = "failed" THEN "failed" ELSE ppc)
  /\ Unchanged

\* hdimage_generate without a partition table: every partition with data gets
\* its image's, the rest of the file stays a hole.
HdPrepare ==
  /\ (FlashPrepareFile \/ FlashPrepareDevice \/ FlashPrepared)
  /\ Go(IF fpc' = "failed" THEN "failed" ELSE ppc)

HdSkip ==
  /\ fpc = "parts" /\ Idle /\ at <= Len(parts)
  /\ Part.image = NoChild \/ childSize = 0
  /\ at' = at + 1
  /\ UNCHANGED <<ppc, layout, fpc, end, out, call, faults>>

HdPart ==
  /\ fpc = "parts" /\ Idle /\ at <= Len(parts)
  /\ Part.image # NoChild /\ childSize > 0
  /\ IF childSize > Part.size THEN Go("failed") /\ UNCHANGED <<fpc, call>>
     ELSE /\ InsertImage(Child, childSize, Part.offset, 0)
          /\ fpc' = "insert" /\ ppc' = ppc
  /\ UNCHANGED <<layout, at, end, out, faults>>

HdPartDone ==
  /\ fpc = "insert" /\ call.pc \in {"ok", "failed"}
  /\ IF call.pc = "ok" THEN call' = NoCall /\ at' = at + 1 /\ fpc' = "parts" /\ ppc' = ppc
     ELSE Go("failed") /\ UNCHANGED <<call, at, fpc>>
  /\ UNCHANGED <<layout, end, out, faults>>

\* The size of the file must be what the layout says.
HdDone ==
  /\ fpc = "parts" /\ Idle /\ at > Len(parts)
  /\ Go(IF out.device \/ out.size = imageSize THEN "sparse" ELSE "failed")
  /\ UNCHANGED <<flash, out, call, faults>>

HdInsert == fpc \in {"clear", "insert"} /\ InsertStep /\ UNCHANGED <<flash, ppc>>

HdImageGenerate ==
  /\ ppc = "image" /\ cfg.kind = "hd"
  /\ HdPrepare \/ HdSkip \/ HdPart \/ HdPartDone \/ HdDone \/ HdInsert
  /\ Unchanged

\* What the sparse image is made of.
Input == IF cfg.kind = "none" THEN Child ELSE out

SparseImageGenerate ==
  /\ ppc = "sparse"
  /\ SparseGenerate(Input)
  /\ Go(IF spc' = "ok" THEN "ok" ELSE IF spc' \in {"failed", "crash"} THEN "failed" ELSE ppc)
  /\ UNCHANGED <<cfg, sourceThere, childSize, childThere, flash, out, call, faults>>

Step ==
  \/ FileSetup \/ ContainerSetup \/ SparseImageSetup
  \/ FileStays \/ FileCopy \/ FileCopyFails
  \/ FlashImageGenerate \/ HdImageGenerate \/ SparseImageGenerate

Over == ppc \in {"ok", "failed"} /\ UNCHANGED vars

Next == Step \/ Over

\* One sequential program: it takes its next step.
Spec == Init /\ [][Next]_vars /\ WF_vars(Step)

-----------------------------------------------------------------------------
(***************************************************************************)
(* Properties.                                                             *)
(***************************************************************************)
TypeOK ==
  /\ ppc \in {"file setup", "setup", "sparse setup", "file", "image", "sparse", "ok", "failed"}
  /\ sourceThere \in BOOLEAN /\ childThere \in BOOLEAN /\ childSize \in Nat
  /\ typed \in BOOLEAN /\ last \in BOOLEAN
  /\ parts \in Seq(Partition)
  /\ {imageSize, partsize, end, faults, ei, left, block, pos, blockSize} \subseteq Nat
  /\ at \in 1 .. Len(parts) + 1
  /\ fpc \in {"setup", "ready", "clear", "parts", "pad", "padded", "insert",
              "done", "refused", "failed"}
  /\ IsFile(out)
  /\ call.pc \in {"none", "open", "extent", "copy", "ok", "failed"}
  /\ {call.size, call.offset, call.inPos} \subseteq Nat
  /\ spc \in {"setup", "refused", "open", "crash", "merge", "extent", "block", "ok", "failed"}
  /\ exts \in Seq([start: Nat, end: Nat])
  /\ \A i \in DOMAIN chunks : chunks[i].type \in {RAW, FILL, DONTCARE, CRC32}
  /\ header \in [blocks: Nat, chunks: Nat]
  /\ crc \in Seq(Values)

\* insert_image keeps the promise of FileRange: "exactly the range
\* [offset, offset+size) in the output @image have been updated" (util.c), in
\* whatever pieces it does it, and success means that the file and its padding
\* are there.
Promise == INSTANCE FileRange WITH
  Positions <- 0 .. MaxPos,
  content   <- [p \in 0 .. MaxPos |-> Unit(out, p)],
  wanted    <- call.wanted,
  status    <- IF call.pc = "none" THEN "idle" ELSE IF call.pc = "failed" THEN "failed" ELSE "busy"

InsertsRange == Promise!Spec

\* A flash image is "the partition contents padded to the partition sizes
\* concatenated together" (README.rst): once it is written every partition has
\* its image - all of it, unless the configuration gave the image a smaller
\* size than its file has, or the input is a block device, whose size stat
\* gives as 0 - and is erased behind it, the gaps between the partitions are
\* erased, and nothing reaches over the end of the flash.  Holes of the image
\* are erased as well, which README.rst does not say.
PartEnd(p) == p.offset + p.size

PartHolds(p) ==
  \A u \in 0 .. p.size - 1 :
    Unit(out, p.offset + u) =
      IF p.image # NoChild /\ u < Child.size /\ (HaveFiemap => ~IsHole(Child, u)) THEN Unit(Child, u) ELSE Erased

InSomePart(u) == \E i \in DOMAIN parts : parts[i].offset <= u /\ u < PartEnd(parts[i])

FlashImageComplete ==
  fpc = "done" =>
    /\ \A i \in DOMAIN parts :
         /\ PartHolds(parts[i])
         /\ parts[i].image # NoChild /\ cfg.declared = 0 => StSize(Source) <= parts[i].size
         /\ \A j \in 1 .. i - 1 : PartEnd(parts[j]) <= parts[i].offset
    /\ partsize <= FlashSize
    /\ \A u \in 0 .. partsize - 1 : ~InSomePart(u) => Unit(out, u) = Erased
    /\ ~out.device => out.size = Max({imageSize, partsize})

\* Reading a finished sparse image gives back its input: its chunks, put
\* together, are the input block by block, "don't care" only where the input
\* has a hole, and so is what the checksum was computed of.  Three exceptions
\* the code has: a hole at the end of the input gets no chunk at all, although
\* the header counts its blocks; a block device ends as an empty image, since
\* fstat gives its size as 0; and the size of a chunk is wrong when merged
\* extents or the last padded block outgrow its 32 bits.
ChunkContent(c) ==
  CASE c.type = RAW -> c.data
    [] c.type = FILL -> Repeated(c.data[1], c.blocks * blockSize)
    [] c.type = DONTCARE -> Repeated(0, c.blocks * blockSize)
    [] c.type = CRC32 -> << >>

Decoded == FlattenSeq([i \in DOMAIN chunks |-> ChunkContent(chunks[i])])

DontCareUnits(i) ==
  LET from == Len(FlattenSeq([j \in 1 .. i - 1 |-> ChunkContent(chunks[j])]))
  IN  IF chunks[i].type = DONTCARE THEN from .. from + chunks[i].blocks * blockSize - 1 ELSE {}

TrueSize(c) == ChunkHeader + (IF c.type \in {FILL, CRC32} THEN 1 ELSE Len(c.data))

SparseDecodes ==
  spc = "ok" =>
    /\ Decoded = [i \in 1 .. Len(Decoded) |-> Unit(Input, i - 1)]
    /\ crc = Decoded
    /\ Len(Decoded) <= header.blocks * blockSize
    /\ header.blocks * blockSize = RoundUp(StSize(Input))
    /\ \A u \in Len(Decoded) .. StSize(Input) - 1 : IsHole(Input, u)
    /\ \A i \in DOMAIN chunks :
         /\ \A u \in DontCareUnits(i) : u < StSize(Input) => IsHole(Input, u)
         /\ chunks[i].type = RAW => Len(chunks[i].data) = chunks[i].blocks * blockSize
         /\ TrueSize(chunks[i]) < SizeMod => chunks[i].size = TrueSize(chunks[i])
         /\ TrueSize(chunks[i]) >= SizeMod =>
              (\E k \in DOMAIN exts : exts[k] = Removed) \/ StSize(Input) % blockSize # 0
    /\ header.chunks = Len(chunks)

\* Making images never costs the user an input: a failed copy removes only a
\* copy.  Except when infile and outfile are one file under two names, which
\* file_generate does not notice.
InputKept == [][sourceThere => sourceThere' \/ cfg.names = "same file"]_vars

\* The loops of insert_image and of the two handlers end, whatever the files,
\* their holes and the failures.
Terminates == <>(ppc \in {"ok", "failed"})

\* "If @sub is smaller than @size (including if @sub is NULL), insert @byte
\* bytes for the remainder" (util.c): the rest of the range is the file.  Not
\* so for the holes of the file, which read as zeros and get @byte as well.
SubCopied ==
  call.pc = "ok" => \A p \in DOMAIN call.plain : Unit(out, p) = call.plain[p]
=============================================================================
