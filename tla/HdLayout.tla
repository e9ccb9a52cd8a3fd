------------------------------ MODULE HdLayout ------------------------------
(***************************************************************************)
(* hdimage_setup of genimage-src/image-hd.c: where every partition of a    *)
(* disk image goes.  The function walks the partition list of one image,   *)
(* to which it first appends the areas of the partition table itself, and  *)
(* gives each one its final offset, size and alignment, or refuses the     *)
(* whole image.  OpenixCard runs it on the configuration it derives from   *)
(* an Allwinner partition table (see FEX2CFG.cpp and payloads/linux.cpp).  *)
(*                                                                         *)
(* One action is one stretch of the function: the options and the table    *)
(* areas, one turn of the main loop (accepted or refused), the checks at   *)
(* the end.  Sizes are unsigned 64 bit in C: sums and differences wrap at  *)
(* ULL, a constant so that the checker can work in its 32 bit integers.    *)
(***************************************************************************)
EXTENDS Integers, Sequences, FiniteSets

CONSTANTS
  ULL,         \* number of values of an unsigned long long (2^64 in the C program)
  Configs,     \* the hdimage sections set up: options and declared partitions
  Images,      \* the images that partitions may hold
  NoImage,     \* a partition that holds none
  ImageSize,   \* image->size of each image, known once it is set up
  ImageHoles   \* image->holes of each image: a set of [start, end] extents

-----------------------------------------------------------------------------
Sector     == 512
MbrTail    == 72                      \* sizeof(struct mbr_tail)
GptSectors == 1 + ((128 * 128) \div 512)  \* header and array, in sectors

\* What a configuration file says of a partition, and what the list node
\* becomes: the name tells the areas of the partition table from the others.
\* A name is any text, that of an area included (a prover sees no text in a literal).
Names == STRING \cup {"[MBR]", "[GPT header]", "[GPT array]", "[GPT backup]"}
Validity == {"none", "valid", "invalid"}
Partition == [name: Names, offset: Nat, size: Nat, align: Nat,
              inTable: BOOLEAN, autoresize: BOOLEAN, ptype: Nat,
              typeUuid: Validity, uuid: Validity,
              image: Images \cup {NoImage}, extended: BOOLEAN]

Config == [table: STRING, ptOpt: {"unset", "yes", "no"}, gptOpt: {"unset", "yes", "no"},
           align: Nat, ext: Nat, sig: {"none", "random", "number"}, uuid: Validity,
           gptLoc: Nat, noBackup: BOOLEAN, fill: BOOLEAN, block: BOOLEAN,
           device: Nat, size: Nat, parts: Seq(Partition)]

ASSUME ULLAssumption == ULL \in Nat /\ ULL > 65536
ASSUME ImagesAssumption ==
  /\ NoImage \notin Images
  /\ ImageSize \in [Images -> 0 .. ULL - 1]
  /\ ImageHoles \in [Images -> SUBSET [start: Nat, end: Nat]]
\* The numbers of a configuration come out of strtoul_suffix, as unsigned longs.
ASSUME ConfigsAssumption ==
  \A c \in Configs :
    /\ c \in Config
    /\ c.align < ULL /\ c.gptLoc < ULL /\ c.size < ULL /\ c.device < ULL
    /\ \A i \in DOMAIN c.parts :
         c.parts[i].offset < ULL /\ c.parts[i].size < ULL /\ c.parts[i].align < ULL

VARIABLES
  pc,            \* "options", "place" or "done"
  ret,           \* what hdimage_setup returned: "none" while it runs
  cfg,           \* the hdimage section (never changes)
  hd,            \* the fields of struct hdimage the layout uses
  size,          \* image->size
  parts,         \* image->partitions
  idx,           \* the partition the main loop is at
  now,           \* end of the space given out so far
  tableEntries,  \* partition_table_entries
  hybridEntries, \* hybrid_entries
  autoPart       \* autoresize_part: 0 or an index

vars == <<pc, ret, cfg, hd, size, parts, idx, now, tableEntries, hybridEntries, autoPart>>

-----------------------------------------------------------------------------
\* Unsigned arithmetic and the rounding helpers.
Plus(x, y)  == (x + y) % ULL
Minus(x, y) == (x - y) % ULL
RoundUp(v, a)   == ((Minus(v, 1) \div a + 1) * a) % ULL
RoundDown(v, a) == v - (v % a)
Signed(x) == IF x < ULL \div 2 THEN x ELSE x - ULL    \* as a long long
MaxOf(x, y) == IF x > y THEN x ELSE y
MinOf(x, y) == IF x < y THEN x ELSE y

PartitionEnd(p) == Plus(p.offset, p.size)

-----------------------------------------------------------------------------
\* The options of the hdimage section.
TableTypes == [none |-> {}, mbr |-> {"mbr"}, dos |-> {"mbr"}, gpt |-> {"gpt"},
               hybrid |-> {"mbr", "gpt"}]

\* The two deprecated booleans override partition-table-type, "gpt" last.
TableType(c) ==
  IF c.gptOpt # "unset" THEN {IF c.gptOpt = "yes" THEN "gpt" ELSE "mbr"}
  ELSE IF c.ptOpt # "unset" THEN (IF c.ptOpt = "yes" THEN {"mbr"} ELSE {})
  ELSE TableTypes[c.table]

\* Mistaken variant: the default is forgotten.
ImageAlignNoDefault(c) == c.align

ImageAlign(c) ==
  IF c.align # 0 THEN c.align ELSE IF TableType(c) = {} THEN 1 ELSE Sector

\* A declared partition after the loop that settles its alignment.  An
\* alignment that is no multiple of the image's is reported, and kept.
Prepared(p, c) ==
  [p EXCEPT !.inTable = IF TableType(c) = {} THEN FALSE ELSE p.inTable,
            !.align = IF p.align # 0 THEN p.align
                      ELSE IF p.inTable \/ TableType(c) = {} THEN ImageAlign(c) ELSE 1]

TableCount(c) == Cardinality({i \in DOMAIN c.parts : c.parts[i].inTable})

\* More than four entries do not fit an MBR: the fourth becomes extended.
ExtendedPartition(c) ==
  IF TableType(c) = {"mbr"} /\ c.ext = 0 /\ TableCount(c) > 4 THEN 4 ELSE c.ext

\* A GPT location off the sector grid is reported, and kept.
GptLocation(c) == IF c.gptLoc = 0 THEN 2 * Sector ELSE c.gptLoc

OptionsRefused(c) ==
  c.table \in DOMAIN TableTypes =>
    \/ c.block /\ c.size # 0
    \/ c.ext > 4
    \/ TableType(c) # {} /\ ImageAlign(c) % Sector # 0
    \/ c.uuid # "none" /\ ("gpt" \notin TableType(c) \/ c.uuid = "invalid")
    \/ c.sig = "number" /\ "mbr" \notin TableType(c)

\* The areas the partition table takes, as partitions of their own.
FakePartition(name, offset, sz) ==
  [name |-> name, offset |-> offset, size |-> sz, align |-> 1, inTable |-> FALSE,
   autoresize |-> FALSE, ptype |-> 0, typeUuid |-> "none", uuid |-> "none",
   image |-> NoImage, extended |-> FALSE]

BackupSize == GptSectors * Sector

MbrArea == FakePartition("[MBR]", Sector - MbrTail, MbrTail)

GptAreas(c, imageSize) ==
  << FakePartition("[GPT header]", Sector, Sector),
     FakePartition("[GPT array]", GptLocation(c), (GptSectors - 1) * Sector),
     FakePartition("[GPT backup]",
                   IF imageSize # 0 THEN Minus(imageSize, BackupSize) ELSE 0, BackupSize) >>

\* Mistaken variant: only the MBR is reserved.
MbrAreaOnly(c, imageSize) == IF TableType(c) = {} THEN << >> ELSE <<MbrArea>>

TableAreas(c, imageSize) ==
  IF TableType(c) = {} THEN << >>
  ELSE IF "gpt" \in TableType(c) THEN <<MbrArea>> \o GptAreas(c, imageSize)
  ELSE <<MbrArea>>

\* Mistaken variant: the GPT is forgotten.
FirstFreeAfterMbr(c) == IF TableType(c) = {} THEN 0 ELSE Sector

\* Where partitions without an offset start.
FirstFree(c) ==
  IF TableType(c) = {} THEN 0
  ELSE IF "gpt" \in TableType(c) THEN Plus(GptLocation(c), (GptSectors - 1) * Sector)
  ELSE Sector

-----------------------------------------------------------------------------
\* Mistaken variants: a hole need only touch; p is only looked for inside q.
HoleTouching(image, start, end) ==
  image # NoImage /\ \E e \in ImageHoles[image] : e.start < end /\ start < e.end

OverlapsStart(p, q) == q.offset <= p.offset /\ p.offset < PartitionEnd(q)

\* check_overlap: p against a partition q placed before it.
HoleCovering(image, start, end) ==
  /\ image # NoImage
  /\ \E e \in ImageHoles[image] : e.start <= start /\ end <= e.end

Overlaps(p, q) ==
  LET start == MaxOf(p.offset, q.offset)
      end   == MinOf(PartitionEnd(p), PartitionEnd(q))
  IN  /\ p.offset < PartitionEnd(q)
      /\ q.offset < PartitionEnd(p)
      /\ ~HoleCovering(q.image, Minus(start, q.offset), Minus(end, q.offset))

-----------------------------------------------------------------------------
\* One turn of the main loop, for the partition at idx.
cur == parts[idx]

Entries == tableEntries + (IF cur.inTable THEN 1 ELSE 0)

\* From the extended entry on, every table entry is a logical partition.
IsExtended == hd.ext > 0 /\ cur.inTable /\ Entries >= hd.ext

\* Mistaken variant: no space is left for the boot record.
ReservedNothing == IF IsExtended THEN RoundUp(now, cur.align) ELSE now

\* The space in front of a logical partition is its extended boot record.
Reserved == IF IsExtended THEN RoundUp(Plus(now, hd.align), cur.align) ELSE now

\* A backup table of an image without a size ends at a 4K boundary.
IsFloatingBackup == cur.name = "[GPT backup]" /\ cur.offset = 0

NowBefore == IF IsFloatingBackup THEN Plus(Reserved, cur.size) ELSE Reserved

Offset ==
  IF IsFloatingBackup THEN Minus(RoundUp(NowBefore, 4096), cur.size)
  ELSE IF cur.offset = 0 /\ (cur.inTable \/ hd.table = {}) THEN RoundUp(NowBefore, cur.align)
  ELSE cur.offset

ExtendedLba ==
  IF IsExtended /\ hd.extLba = 0 THEN Minus(Offset, hd.align) ELSE hd.extLba

\* What an autoresize partition gets: the rest of the image, less the backup table.
Room ==
  LET backup == IF "gpt" \in hd.table THEN BackupSize ELSE 0
  IN  RoundDown(Minus(Minus(size, Offset), backup), cur.align)

FinalSize ==
  LET given == IF cur.autoresize THEN Room ELSE cur.size
  IN  IF cur.image = NoImage \/ given # 0 THEN given
      ELSE IF cur.inTable THEN RoundUp(ImageSize[cur.image], cur.align)
      ELSE ImageSize[cur.image]

Placed == [cur EXCEPT !.offset = Offset, !.size = FinalSize, !.extended = IsExtended]

\* Mistaken variant: the room is compared as the unsigned number it is computed as.
AutoresizeRefusedUnsigned ==
  cur.autoresize /\ (autoPart # 0 \/ size = 0 \/ Room = 0 \/ Room < cur.size)

AutoresizeRefused ==
  /\ cur.autoresize
  /\ \/ autoPart # 0
     \/ size = 0
     \/ Signed(Room) <= 0
     \/ Signed(Room) < Signed(cur.size)

TypeRefused ==
  \/ cur.typeUuid # "none" /\ "gpt" \notin hd.table
  \/ cur.ptype # 0 /\ "mbr" \notin hd.table
  \/ "gpt" \in hd.table /\ cur.inTable /\ "invalid" \in {cur.typeUuid, cur.uuid}

SpaceRefused ==
  IF IsExtended THEN NowBefore > Offset
  ELSE \E j \in 1 .. idx - 1 : Overlaps(Placed, parts[j])

PartitionRefused ==
  \/ AutoresizeRefused
  \/ TypeRefused
  \/ Offset % cur.align # 0
  \/ cur.image # NoImage /\ ImageSize[cur.image] > FinalSize
  \/ FinalSize = 0
  \/ SpaceRefused
  \/ cur.inTable /\ FinalSize % Sector # 0

\* Mistaken variant: the last partition decides.
NowAfterLast == PartitionEnd(Placed)

\* The end of the used space once the partition is placed.
NowAfter == MaxOf(NowBefore, PartitionEnd(Placed))

\* Mistaken variant: the boot record is looked at first.
FileSizeRecordFirst ==
  IF IsExtended THEN Plus(Minus(Offset, hd.align), Sector)
  ELSE IF cur.image # NoImage THEN MaxOf(hd.fileSize, Plus(Offset, ImageSize[cur.image]))
  ELSE hd.fileSize

\* How far the data written to the output file will reach.
FileSize ==
  IF cur.image # NoImage THEN MaxOf(hd.fileSize, Plus(Offset, ImageSize[cur.image]))
  ELSE IF IsExtended THEN Plus(Minus(Offset, hd.align), Sector)
  ELSE hd.fileSize

-----------------------------------------------------------------------------
Init ==
  /\ cfg \in Configs
  /\ pc = "options" /\ ret = "none"
  /\ hd = [align |-> 0, ext |-> 0, extLba |-> 0, table |-> {}, gptLoc |-> 0, fileSize |-> 0]
  /\ size = cfg.size
  /\ parts = cfg.parts
  /\ idx = 1 /\ now = 0 /\ tableEntries = 0 /\ hybridEntries = 0 /\ autoPart = 0

\* hdimage_setup returns an error: image_setup and everything above give up, so
\* nothing reads again what the refused turn had already assigned.
Refuse ==
  /\ pc' = "done" /\ ret' = "einval"
  /\ UNCHANGED <<cfg, hd, size, parts, idx, now, tableEntries, hybridEntries, autoPart>>

RefuseOptions == pc = "options" /\ OptionsRefused(cfg) /\ Refuse

\* block_device_size fails on the device (external).
BlockDeviceError == pc = "options" /\ cfg.block /\ cfg.size = 0 /\ Refuse

SetupOptions ==
  /\ pc = "options"
  /\ ~OptionsRefused(cfg)
  /\ LET imageSize == IF cfg.block THEN cfg.device ELSE cfg.size
         declared  == [i \in 1 .. Len(cfg.parts) |-> Prepared(cfg.parts[i], cfg)]
     IN  /\ size' = imageSize
         /\ parts' = declared \o TableAreas(cfg, imageSize)
  /\ hd' = [align |-> ImageAlign(cfg), ext |-> ExtendedPartition(cfg), extLba |-> 0,
            table |-> TableType(cfg), gptLoc |-> GptLocation(cfg), fileSize |-> 0]
  /\ now' = FirstFree(cfg)
  /\ pc' = "place"
  /\ UNCHANGED <<ret, cfg, idx, tableEntries, hybridEntries, autoPart>>

RefusePartition ==
  /\ pc = "place" /\ idx <= Len(parts)
  /\ PartitionRefused
  /\ Refuse

PlacePartition ==
  /\ pc = "place" /\ idx <= Len(parts)
  /\ ~PartitionRefused
  /\ parts' = [parts EXCEPT ![idx] = Placed]
  /\ now' = NowAfter
  /\ hd' = [hd EXCEPT !.extLba = ExtendedLba, !.fileSize = FileSize]
  /\ tableEntries' = Entries
  /\ hybridEntries' = hybridEntries
        + (IF "gpt" \in hd.table /\ cur.inTable /\ cur.ptype # 0 THEN 1 ELSE 0)
  /\ autoPart' = IF cur.autoresize THEN idx ELSE autoPart
  /\ idx' = idx + 1
  /\ UNCHANGED <<pc, ret, cfg, size>>

\* Mistaken variant: the image may be smaller than its partitions.
FinishRefusedHybrid ==
  hybridEntries > 3 \/ (hd.table = {"mbr", "gpt"} /\ hybridEntries = 0)

FinishRefused ==
  \/ hybridEntries > 3
  \/ hd.table = {"mbr", "gpt"} /\ hybridEntries = 0
  \/ size > 0 /\ now > size

RefuseFinish ==
  /\ pc = "place" /\ idx > Len(parts)
  /\ FinishRefused
  /\ Refuse

\* The output file holds the whole image when it is filled or ends in a backup table.
FinishSetup ==
  /\ pc = "place" /\ idx > Len(parts)
  /\ ~FinishRefused
  /\ LET imageSize == IF size = 0 THEN now ELSE size
     IN  /\ size' = imageSize
         /\ hd' = IF cfg.fill \/ ("gpt" \in hd.table /\ ~cfg.noBackup)
                  THEN [hd EXCEPT !.fileSize = imageSize] ELSE hd
  /\ pc' = "done" /\ ret' = "ok"
  /\ UNCHANGED <<cfg, parts, idx, now, tableEntries, hybridEntries, autoPart>>

Returned == pc = "done" /\ UNCHANGED vars

Setup ==
  \/ SetupOptions \/ RefuseOptions \/ BlockDeviceError
  \/ PlacePartition \/ RefusePartition
  \/ FinishSetup \/ RefuseFinish

Next == Setup \/ Returned

Spec == Init /\ [][Next]_vars

-----------------------------------------------------------------------------
(***************************************************************************)
(* Properties.  They use exact arithmetic on the areas placed so far.      *)
(***************************************************************************)
End(p) == p.offset + p.size
Done == 1 .. idx - 1

Area(p) == [from |-> p.offset, to |-> End(p),
            holes |-> IF p.image = NoImage THEN {}
                      ELSE {[from |-> p.offset + e.start, to |-> p.offset + e.end]
                              : e \in ImageHoles[p.image]}]

Disk == INSTANCE DiskAreas WITH
  given   <- [i \in Done |-> Area(parts[i])],
  limit   <- size,
  verdict <- IF pc # "done" THEN "open" ELSE IF ret = "ok" THEN "accepted" ELSE "refused"

\* Every variable has its type: the fields of a partition are unsigned longs
\* and its alignment, once the options are settled, is not zero.
TypeOK ==
  /\ cfg \in Config
  /\ pc \in {"options", "place", "done"}
  /\ ret \in {"none", "ok", "einval"}
  /\ hd \in [align: Nat, ext: 0 .. 4, extLba: Nat, table: SUBSET {"mbr", "gpt"},
             gptLoc: Nat, fileSize: Nat]
  /\ size \in Nat /\ now \in Nat
  /\ parts \in Seq(Partition)
  /\ idx \in 1 .. Len(parts) + 1
  /\ tableEntries \in Nat /\ hybridEntries \in Nat /\ autoPart \in Nat
  /\ pc = "place" => hd.align > 0 /\ \A i \in DOMAIN parts : parts[i].align > 0

\* The numbers of the configurations and the sizes of the images are at most M,
\* and M is so small against the width of the integers that every partition can
\* take several times as much.  (With M = 2^48, 256 terabytes, and 64 bit, that
\* leaves room for more than 5000 partitions.)
Step(M) == 6 * M

Fits(M) ==
  /\ M >= 65536
  /\ \A image \in Images : ImageSize[image] <= M
  /\ \A c \in Configs :
       /\ c.align <= M /\ c.gptLoc <= M /\ c.size <= M /\ c.device <= M
       /\ \A i \in DOMAIN c.parts :
            c.parts[i].offset <= M /\ c.parts[i].size <= M /\ c.parts[i].align <= M
       /\ (Len(c.parts) + 6) * Step(M) <= ULL \div 2

\* No declared partition carries the name of the backup table, which the code
\* takes it by.
NamesApart == \A c \in Configs : \A i \in DOMAIN c.parts : c.parts[i].name # "[GPT backup]"

\* A GPT image that cannot even hold its backup table: the offset of that table
\* wraps, and the image is refused for its size at the end.
TooSmallForGpt == "gpt" \in hd.table /\ size # 0 /\ size < BackupSize

\* Else no sum of the layout reaches the width of its integers: what has been
\* placed ends below it, and so does the next partition where the program chooses
\* its offset.  In particular no difference below zero becomes a size or an offset.
NothingWraps ==
  TooSmallForGpt \/
    /\ \A i \in Done : End(parts[i]) < ULL
    /\ pc = "place" /\ idx <= Len(parts) =>
         now + hd.align + 2 * cur.align + cur.size < ULL

\* Two areas of the disk (partitions, MBR, GPT header, array and backup) share
\* bytes only where the earlier one's image declares a hole: check_overlap for
\* primary partitions, the running end of the used space for logical ones.
AreasDisjoint ==
  \A i, j \in Done : i < j => Disk!Compatible(Area(parts[j]), Area(parts[i]))

\* An accepted layout lies inside the image, whose size may have been computed
\* from it: every partition, the backup table included.
AreasInImage ==
  ret = "ok" => \A i \in DOMAIN parts : End(parts[i]) <= size

\* A table partition without an offset comes after everything declared before
\* it, and after the partition table (README.rst, "Partition options").
AutoPlacedAfter ==
  \A i \in Done :
    parts[i].inTable /\ cfg.parts[i].offset = 0 =>
      /\ FirstFree(cfg) <= parts[i].offset
      /\ \A j \in 1 .. i - 1 : End(parts[j]) <= parts[i].offset

\* A logical partition has room for its extended boot record in front of it:
\* nothing declared earlier reaches into it, and no record lies before the
\* start of the extended partition the MBR points at.
BootRecordRoom ==
  \A i \in Done :
    parts[i].extended =>
      /\ hd.extLba <= parts[i].offset - hd.align
      /\ \A j \in 1 .. i - 1 : End(parts[j]) <= parts[i].offset - hd.align

\* When setup succeeds, the file size it announces reaches to the end of all
\* the data hdimage_generate will copy and of every extended boot record, and
\* no further than the image.
FileSizeCoversData ==
  ret = "ok" =>
    /\ hd.fileSize <= size
    /\ \A i \in DOMAIN parts :
         /\ parts[i].image # NoImage =>
              parts[i].offset + ImageSize[parts[i].image] <= hd.fileSize
         /\ parts[i].extended => parts[i].offset - hd.align + Sector <= hd.fileSize

\* Nothing is refused for lack of space when every declared partition leaves
\* its offset to the program and the image size is not given.
AutoLayoutFits ==
  /\ pc = "place" /\ idx <= Len(parts) /\ size = 0
  /\ \A i \in DOMAIN cfg.parts : cfg.parts[i].offset = 0 /\ parts[i].inTable
  /\ GptLocation(cfg) >= 2 * Sector
  => ~SpaceRefused

\* The end of the used space and of the output file only move forward, also
\* where the file size is assigned without a comparison.
SpaceOnlyGrows ==
  [][pc = "place" => now' >= now /\ hd'.fileSize >= hd.fileSize]_vars

\* hdimage_setup keeps the promise of DiskAreas.
LaysOutDisk == Disk!Spec
=============================================================================
