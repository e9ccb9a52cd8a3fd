----------------------------- MODULE HdGenerate -----------------------------
(***************************************************************************)
(* hdimage_generate of genimage-src/image-hd.c, run on what HdLayout set   *)
(* up once the images of its partitions exist: the output file is created, *)
(* every partition copied, and the partition tables are written over it.   *)
(*                                                                         *)
(* The file is the log of its writes, each a byte range with what it holds *)
(* (a later write hides an earlier one), and its length.  The tables are   *)
(* kept as their entries, in sectors: 64 bits wide in the GPT, 32 bits in  *)
(* the MBR and the boot records, which wrap behind 2 TiB.                  *)
(***************************************************************************)
EXTENDS HdLayout, SequencesExt

CONSTANTS
  BuiltSize,   \* image->size of each image once generated: mksquashfs sets it anew
  Word32,      \* sector numbers of the MBR and the boot records are modulo this: 2^32
  GptSlots     \* GPT_ENTRIES, the slots of the array of GPT entries: 128

ASSUME WidthAssumption == Word32 \in Nat \ {0} /\ GptSlots \in Nat \ {0}

\* A generator never makes an image larger than the size it was given, if any.
ASSUME BuiltSizeAssumption ==
  /\ BuiltSize \in [Images -> 0 .. ULL - 1]
  /\ \A i \in Images : ImageSize[i] # 0 => BuiltSize[i] <= ImageSize[i]

VARIABLES
  gpc,     \* "wait", "parts", "gpt", "mbr", "end" or "done"
  gret,    \* what hdimage_generate returned: "none" while it runs
  at,      \* the partition being written
  writes,  \* the writes to the output file, oldest first
  flen,    \* length of the output file
  mbr,     \* partition entries of the MBR
  ebrs,    \* the extended boot records
  gpt      \* the fields of the GPT: entries and usable range

gvars == <<gpc, gret, at, writes, flen, mbr, ebrs, gpt>>

-----------------------------------------------------------------------------
\* insert_data and insert_image: exactly [from, to) changes.
Put(kind, from, len) == [kind |-> kind, from |-> from, to |-> from + len, part |-> 0]

ImageData(i) == [kind |-> "image", from |-> parts[i].offset,
            to |-> parts[i].offset + BuiltSize[parts[i].image], part |-> i]

\* The length of the file after some writes; a block device keeps its own.
Extended(len, ws) ==
  IF cfg.block THEN len ELSE Max({len} \cup {ws[k].to : k \in DOMAIN ws})

\* hdimage_insert_ebr: the record in front of logical partition i, its link to
\* the next one relative to the start of the extended partition.
NextLogical(i) ==
  {j \in i + 1 .. Len(parts) :
     parts[j].extended /\ \A k \in i + 1 .. j - 1 : ~parts[k].extended}

\* A number of bytes as sectors in a uint32_t field.  (That the bytes are modulo
\* 2^64 changes nothing: the field keeps a lower part of the quotient.)
Sectors32(bytes) == (bytes \div Sector) % Word32

\* Mistaken variant: the link counts from the start of the disk.
BootRecordAbsolute(i) ==
  [at    |-> parts[i].offset - hd.align,
   first |-> Sectors32(hd.align),
   total |-> Sectors32(parts[i].size),
   next  |-> {Sectors32(parts[j].offset - hd.align) : j \in NextLogical(i)}]

BootRecord(i) ==
  [at    |-> parts[i].offset - hd.align,
   first |-> Sectors32(hd.align),
   total |-> Sectors32(parts[i].size),
   next  |-> {Sectors32(parts[j].offset - hd.align - hd.extLba) : j \in NextLogical(i)}]

\* The loops over the list skip partitions and count the others: the members of
\* S among the first n positions, in order.
Picked(S, n) ==
  LET upTo[m \in 0 .. n] ==
        IF m = 0 THEN << >> ELSE IF m \in S THEN Append(upTo[m - 1], m) ELSE upTo[m - 1]
  IN  upTo[n]

\* hdimage_insert_mbr: which partitions get an entry, and which entry.
InMbr(p) ==
  p.inTable /\ (hd.table = {"mbr", "gpt"} => p.ptype # 0 /\ ~p.extended)

\* Mistaken variant: one entry per logical partition.
MbrPartsWithLogical == {i \in DOMAIN parts : InMbr(parts[i])}

\* The loop stops behind the first logical partition.
MbrParts ==
  {i \in DOMAIN parts :
     InMbr(parts[i]) /\ \A j \in 1 .. i - 1 : InMbr(parts[j]) => ~parts[j].extended}

MbrEntry(p) ==
  IF p.extended
  THEN [type |-> 15, first |-> Sectors32(hd.extLba), total |-> Sectors32(size - hd.extLba)]
  ELSE [type |-> p.ptype, first |-> Sectors32(p.offset), total |-> Sectors32(p.size)]

PartitionEntries ==
  LET listed == Picked(MbrParts, Len(parts))
  IN  [k \in 1 .. Len(listed) |-> MbrEntry(parts[listed[k]])]

\* What keeps other programs off the GPT: an entry from the first sector on.
Protective(bytes) == [type |-> 238, first |-> Sectors32(Sector), total |-> Sectors32(bytes)]

MbrEntries ==
  IF hd.table = {"gpt"} THEN <<Protective(size - Sector)>>
  ELSE IF hd.table = {"mbr"} THEN PartitionEntries
  ELSE Append(PartitionEntries, Protective(hd.gptLoc + (GptSectors - 2) * Sector))

\* hdimage_insert_gpt: the entries, and the range the header says is usable.  The
\* loop does not count its entries: those behind the last slot are written behind
\* the array and are no part of the table.
TableParts == {i \in DOMAIN parts : parts[i].inTable}

\* Mistaken variant: the last sector is the one behind the partition.
GptEntryPastEnd(p) ==
  [first |-> p.offset \div Sector, last |-> (p.offset + p.size) \div Sector]

GptEntry(p) ==
  [first |-> p.offset \div Sector, last |-> (p.offset + p.size) \div Sector - 1]

GptEntries ==
  LET listed == Picked(TableParts, Len(parts))
  IN  [k \in 1 .. MinOf(Len(listed), GptSlots) |-> GptEntry(parts[listed[k]])]

SlotsExceeded == Cardinality(TableParts) > GptSlots

FirstUsable ==
  LET offsets == {parts[i].offset : i \in TableParts}
  IN  (IF offsets = {} THEN hd.gptLoc + (GptSectors - 1) * Sector ELSE Min(offsets)) \div Sector

GptTable ==
  [entries |-> GptEntries,
   firstUsable |-> FirstUsable,
   lastUsable |-> size \div Sector - 1 - GptSectors,
   start |-> hd.gptLoc \div Sector,
   backup |-> IF cfg.noBackup THEN 1 ELSE size \div Sector - 1]

\* The fields of the header that are set before the loop may be what it writes over.
Damaged(table) == [table EXCEPT !.lastUsable = 0, !.start = 0, !.backup = 0]

GptTables == {GptTable} \cup (IF SlotsExceeded THEN {Damaged(GptTable)} ELSE {})

HeaderSize == 92                      \* sizeof(struct gpt_header)
ArraySize  == (GptSectors - 1) * Sector

GptWrites == <<Put("gpt", Sector, HeaderSize), Put("gpt", hd.gptLoc, ArraySize)>>
BackupWrites == <<Put("gpt", size - BackupSize, ArraySize), Put("gpt", size - Sector, HeaderSize)>>

-----------------------------------------------------------------------------
GInit ==
  /\ Init
  /\ gpc = "wait" /\ gret = "none" /\ at = 1
  /\ writes = << >> /\ flen = 0
  /\ mbr = << >> /\ ebrs = << >>
  /\ gpt = [entries |-> << >>, firstUsable |-> 0, lastUsable |-> 0, start |-> 0, backup |-> 0]

\* hdimage_generate returns.
Return(r) == gpc' = "done" /\ gret' = r

\* prepare_image: a regular file gets its final size at once, the start of a
\* block device is cleared.
PrepareImage ==
  /\ gpc = "wait" /\ ret = "ok"
  /\ gpc' = "parts"
  /\ flen' = IF cfg.block THEN cfg.device ELSE hd.fileSize
  /\ writes' = IF cfg.block THEN <<Put("wipe", 0, 2048)>> ELSE << >>
  /\ UNCHANGED <<gret, at, mbr, ebrs, gpt>>

HasData(p) == p.image # NoImage /\ BuiltSize[p.image] # 0

TooSmall(p) == HasData(p) /\ BuiltSize[p.image] > p.size

\* The writes of one partition: its boot record, then the image it holds.
Records(i) ==
  IF parts[i].extended THEN <<Put("ebr", parts[i].offset - hd.align + 446, 66)>> ELSE << >>

PartitionWrites(i) ==
  Records(i) \o (IF HasData(parts[i]) /\ ~TooSmall(parts[i]) THEN <<ImageData(i)>> ELSE << >>)

AddPartition ==
  /\ gpc = "parts" /\ at <= Len(parts)
  /\ writes' = writes \o PartitionWrites(at)
  /\ flen' = Extended(flen, PartitionWrites(at))
  /\ ebrs' = IF parts[at].extended THEN Append(ebrs, BootRecord(at)) ELSE ebrs
  /\ IF TooSmall(parts[at]) THEN Return("e2big") /\ at' = at
     ELSE at' = at + 1 /\ UNCHANGED <<gpc, gret>>
  /\ UNCHANGED <<mbr, gpt>>

PartitionsAdded ==
  /\ gpc = "parts" /\ at > Len(parts)
  /\ gpc' = IF hd.table = {} THEN "end" ELSE IF "gpt" \in hd.table THEN "gpt" ELSE "mbr"
  /\ UNCHANGED <<gret, at, writes, flen, mbr, ebrs, gpt>>

\* extend_file refuses to make the file shorter.
InsertGpt ==
  LET len == Extended(flen, GptWrites)
      backup == ~cfg.noBackup
      tooLong == backup /\ len > size
  IN  /\ gpc = "gpt"
      /\ gpt' \in GptTables
      /\ writes' = writes \o GptWrites \o (IF backup /\ ~tooLong THEN BackupWrites ELSE << >>)
      /\ flen' = IF backup /\ ~tooLong THEN size ELSE len
      /\ IF tooLong THEN Return("einval") ELSE gpc' = "mbr" /\ gret' = gret
      /\ UNCHANGED <<at, mbr, ebrs>>

\* The write behind the array of entries ends the program: at once, or later, when
\* what it has overwritten is used, up to the return of hdimage_insert_gpt.
GptOverflow ==
  /\ gpc \in {"gpt", "mbr", "end"} /\ "gpt" \in hd.table /\ SlotsExceeded
  /\ Return("crash")
  /\ UNCHANGED <<at, writes, flen, mbr, ebrs, gpt>>

InsertMbr ==
  /\ gpc = "mbr"
  /\ mbr' = MbrEntries
  /\ writes' = Append(writes, Put("mbr", Sector - MbrTail, MbrTail))
  /\ flen' = Extended(flen, <<Put("mbr", Sector - MbrTail, MbrTail)>>)
  /\ gpc' = "end"
  /\ UNCHANGED <<gret, at, ebrs, gpt>>

\* Fill the file if asked to, and compare its length with what setup computed.
CheckSize ==
  LET tooLong == cfg.fill /\ flen > size
      len == IF cfg.fill /\ ~tooLong THEN size ELSE flen
  IN  /\ gpc = "end"
      /\ flen' = len
      /\ Return(IF tooLong THEN "einval"
                ELSE IF ~cfg.block /\ hd.fileSize # len THEN "badsize" ELSE "ok")
      /\ UNCHANGED <<at, writes, mbr, ebrs, gpt>>

\* A write, a truncation or the reload of a device's partitions fails (external).
IoError ==
  /\ ret = "ok" /\ gpc # "done"
  /\ Return("io")
  /\ UNCHANGED <<at, writes, flen, mbr, ebrs, gpt>>

Generate ==
  \/ PrepareImage \/ AddPartition \/ PartitionsAdded
  \/ InsertGpt \/ GptOverflow \/ InsertMbr \/ CheckSize \/ IoError

Over == (ret = "einval" \/ gpc = "done") /\ UNCHANGED <<vars, gvars>>

GNext == (Setup /\ UNCHANGED gvars) \/ (Generate /\ UNCHANGED vars) \/ Over

GSpec == GInit /\ [][GNext]_<<vars, gvars>>

-----------------------------------------------------------------------------
(***************************************************************************)
(* Properties.                                                             *)
(***************************************************************************)
Write == [kind: {"wipe", "image", "ebr", "gpt", "mbr"}, from: Nat, to: Nat, part: Nat]

\* Every variable of the generation has its type: in particular an MBR never
\* gets more entries than its four slots, whatever mix of primary, logical and
\* hybrid partitions is declared, and no byte offset is negative.
GTypeOK ==
  LET Extent == [first: Nat, last: Nat]
      Field == 0 .. Word32 - 1
      Entry == [type: Nat, first: Field, total: Field]
  IN  /\ gpc \in {"wait", "parts", "gpt", "mbr", "end", "done"}
      /\ gret \in {"none", "ok", "io", "e2big", "einval", "badsize", "crash"}
      /\ at \in 1 .. Len(parts) + 1
      /\ writes \in Seq(Write) /\ flen \in Nat
      /\ mbr \in Seq(Entry) /\ Len(mbr) <= 4
      /\ ebrs \in Seq([at: Nat, first: Field, total: Field, next: SUBSET Field])
      /\ gpt \in [entries: Seq(Extent), firstUsable: Nat, lastUsable: Nat, start: Nat, backup: Nat]

Meet(w, v) == w.from < v.to /\ v.from < w.to

\* v, written later, may hide bytes of w: both of an image and in one hole of it.
InHole(w, v) ==
  /\ w.kind = "image"
  /\ HoleCovering(parts[w.part].image, MaxOf(w.from, v.from) - w.from, MinOf(w.to, v.to) - w.from)

\* No write destroys what an earlier one put into the image: the data of a
\* partition is hidden only where its image declares a hole, the partition
\* tables nowhere.  (Boot records are the exception: see BootRecordsSurvive.)
DataSurvives ==
  \A k \in DOMAIN writes : \A l \in k + 1 .. Len(writes) :
    Meet(writes[k], writes[l]) /\ writes[k].kind \notin {"wipe", "ebr"}
      => InHole(writes[k], writes[l])

\* Neither does one destroy an extended boot record: "The partition must not
\* overlap any other partition, or the areas occupied by the partition table"
\* (README.rst).  The code breaks this one.
BootRecordsSurvive ==
  \A k \in DOMAIN writes : \A l \in k + 1 .. Len(writes) :
    writes[k].kind = "ebr" => ~Meet(writes[k], writes[l])

\* Its place among the members of S, counted from one.
Rank(S, i) == Cardinality(S \cap 1 .. i)

\* The image ends where 32 bits still count its sectors: below 2 TiB.  The program
\* does not look.
Countable == size \div Sector < Word32

\* The tables say where the partitions are: the GPT entries are exactly the
\* byte ranges of the table partitions, in order, inside the range the header
\* declares usable, if the array has a slot for each; and each primary MBR entry
\* of an image whose sectors 32 bits count is the range of one of them.
TablesDescribeLayout ==
  gret = "ok" =>
    /\ "gpt" \in hd.table /\ ~SlotsExceeded =>
         /\ Len(gpt.entries) = Cardinality(TableParts)
         /\ \A i \in TableParts :
              LET entry == gpt.entries[Rank(TableParts, i)]
              IN  /\ entry.first * Sector = parts[i].offset
                  /\ (entry.last + 1) * Sector = End(parts[i])
                  /\ gpt.firstUsable <= entry.first
                  /\ entry.last <= gpt.lastUsable
    /\ Countable => \A k \in DOMAIN mbr :
         mbr[k].type \notin {15, 238} =>
           \E i \in TableParts :
             mbr[k].first * Sector = parts[i].offset /\ mbr[k].total * Sector = parts[i].size

Logical == {i \in DOMAIN parts : parts[i].extended}

\* Following the links from the extended entry of the MBR visits the boot
\* record of every logical partition, in order, and each one lies on a sector
\* and points at its partition, in every image whose sectors 32 bits count.
LogicalChain ==
  LET first == {mbr[k].first : k \in {j \in DOMAIN mbr : mbr[j].type = 15}}
      links == [k \in DOMAIN ebrs |-> {hd.extLba \div Sector + n : n \in ebrs[k].next}]
  IN  gret = "ok" /\ hd.table = {"mbr"} /\ Countable =>
        /\ Len(ebrs) = Cardinality(Logical)
        /\ first = (IF Logical = {} THEN {} ELSE {ebrs[1].at \div Sector})
        /\ \A i \in Logical :
             LET record == ebrs[Rank(Logical, i)]
             IN  record.at + record.first * Sector = parts[i].offset
        /\ \A k \in DOMAIN ebrs :
             /\ ebrs[k].at % Sector = 0
             /\ links[k] = (IF k = Len(ebrs) THEN {} ELSE {ebrs[k + 1].at \div Sector})

\* What the tables can express.  The program reports an alignment off the sector
\* grid and goes on; a hole at the end of an image lets it reach into the backup
\* table; and type 15 is what an extended partition is told by.
OnGrid ==
  \A c \in Configs : \A i \in DOMAIN c.parts :
    c.parts[i].inTable => c.parts[i].align % Sector = 0

SolidInTable ==
  \A c \in Configs : \A i \in DOMAIN c.parts :
    c.parts[i].inTable /\ c.parts[i].image # NoImage => ImageHoles[c.parts[i].image] = {}

NoExtendedType == \A c \in Configs : \A i \in DOMAIN c.parts : c.parts[i].ptype # 15

TableEnd == IF "gpt" \in hd.table THEN hd.gptLoc + ArraySize ELSE Sector

\* Once setup has accepted a layout, generation fails by itself only for two
\* reasons: an image that had no size at setup has one now, or no partition
\* holds data behind the partition table, which the announced file size forgets.
FailuresExplained ==
  gret \in {"e2big", "einval", "badsize"} =>
    \/ \E i \in DOMAIN parts :
         /\ parts[i].image # NoImage
         /\ ImageSize[parts[i].image] = 0 /\ BuiltSize[parts[i].image] # 0
    \/ hd.table # {} /\ hd.fileSize < TableEnd
=============================================================================
