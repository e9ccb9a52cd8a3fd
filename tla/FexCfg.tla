------------------------------- MODULE FexCfg -------------------------------
(***************************************************************************)
(* What FEX2CFG.cpp and payloads/linux.cpp make of a partition table: the  *)
(* hdimage section genimage is given, and the size reported to the user.   *)
(* A table is the sequence of its [partition] sections (classify_fex has   *)
(* numbered them so that the ini parser keeps them apart and in order).    *)
(***************************************************************************)
EXTENDS Integers, Sequences, FiniteSets

CONSTANTS NoDownload,   \* a section without downloadfile
          UINT          \* unsigned int is modulo UINT

ASSUME UINTAssumption == UINT \in Nat \ {0}

\* struct linux_compensate, in bytes.
GptLocationBytes   == 1048576
Boot0Offset        == 8192
BootPackagesOffset == 16400 * 1024

IsBootResource(s) == s.name = "boot-resource" \/ s.downloadfile = "boot-resource.fex"

\* Mistaken variant: only the name of a partition counts.
TableTypeByName(fex) ==
  IF \E i \in DOMAIN fex : fex[i].name = "boot-resource" THEN "hybrid" ELSE "gpt"

\* Every section counts, also one that is left out below.
TableTypeOf(fex) == IF \E i \in DOMAIN fex : IsBootResource(fex[i]) THEN "hybrid" ELSE "gpt"

\* What is written of the first n sections.  UDISK is what remains of the card:
\* it is left out.
Written(fex, n) ==
  LET upTo[m \in 0 .. n] ==
        IF m = 0 THEN << >>
        ELSE IF fex[m].name = "UDISK" THEN upTo[m - 1] ELSE Append(upTo[m - 1], fex[m])
  IN  upTo[n]

WrittenSections(fex) == Written(fex, Len(fex))

\* genimage reads the file back: a partition section with the title of an earlier
\* one takes its place, as the options are declared (libconfuse).
Titled(q, s) ==
  IF \E k \in DOMAIN q : q[k].name = s.name
  THEN [k \in DOMAIN q |-> IF q[k].name = s.name THEN s ELSE q[k]]
  ELSE Append(q, s)

\* What is left of the first n sections of a file.
ReadBack(q, n) ==
  LET upTo[m \in 0 .. n] == IF m = 0 THEN << >> ELSE Titled(upTo[m - 1], q[m])
  IN  upTo[n]

KeptSections(fex) == ReadBack(WrittenSections(fex), Len(WrittenSections(fex)))

\* The size option: sectors to kilobytes, half a kilobyte is lost.
Bytes(s) == (s.sectors \div 2) * 1024

PartitionOption(title, offset, sz, inTable, ptype, image) ==
  [name |-> title, offset |-> offset, size |-> sz, align |-> 0, inTable |-> inTable,
   autoresize |-> FALSE, ptype |-> ptype, typeUuid |-> "none", uuid |-> "none",
   image |-> image, extended |-> FALSE]

\* Mistaken variant: sectors are taken for kilobytes.
PartitionOfSectors(s) ==
  PartitionOption(s.name, 0, s.sectors * 1024, TRUE, IF IsBootResource(s) THEN 12 ELSE 0,
                  IF s.downloadfile = NoDownload THEN "blank.fex" ELSE s.downloadfile)

\* Partition type 0xC puts the boot resource into the hybrid MBR.
PartitionOf(s) ==
  PartitionOption(s.name, 0, Bytes(s), TRUE, IF IsBootResource(s) THEN 12 ELSE 0,
                  IF s.downloadfile = NoDownload THEN "blank.fex" ELSE s.downloadfile)

BootPartitions ==
  << PartitionOption("boot0", Boot0Offset, 0, FALSE, 0, "boot0_sdcard.fex"),
     PartitionOption("boot-packages", BootPackagesOffset, 0, FALSE, 0, "boot_package.fex") >>

PartitionSections(fex) ==
  LET written == WrittenSections(fex)
  IN  BootPartitions \o [i \in DOMAIN written |-> PartitionOf(written[i])]

\* gen_linux_cfg_from_fex_map, as genimage reads it.
HdimageSection(fex) ==
  LET sections == PartitionSections(fex)
  IN  [table |-> TableTypeOf(fex),
       gptLoc |-> GptLocationBytes,
       parts |-> ReadBack(sections, Len(sections)),
       ptOpt |-> "unset", gptOpt |-> "unset", align |-> 0, ext |-> 0, sig |-> "none",
       uuid |-> "none", noBackup |-> FALSE, fill |-> FALSE, block |-> FALSE,
       device |-> 0, size |-> 0]

\* get_partition_real_size and the loop that sums it up: the first n sections.
Kilobytes(fex, n) ==
  LET upTo[m \in 0 .. n] == IF m = 0 THEN 0 ELSE upTo[m - 1] + fex[m].sectors \div 2
  IN  upTo[n]

\* Mistaken variant: the boot packages are forgotten.
CompensationNoPackages == (GptLocationBytes + Boot0Offset) \div 1024

\* linux_common_fex_compensate.
Compensation == (GptLocationBytes + Boot0Offset + BootPackagesOffset) \div 1024

\* get_image_real_size, in kilobytes: all sections and the compensation, in an
\* unsigned int.
RealSize(fex) == (Kilobytes(fex, Len(fex)) + Compensation) % UINT
=============================================================================
