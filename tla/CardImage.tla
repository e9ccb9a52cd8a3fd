----------------------------- MODULE CardImage ------------------------------
(***************************************************************************)
(* The two halves of a conversion put together: the configuration FexCfg   *)
(* derives from a partition table goes through hdimage_setup (HdLayout).   *)
(* This is the layout of the card the board will boot from.                *)
(***************************************************************************)
EXTENDS HdLayout, FexCfg

CONSTANT Fexes   \* the partition tables

VARIABLE fex     \* the table converted (never changes)

ImageOf(s) == IF s.downloadfile = NoDownload THEN "blank.fex" ELSE s.downloadfile

\* The ini parser has read the numbers, every file named is an image, and every name
\* is one word, as a title has to be.
Section == [name: STRING, sectors: Nat, downloadfile: STRING \cup {NoDownload}]

ASSUME FexesAssumption ==
  /\ Configs = {HdimageSection(f) : f \in Fexes}
  /\ {"boot0_sdcard.fex", "boot_package.fex"} \subseteq Images
  /\ \A f \in Fexes :
       /\ f \in Seq(Section)
       /\ \A i \in DOMAIN f :
            f[i].name # "[GPT backup]" /\ (f[i].name # "UDISK" => ImageOf(f[i]) \in Images)

CardInit == fex \in Fexes /\ cfg = HdimageSection(fex) /\ Init

CardNext == Next /\ UNCHANGED fex

CardSpec == CardInit /\ [][CardNext]_<<vars, fex>>

-----------------------------------------------------------------------------
(***************************************************************************)
(* What the layout of a card should be, from the table alone.              *)
(***************************************************************************)
SizeOf(image) == ImageSize[image]
ToSector(n) == ((n + Sector - 1) \div Sector) * Sector

\* A section without a size gets that of its file.
SpaceOf(s) == IF Bytes(s) # 0 THEN Bytes(s) ELSE ToSector(SizeOf(ImageOf(s)))

\* No section takes the place of the boot files, by their titles.
OwnNames(f) == \A i \in DOMAIN f : f[i].name \notin {"boot0", "boot-packages"}

BootResources(sections) == {i \in DOMAIN sections : IsBootResource(sections[i])}

\* Why a table cannot be converted: no data, a file larger than the size the
\* configuration gives it, or boot resources that the hybrid MBR cannot show.  Of
\* sections of one name only the last counts, but for the type of the table.
Unfit(f) ==
  LET kept == KeptSections(f)
  IN  \/ \E i \in DOMAIN kept :
           SpaceOf(kept[i]) = 0 \/ SizeOf(ImageOf(kept[i])) > SpaceOf(kept[i])
      \/ Cardinality(BootResources(kept)) > 3
      \/ BootResources(f) # {} /\ BootResources(kept) = {}

\* An unsigned long long counts whole sectors.
ASSUME WidthAssumption == ULL % Sector = 0

\* The boot files fit the places the configuration fixes for them.
ASSUME BootFilesAssumption ==
  /\ 0 < SizeOf("boot0_sdcard.fex")
  /\ Boot0Offset + SizeOf("boot0_sdcard.fex") <= GptLocationBytes
  /\ 0 < SizeOf("boot_package.fex")

\* A table is refused exactly for the reasons above: whatever else the
\* configuration says (locations of boot0, boot package and GPT, alignments,
\* table type) is never in conflict with the partitions, unless a section has the
\* title of a boot file.
RefusedIffUnfit == pc = "done" /\ OwnNames(fex) => (ret = "einval" <=> Unfit(fex))

\* The partitions of an accepted table follow the boot package without gaps, in
\* the order in which the table names them first, each with the size the table
\* gives it last; none has the title of a boot file.
PartitionsFollow ==
  LET kept  == KeptSections(fex)
      first == ToSector(BootPackagesOffset + SizeOf("boot_package.fex"))
  IN  ret = "ok" /\ OwnNames(fex) =>
        \A i \in DOMAIN kept :
          /\ parts[i + 2].size = SpaceOf(kept[i])
          /\ parts[i + 2].offset = IF i = 1 THEN first ELSE End(parts[i + 1])

\* The size reported to the user is enough for the image, if an unsigned int can
\* hold it, every section has a size and the boot package with the backup GPT
\* behind the partitions stays within the compensation for the GPT location and
\* boot0.
ReportedSizeSuffices ==
  /\ ret = "ok"
  /\ Kilobytes(fex, Len(fex)) + Compensation < UINT
  /\ \A i \in DOMAIN fex : Bytes(fex[i]) # 0
  /\ ToSector(SizeOf("boot_package.fex")) + BackupSize + 4096 <= GptLocationBytes + Boot0Offset
  => size <= RealSize(fex) * 1024
=============================================================================
