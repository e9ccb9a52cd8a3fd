# A TLA+ model of OpenixCard

OpenixCard unpacks the firmware images of Allwinner boards and converts them to
disk images for SD cards. This directory models the program in TLA+: how it
unpacks an image, what its runs leave on the disk, which configuration it
derives from a partition table, how that configuration becomes a layout, how the
layout becomes an image, in which order images are built, and what the handlers
of genimage write. TLC checks the models on small instances. For the layout and
the writing of disk images, the copying of files and the flash images made of
them, the order in which images are built, the options, the driver and both
unpackers, TLAPS proves the properties for all instances.

Paths below are relative to the repository. `genimage-src/` stands for
`src/GenIMG/genimage-src/`.

## The system

| Part | Source | State | Operations |
|---|---|---|---|
| Driver | `src/main.cpp`, `src/OpenixCard/OpenixCard.cpp` | mode, paths; the dump directory on disk | unpack (`-u`), unpack and configuration (`-uc`), convert (`-d`), pack (`-p`), size (`-s`) |
| Unpacker | `src/OpenixIMG/src/OpenixIMG.c` | the image in memory, `image.cfg` | `unpack_image`: write every file of the image, list them |
| Partition table to configuration | `src/OpenixCard/FEX2CFG.cpp`, `payloads/linux.cpp`, `payloads/chip.h` | the parsed table, the configuration text | `classify_fex`, `parse_fex`, `gen_cfg`, `save_file`, `get_image_real_size` |
| genimage call | `src/GenIMG/GenIMG.cpp` | two temporary directories, a status | write `blank.fex`, `mktemp`, call the wrapper |
| genimage driver | `src/GenIMG/GenimageWrapper.c` | the list of images with their marks `seen` and `done`, flash types, the temporary directory | parse, implicit images, flash types, root file system, `image_setup`, `image_generate` |
| hdimage handler | `genimage-src/image-hd.c` | `struct hdimage`, the partition list | `hdimage_setup` (layout), `hdimage_generate` (data and tables) |
| Helpers | `genimage-src/util.c` | none | commands, file insertion and extension, holes |
| Options | `genimage-src/config.c` | the option list, four paths kept at their first use | two passes over default, environment, configuration file and command line |
| Mountpoints | `GenimageWrapper.c` (`collect_mountpoints`) | the list of mountpoints, the copy of the root file system in the temporary directory | copy, then move each mountpoint's directory out |
| File, flash and sparse handlers | `genimage-src/image-file.c`, `image-flash.c`, `image-android-sparse.c` | image sizes, partition offsets, extents and chunks | set up and write their images themselves |
| Other handlers | `genimage-src/image-*.c` | their outputs and files in the temporary directory | refuse what they cannot do, run the commands that make the image |
| Documentation sample | `docs/img_decode` | a buffer, an output directory | decode an image item by item |
| Ciphers, checksum, list, log | `lib/`, `crc32.c`, `list.h`, `LOG.cpp` | none | |

The program has one thread and no callbacks. The parts call each other down
the table and talk through files: the unpacker writes `sys_partition.fex` and
the payloads into `<input>.dump`, FEX2CFG reads the table there and writes
`<name>.cfg` next to it, genimage reads that configuration and the payloads and
writes the image into `<input>.dump.out` (`-d`) or into the directory (`-p`).
Within genimage the images form a graph: an image contains the images of its
partitions.

What is hard:

* **Runs share a directory.** It is not emptied; a run finds what an earlier
  one left, which may have been killed, may have been of another input, or may
  have failed to write a file without noticing.
* **Recursion over declared data.** Set-up and generation walk the image graph
  with two marks per image, on which both order and termination rest.
* **One running maximum and one list.** The layout compares most partitions
  with the list of earlier ones, but logical ones with the end of the space
  used. Table areas are listed last and placed first. Differences are unsigned.
* **Two sources of one size.** The file size announced by set-up is compared
  with the file generated, and with sizes that change in between.
* **Failure of one step of several**: commands, files, killed processes.
* **Holes.** Files are read by the extents the file system reports, which end
  where they like, may be past the end of the file, and leave holes that one
  caller pads, one skips and one merges.
* **Names that meet.** Handlers share files in the temporary directory,
  mountpoints are told apart as strings, an input may be its own output.
* **Fields of 32 bits** for offsets and lengths of any size.

`PROJECT.json` lists the hazards at their lines, with the properties that would
notice them.

What makes each part correct:

* driver: exit status 0 means that the promised files are there and of this
  input; every run ends;
* table to configuration: whatever the table, the generated configuration is
  refused only for a reason that lies in the table; the reported size suffices;
* genimage driver: children first, everything once, recursion reported exactly
  when real;
* layout: areas disjoint, inside the image, in the documented order, room for
  boot records, an announced file size that covers the data;
* generation: no data destroyed, tables that describe the layout;
* unpacker: every file of the image, whole, under its name, and the list of them;
* insertion: exactly the range asked for is written, wherever a call fails; flash
  image: every partition and every gap; sparse image: reads back as its input;
* options, mountpoints, other handlers: paths as configured, the files of the
  image's own mountpoint, outputs with nothing of anybody else in them.

## The modules

| Module | Models | Checked by |
|---|---|---|
| `DiskAreas` | what laying out a disk promises, without how | refined by `HdLayout` |
| `HdLayout` | `hdimage_setup` | `MCHdLayout` |
| `HdLayout_proofs` | theorems about `HdLayout`: types, disjoint areas; the rest from bounds on its inputs; that it implements `DiskAreas` | TLAPS |
| `HdGenerate` | `hdimage_generate` on what `HdLayout` set up | `MCHdGenerate` |
| `HdGenerate_proofs` | theorems about `HdGenerate` | TLAPS |
| `BuildOrder` | what running genimage promises about its images | refined by `Genimage` |
| `Genimage` | `GenimageWrapper` with `image_setup` and `image_generate` | `MCGenimage`, `MCGenimageRun` |
| `Genimage_proofs` | theorems about `Genimage`; that it implements `BuildOrder` | TLAPS |
| `Options` | the options and their sources | `MCGenimageRun` |
| `Mountpoints` | `collect_mountpoints` and `mountpath` | `MCGenimageRun` |
| `Handlers` | the handlers that run other programs | `MCGenimageRun` |
| `GenimageRun` | `Genimage` with the three above: a whole run | `MCGenimageRun` |
| `GenimageRun_proofs` | that a run implements `Genimage`; its options and mountpoints | TLAPS |
| `ImageFile` | files with holes; `map_file_extents`, `write_bytes`, `extend_file` | `MCImagePipeline` |
| `FileRange` | what `insert_image` promises | refined by `ImagePipeline` |
| `InsertImage` | a call of `insert_image` | `MCImagePipeline` |
| `FlashImage` | `flash_setup`, `flash_generate` | `MCImagePipeline` |
| `AndroidSparse` | `android_sparse_setup`, `android_sparse_generate` | `MCImagePipeline` |
| `ImagePipeline` | a file image into a flash image or hdimage into a sparse image | `MCImagePipeline` |
| `ImagePipeline_proofs` | theorems about `ImagePipeline`; that it implements `FileRange` | TLAPS |
| `OpenixIMG` | `unpack_image` | `MCImgDecode` |
| `ImgDecode` | the decoder of the documentation on the same image | `MCImgDecode` |
| `ImgDecode_proofs` | theorems about `OpenixIMG` and `ImgDecode` | TLAPS |
| `FexCfg` | configuration and size from a partition table (operators) | `MCCardImage` |
| `CardImage` | `FexCfg` composed with `HdLayout` | `MCCardImage` |
| `CardImage_proofs` | theorems about `CardImage` | TLAPS |
| `OpenixCard` | the driver, with unpacking and conversion, over the disk | `MCOpenixCard` |
| `OpenixCard_proofs` | theorems about `OpenixCard` | TLAPS |

Definitions whose comment starts with "Mistaken variant" are not part of the
model: each is a plausible mistake in the definition next to it, and
`PROJECT.json` says which property notices it.

**HdLayout.** `cfg` is the `hdimage` section with the declared partitions,
`parts` the list, `hd` the fields of `struct hdimage` that matter, `now`,
`tableEntries`, `hybridEntries` and `autoPart` the locals of the same names, `idx`
the loop position. `SetupOptions` is the function up to the main loop,
`PlacePartition` one turn of the loop, `FinishSetup` the rest; each has a
`Refuse...` action for the error returns of its stretch. Every error is
`-EINVAL` and the caller gives up, so what a refused turn had already assigned
is not kept. Sums and differences wrap at `ULL`, 2^64 in C. Identifiers are
valid, invalid or absent.

**HdGenerate** extends it. The output file is the log of its writes with its
length; MBR, boot records and GPT are kept as entries in sectors. `Word32` is
2^32, what the fields of an MBR entry and of a boot record keep of a sector
number (`Sectors32`). `GptSlots` is the length of the array of GPT entries, 128.
The loop that fills it does not count: with more table partitions it writes
over the header and what follows on the stack, so the header is right or
`Damaged`, and the program may end there (`GptOverflow`). CHS
addresses, checksums, flags and names are abstracted. `BuiltSize` is the size
of an image after its own generation, which differs from `ImageSize` for
squashfs. Any write may fail (`IoError`).

**Genimage.** The recursion of `image_setup` and `image_generate` is the stack
`calls`; `Call` is the beginning of both functions, `ReturnTo` a return of 0, and
a failure unwinds all calls. The loops over partitions before set-up
(implicit images, flash types) take one partition per turn, at `part` of the
image at `top`. Handlers and commands succeed or fail freely; a
command killed by a signal succeeds without its output.

**Options.** `given` holds what the environment, the `config` section and the
arguments say. `SetConfigOpts` is one pass of `set_config_opts`; the first one
has no file. An argument `getopt_long` rejects ends the pass, and
`GenimageWrapper` does not look at the result. `Keep` is the first call of
`imagepath`, `inputpath`, `rootpath` or `tmppath`.

**Mountpoints.** A path is a sequence of names and a name a sequence of words, so
that `sanitize_path`, which turns slashes into dashes, is the concatenation of
the names, and a trailing slash is an empty name. The copy of the root file
system is a set of paths. `MoveMountpoint` is `mv`, `mkdir`, `chmod` and `chown` of
one mountpoint; what `mv` does when its target is there is modelled as external.
Owners and times are not modelled.

**Handlers.** `...Refused` are the errors of a setup function, `...Commands` what a
generate function runs, in order. A command writes a place, a file or a
directory, and may need what others left: a command that adds to a file wants
it there, `rauc bundle` wants it not there. What a place holds is a set of items
(an image, a tree, a setting, the output of an earlier run). A command succeeds,
fails, or goes wrong unnoticed (`CommandUnnoticed`: killed by a signal, or not
the last program of a pipe) having written nothing or a part.

**GenimageRun.** Each action of `Genimage` is joined with what the other modules
do in it, and the choices `Genimage` leaves open are made: a handler refuses what
`Handlers` says, its `GenerateHandler` is the end of a sequence of commands,
`CollectMountpoints` that of the moves. Images of type `plain` stand for the
handlers that have a module of their own, and keep `Genimage`'s free choice.

**ImageFile**, **InsertImage** and **FileRange.** A file is a row of units in blocks
that are allocated or holes. `MapFileExtents` is FIEMAP with its rounding to
blocks and its splits, or one extent for everything without it. `StSize` is
`st_size`, which is 0 for a block device whatever the device holds, and a device
has one extent too. A call of
`insert_image` is the record `call`: one step opens and resizes the output, one
begins an extent (padding the hole before it), one copies a buffer. Every system
call may fail, a write also half done. `FileRange` is the comment above the
function: nothing outside the range changes, a unit inside changes once, and
success means all did. It is refined with `wanted`, the content of the range
recorded at the call.

**FlashImage**, **AndroidSparse** and **ImagePipeline.** The loops of the two handlers,
one turn per step, over the same files; `ImagePipeline` runs setup of all images,
then generation of all. In `AndroidSparse` the header of a chunk is written when
the chunk begins and again when it ends, and `SizeMod` is the 2^32 of its size
field. The checksum is kept as the data it is computed of.

**OpenixIMG** and **ImgDecode.** A byte of the image is its position. `Field` is what
32 bits keep of an offset or length, `Word` stands for 2^32, and the decryption is
the position it has come to. `DirLength` and `MaxDir` are the 255 characters of
`recursive_mkdir`. `ImgDecode` finds each item again by its subtype and copies it
a buffer at a time, into a directory that was cleared or not there. What it
wrote of a file is kept as the sequence of the pieces, and `Joined` says that they
follow each other from the file's first byte to its last. Failures nothing looks
at are kept apart: `kept` are the files `rm -rf` has left of an earlier run, `lost`
those a write of which came out short; a failing read or allocation ends the
decoder (`ReadFails`, `ParseItem`), the latter after the file has been emptied. In
`OpenixIMG` the `fread` of the image is not looked at, so a short one goes on with
what is in memory and counts as a failed call.

**OpenixCard.** A file is modelled by the input image its bytes are from, or
`Torn`. One action is one call with an observable effect on the disk. The
environment may fail a call (`Fault`), interrupt the program in or between
steps (`Kill`, `HalfDone`) and change the input (`Swap`), each a bounded
number of times. The directory given to `-p` is the dump directory of the same
input. The tools genimage runs, and its own layout, are the choice between
success and failure here; `CardImage` and `Genimage` have the detail.

**FexCfg** and **CardImage.** A section has a name, a size in sectors and a
file. Sizes in the generated configuration are in kilobytes, so half of them
may be lost. The name of a section is the title of a section of the generated
configuration, and libconfuse puts a second section of a title in the place of
the first (`Titled`, `ReadBack`): of sections of one name the last counts, at the
place of the first, and one called `boot0` or `boot-packages` replaces what the
program wrote itself. `KeptSections` is what is left of a table, and `OwnNames` says
that no section has such a title. `CardImage` gives each table's configuration,
so read back, to `HdLayout`.

## What the runs check

| Run | Shows | Bounds |
|---|---|---|
| `hd_layout` | type, no wrap-around, disjoint areas, areas inside the image, automatic partitions after everything before, room for boot records, announced file size covers the data and only grows, an automatic layout never runs out of space, refinement of `DiskAreas` | all sequences of up to two of nine kinds of partition (three for MBR and GPT), four table types, images from too small to ample; the options one by one |
| `hd_generate` | no write destroys earlier data except inside declared holes, tables describe the layout, the boot records form the chain, generation fails by itself for two reasons only | fewer kinds, up to six partitions where entries matter, regular files and devices; 128 sectors for 2^32, with images before, at and behind them; three slots for GPT entries and tables that need four |
| `genimage` | children first, recursion only if real, each image once, paths settled before use, every image the files of its mountpoint, every output as declared, termination, refinement of `BuildOrder` | 162 graphs over three images with up to two children, plus one implicit image; flash types, holes and missing types on two images; options from all four sources, with seven argument lists; all pairs of six mountpoints; every handler with each of its settings, over an old output; all pairs of five handlers that share files |
| `openixcard` | exit status 0, fresh conversions, termination | six kinds of input, three files, three runs, one change of input, one failing call, one kill |
| `image_files` | flash images complete, sparse images decode to their input, `insert_image` refines `FileRange`, inputs kept, termination | files of up to four blocks with holes in every place and extents split, up to three flash partitions, two in an hdimage without table; regular files, old outputs, and devices as input and as output; block sizes of 0 to 4; one failing or partial call |
| `unpack` | unpacked files whole and listed, the documentation's decoder agrees, what it decoded before it stopped is whole | up to two files with equal names or subtypes, starting before, at and behind 4 GiB (16 in the model), lengths from 0 to more than 4 GiB, paths too long, all versions, encrypted or not; failing calls, short reads and writes of both programs |
| `card_image` | which tables are refused, where partitions go, when the reported size suffices | all tables of two of ten kinds of section, of three of the eight whose data fits, and of four boot resources, each of a name of its own, UDISK apart; tables of two sections whose names repeat or are those of the boot files, and of three whose names repeat; an unsigned int so narrow that the sizes of three large sections overflow it |

Why this is enough: overlap and placement compare two areas at a time, and three
partitions with the four table areas give every pair in every order; the fourth
and fifth matter only to the MBR's four entries and to hybrid tables, which have
their own configurations. An image graph needs two images for a cycle and three
for one that shares a child with it. Two runs are needed for stale files, a
third one to show that a damaged directory recovers. A copy loop meets every
case with an extent that ends before, at and behind the end of a file of a few
blocks, and a chunk header is rewritten as soon as two blocks follow each other.
Two handlers suffice for a shared file, two mountpoints for an order. `openixcard` uses an input
that is not called `image`; with both names (`BaseNames <- ImageBaseNames`) the
same properties hold in a longer run.

`MCULL` is 2^26, since TLC computes in 32 bits. It is a power of four like 2^64,
which leaves the same remainders for the divisions that occur, and all offsets of
the instances stay far below it, so that only differences below zero wrap.
`NothingWraps` checks exactly that. `CHECK_DEADLOCK FALSE` is only in the
configurations of `OpenixCard`, whose user may stop using it and whose number of
runs is bounded.

Five runs end in a violation, each of a sentence in the documentation or a
comment:

* `boot_records`: "The partition must not overlap any other partition, or the
  areas occupied by the partition table" (`genimage-src/README.rst`). The
  extended boot record in front of a logical partition is no area
  `check_overlap` knows, so that a partition at a fixed offset behind it in the
  list may cover it.
* `flash_types`: "propagate flash types to partitions". One pass in the order
  of declaration does not reach what an earlier image contains.
* `killed_command`: "printf wrapper around 'system'". Unlike `system`, `systemp`
  reports success for a command killed by a signal.
* `pack_after_unpackcfg`: `-uc` generates the configuration that `-p` needs. For
  an input named `image.img` it is written over `image.cfg`, which `-p` skips.
* `sparse_holes`: "If @sub is smaller than @size (including if @sub is NULL),
  insert @byte bytes for the remainder" (`insert_image`). The padding also goes
  over the holes of the file, so that in a flash image zeros become 0xFF.

Two more divergences are of the model but have no run: the documentation wants a
partition's size to be a multiple of its alignment, and only the offset is
checked; `-s` reports "the accurate size", which counts UDISK and fixed offsets
but neither the boot package nor the backup table, in an `unsigned int` of kilobytes
(`ReportedSizeSuffices` says when it is enough).

Met on the way and stated as exceptions in properties: generation fails although
the file is complete when no partition holds data behind an MBR, or behind a GPT
without backup (`FailuresExplained`); `-p` exits with 0 when it finds no
configuration (`ExitZeroMeansDone`); a table without `[partition_start]` ends the
program with an uncaught exception (`ParseFex`); a file in a directory whose path
is too long, one that begins behind 4 GiB or is longer, and one whose name comes
again later are not unpacked as they are (`UnpackComplete`); the decoder does not
notice a failed write or a file `rm` has left, and a second item of a subtype that
cannot be read has emptied the first one's file (`PrefixDecoded`, `SameContents`);
the sectors of an image of 2 TiB and more wrap in MBR and boot records, and a GPT
with more partitions than slots is not written as it should be
(`TablesDescribeLayout`, `LogicalChain`); a partition called like a boot file takes
its place (`RefusedIffUnfit`, `PartitionsFollow`); a flash image cuts a file for which
its section gives a smaller size, and takes nothing it should of a block device,
whose size reads as 0 (`FlashImageComplete`); a hole at the end of the
input gets no sparse chunk, a chunk beyond 2^32 has a wrong size, and the sparse
image of a block device is empty (`SparseDecodes`); a file image whose input and output are one file under two
names loses it (`InputKept`); one directory mounted in two spellings, and two
mountpoints or two RAUC bundles with one name after `sanitize_path`, mix their
files (`TreesAsMounted`, `OutputsAsDeclared`); a vfat image filled from its
mountpoint gets nothing from the top of it whose name begins with a dot
(`OutputsAsDeclared`).

## Fairness

`Genimage`, `ImagePipeline` and `OpenixCard` have `WF_vars(Step)`, and `GenimageRun`
`WF_runVars(RunStep)`: a process that can take its next step takes it. The program
is sequential and waits for nothing but its own commands and system calls, which
are assumed to return. No fairness is put on single actions, so a failure that
may happen at every call need never happen, or happen at once. Nothing is assumed
of the user: starting a run, killing one and changing the input are not fair.
The other modules state safety only.

## What is proved

Each theorem holds for every value of the constants that satisfies the named
assumptions of its module: any configuration, any number of partitions, images,
files or runs, any width of the integers. TLC evaluates all these assumptions in
the runs. `PROJECT.json` lists the theorems with the properties they state.

**The layout** (`HdLayout_proofs`).

* `TypeCorrect`: `Spec => []TypeOK`. No alignment is zero once the options are
  settled, and division is only then defined: `SetupOptionsTypes` establishes it,
  `PlacePartition` keeps it.
* `LayoutSafe`: areas are disjoint and in the image as long as no sum wraps
  (`[]NothingWraps`). Disjointness is not inductive by itself, since a logical
  partition is compared with `now` only; `LayoutInv` adds that everything placed
  ends at or before `now`.
* `SumsFit`: no sum does wrap, under `Fits(M)`, which replaces that hypothesis by a
  bound on the inputs: offsets, sizes, alignments and files of at most `M` bytes,
  and the list so short that its partitions can take six times `M` each in half
  of `ULL`. The code does not look for wrap-around, so some such bound is needed;
  with 64 bits and an `M` of 256 terabytes it leaves room for more than 5000
  partitions. `MCFits` evaluates it on the instances.
* From `Fits(M)` follow all other properties of `hd_layout`: `AreasNeverClash`
  and `LayoutInImage` (without the exception `LayoutSafe` makes for a GPT image
  smaller than its backup table: its wrapped offset meets no other area, and the
  image is refused in the end), `AutoPlacement`, `BootRecordsHaveRoom`,
  `FileSizeSuffices`, `SpaceGrows`, and `AutoLayoutHasRoom`. The last one also needs
  `NamesApart`, that no declared partition is called `[GPT backup]`: the code looks
  for the backup table under that name.
* `ImplementsDiskAreas`: each step of `hdimage_setup` is one of `DiskAreas` or leaves
  its variables alone.

The invariant is `HdInv(M)`: `TypeInv`; `ListInv`, what the list has kept of the
configuration; `SpaceInv(M)`, that after `i` partitions `now` is at most
`(i + 1) * 6 * M` and at least where the table lets it start, and that what is placed
ends before it, but for the backup table of an image too small for it; and
`AreasDisjoint`. `BootInv` and `FileInv` are proved on top of it.

**Writing the image** (`HdGenerate_proofs`). Generation leaves the variables of
`HdLayout` alone once set-up has succeeded, so what is proved of the layout holds
throughout; `Accepted` collects it, with `LayInv` for what no property says: where
the table areas lie, and that no image is larger than its partition.

* `NothingOverwritten`: `DataSurvives`. The invariant `GenInv` says of each write on
  the log which area it lies in and that it was due by now, so that a new write
  needs to be compared with those of other areas only. Areas are disjoint, boot
  records have room in front of their partition and behind all that came before
  it, and the tables stand last in the list, so that only a hole of an earlier
  image can be written over.
* `FailuresHaveReasons`: `FailuresExplained`. `LengthInv` keeps the length of the
  output between the announced file size and the size of the image.
* `GenerationTypes`: `GTypeOK`. What is hard in it is that an MBR gets no fifth entry,
  although the loop that writes it does not count: `CountInv` says, at each place of
  the loop of set-up, how many partitions of the list so far the MBR has a slot
  for, from the check that makes a partition extended or refuses it.
* `TablesDescribe`: `TablesDescribeLayout`, and `LogicalChained`: `LogicalChain`. `Tabled`
  says that the partitions in the list are as they were declared, with an offset that
  is a multiple of the alignment; `TablesInv` which of the tables are written when, and
  that the boot records written so far are those of the logical partitions before
  `at`; `StartInv` that the extended partition starts at the first boot record, which
  is what the links count from. Both hold for every `Word32` and `GptSlots`: the
  links and the primary entries of an image that is `Countable`, below 2 TiB in C,
  where no field wraps; the GPT entries unless `SlotsExceeded`. The code looks at
  neither bound.
  The loops over the list become `Picked`, a recursive function; `PickedInOrder`
  says that a member of the set stands at its rank in it. Like `Flattened` below it is
  shown by least counterexample (`LeastOf`).
  Three hypotheses say what a table can express, and `MCExpressible` evaluates them on
  the instances: `OnGrid`, alignments of table partitions in whole sectors - the
  program reports another one and goes on, and then rounds the offset in the entry
  down; `SolidInTable`, no holes in their images - a hole at the end lets a partition
  reach into the backup table, behind the usable range; `NoExtendedType`, no
  partition declared with type 15, which is how the extended one is told.

**The card** (`CardImage_proofs`), for every set of partition tables whose
configurations fit (`Fits(M)` above), of any length.

* `RefusedExactly`: `RefusedIffUnfit`; `PartitionsInOrder`: `PartitionsFollow`;
  `ReportedSizeEnough`: `ReportedSizeSuffices`, of tables with `OwnNames`. The first
  two have this condition in the property. Of the third TLC checks the property
  for tables without it as well: replacing sections only makes the image smaller.
* `ReadBackStep` gives the equation of `ReadBack`; `ReadBackSound` says that what is
  read back are sections of the table, each title once, of no more kilobytes
  altogether (`KilobytesReplaced`); `ReadBeside` that under `OwnNames` the boot files
  stay in front and `KeptSections` behind them, which is where `CardInv` starts.
* On top of `HdInv(M)`, `CardInv` (`OwnInv` is that it holds under `OwnNames`) says what the loop of `hdimage_setup` has made of
  the table so far: each section placed is where the table wants it, in whole
  sectors (`SectionPlaced`); `now` is the end of the last of them, and after the backup
  table at most a table and 4 KiB further; the hybrid entries are the boot
  resources among the sections placed (`BootCount`); and a refusal is for a reason
  the table is `Unfit` for.
* The list has three kinds of entries, so a turn of the loop has three lemmas:
  `BootTurn`, `SectionTurn` and the areas of the tables (`AreaTurn`, `BackupTurn`). The
  first and the last are never refused: the places of boot0, boot package and
  GPT are apart (`PlacesApart`, with `BootFilesAssumption`). A section is refused
  exactly if it has no data or too large a file.
* `Written` and `Kilobytes` add up the table as recursive functions; `WrittenStep` and
  `KilobytesStep` give their equations. `EndsByKilobytes` bounds where the
  partitions end by the kilobytes counted, by least counterexample (`LeastOf`).
* The assumptions: `FexesAssumption`, that the ini parser has read numbers, that
  every file named is there, and that no name is `[GPT backup]`, two words; `BootFilesAssumption`; `WidthAssumption`, that the width
  of the integers is a multiple of 512, without which rounding up an offset of zero
  would not give zero. TLC evaluates these; `Fits(M)` it cannot evaluate on a card,
  whose partitions begin behind 16 MiB: TLC's own integers are too narrow for the
  `ULL` this asks for. With 64 bits and 256 terabytes for `M` it is satisfied by
  every table of up to 5000 sections with sizes and files up to `M`.

**The order of images** (`Genimage_proofs`, `GenimageRun_proofs`), for every graph.

* `GenimageTypes`, `ContainedFirst`, `MadeOnce`, `RecursionReported`. The invariant
  `GenInv` ties the marks to the stack: an image marked as seen and not as done is
  on the stack, once; each call on it waits at the partition whose image the next
  one is for; partitions before that one are done; the list of images is closed
  under containment. A recursion is reported for an image on the stack, and the
  part of the stack above it is a cycle.
* `ImplementsBuildOrder`: the steps of `Genimage` are steps of `BuildOrder`.
* `RunImplementsGenimage`: with options, mountpoints and commands a run does what
  `Genimage` does, so that `RunWalksSafely` and `RunBuildsInOrder` need no proofs of
  their own.
* `PathsAreSettled`: no path is asked for before the last pass over the options, and
  after it every option has the value of its strongest source.
* `TreesDivided`: `TreesAsMounted`. `MountpointsAre` says what list `collect_mountpoints`
  makes, and `DeclaredListed` that the list of images is complete by then. The
  invariant `Divided` says of the mountpoints moved so far that each found its
  directory in what those before it had left, and took exactly what was below it;
  the copy is what is left by all. So a mountpoint inside another one must come
  before it, or else the run ends with its `mv`; and of two directories with something
  below both, one is below the other (`OneBelowTheOther`), which is why no other
  mountpoint takes anything an image should have. `ScenariosAssumption` says that
  only declared images have mountpoints, and that a tree holds the directories of
  what is in it.

**The driver** (`OpenixCard_proofs`), for any number of runs, kills, faults and
changes of the input: `DriverTypes`, `ZeroMeansDone`, `ConversionFresh`. `DriverInv`
says at which stage which files are of the image just read if no call of this run
failed, whatever was there before: `UnpackInv` for the payloads, `ConfigInv` for the
configuration given to genimage. `AbsentAssumption` says that a file that is
missing can be told from every file there is.

**The unpackers** (`ImgDecode_proofs`), for any number of items, buffer sizes and
width of the fields: `UnpackIsComplete` (of the items before `i` those are on the
disk that no later one overwrites), `StopsAtPrefix` (what the decoder wrote of the
current item is a chain of pieces up to where it reads), and `DecodersAgree`, which
follows from both invariants. Every call of either program may fail: `StopsAtPrefix`
holds of the files that are not `lost`, not `Cut` and not `kept`, and `DecodersAgree`
if no call of `unpack_image` failed, of the files that are not `lost`.

**Files, flash and sparse images** (`ImagePipeline_proofs`), for all files and holes, any
partitions, sizes and buffer, with and without FIEMAP and hole punching, wherever
system calls fail.

* Lemmas on the operators of `ImageFile`: what `ftruncate`, `pwrite`, punching and
  `write_bytes` leave at each unit, and that they leave a file;
  `ExtentsInOrder` and `ExtentsCover`: the extents `map_file_extents` returns follow
  each other inside the file, and a unit is in one exactly if its block is
  allocated.
* `InsertStepGood`: a step of `insert_image` keeps `CallGood`, which says of a call in
  progress that its arguments are what it was called with, moved on by what it has
  read; that the extents before the current one are done with; and that the part
  of the range it has passed holds what it should. A step writes only in what is
  left of the range, and what it writes there is what the call wanted.
* `InsertsOnlyRange`: `InsertsRange`, that the calls made by the handlers implement
  `FileRange`. It needs `PositionsAssumption`: `MaxPos`, the last position looked at,
  is behind everything the configurations may write.
* `FlashComplete`: `FlashImageComplete`. While the image is written, `FlashInv` says
  that the partitions before `at` hold their images and all gaps up to where the
  output has come to are erased; `PlacedInv`, from set-up, that partitions are in
  order and on the flash, so that a later write does not reach an earlier
  partition.
* `TypeCorrect`: `TypeOK`, and `KeepsInput`: `InputKept`. That the extents keep their
  type through alignment and merging needs their order (`SparseInv`): without it
  an extent could end before it begins.

* `SparseReadsBack`: `SparseDecodes`. Once the sparse image is written, its chunks put
  together are the input file, with zeros where it has holes and up to the next
  block; only a hole at its end has no chunk. Of a block device nothing is left.
  Five invariants lead there (`DecodeInv`). `FreshInv`: nothing is written before the
  extents are merged. `MergedInv`: the extents handled so far are whole blocks and
  apart, no later one is overtaken when an end is rounded up, and what is not a
  hole is in one of them. `WrittenInv`: the chunks written decode to exactly
  what the checksum has been computed of, which is the input so far, and the header
  counts them; while a chunk is open its header in the file is behind, so this is
  said of `AsRead`, the file with the pending header flushed. `ExtentInv` and
  `BlockInv` say where the handler is between two extents and in one.
* What this rests on: `Flattened`, the partial results of `FlattenSeq`, exists for every
  sequence and grows by one piece at a time - shown by least counterexample, as
  the induction theorems of the library cannot be instantiated; `NewChunk` and
  `GoneOn`, that a block begins a chunk or prolongs the last one, either way adding its
  units to what the chunks decode to; `BlockFits`, that a raw chunk's size wraps only
  if two extents were joined or the last block is padded; `HoleIsZero`, that a gap
  between extents reads as zeros. `HeaderAssumption` says that the
  size field holds a chunk header.

The invariant `Inv` is the conjunction of `PhaseInv` (which image genimage is at),
`LayoutInv`, `PlacedInv`, `CallInv` (who has called `insert_image`, for what),
`FlashInv` and `SparseInv`. `ConfigsAssumption` says what a configuration is.

Only model-checked:

* termination (liveness is out of the prover's reach);
* `OutputsAsDeclared`, which runs through the commands of every handler.

## Not modelled

* the text level: comments and sections of the table, the ini parser, the
  configuration grammar, suffixes of sizes and the syntax of holes, printing;
* the contents of file systems: what `mke2fs`, `mksquashfs`, `rauc` and the other
  programs do, beyond which files they read and write;
* the RC6 and Twofish ciphers: the flag that would use RC6 is set nowhere, and
  Twofish is never called. An image that would need them is one whose header
  does not read as one;
* CHS addresses, checksums, flags and names in partition tables; UUIDs;
* `crc32.c` and `list.h`, a table and a list from the Linux kernel; the log;
* `genimage.c`, the main program `GenimageWrapper.c` replaces; the `f2fs` and `fip`
  handlers, which its list of handlers does not have;
* a shell that cannot be executed, after which `systemp` returns twice, in two
  processes; two programs in one directory at the same time;
* endings on a malformed configuration: `exit(1)` for a size with an unknown suffix
  (`strtoul_suffix`, `util.c:338`), and the crash of the `vfat`, `fit` and `rauc` handlers
  on a partition without an image (`image_get(NULL)`, `image-vfat.c:57`,
  `image-fit.c:71`, `image-rauc.c:78`), which the model passes over;
* IMAGEWTY images whose table names bytes behind the end of the file, for which
  `unpack_image` has no check (`OpenixIMG.c:251`); `OpenixIMGAssumption` rules them out;
* in `OpenixCard`, where `OpenixIMG` has the detail, the files skipped because their
  path is too long; and what generation that fails by itself leaves of an old
  converted image, which here stays as it was;
* vendored libraries and packaging.

## Plan

Done: `HdLayout` with `DiskAreas`, `HdGenerate`, `Genimage` with `BuildOrder`,
`OpenixCard`, `FexCfg` with `CardImage`, the first proofs of `HdLayout`; then `ImageFile`,
`InsertImage` with `FileRange`, `FlashImage`, `AndroidSparse` and `ImagePipeline`;
`OpenixIMG` with `ImgDecode`; `Options`, `Mountpoints` and `Handlers` with
`GenimageRun`; then the proofs of `HdLayout`, `HdGenerate`, `Genimage`,
`GenimageRun`, `CardImage`, `OpenixCard`, of both unpackers and of `ImagePipeline`
listed above.

To come, a proof: `Handlers`: `OutputsAsDeclared`, handler by handler, from what may
stand in the places its commands need.
