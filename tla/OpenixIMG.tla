----------------------------- MODULE OpenixIMG -----------------------------
(***************************************************************************)
(* unpack_image (OpenixIMG.c): an IMAGEWTY image is read into memory, its  *)
(* header checked, every part of it run through rc6_decrypt_inplace, and   *)
(* its files written below the output directory, with their list.  A byte  *)
(* of an image is told by its position; positions and lengths are counted  *)
(* in a unit of the model, and the fields of a file header hold 32 bits of *)
(* them and, in the version 0x0300, 32 more that only the image knows.     *)
(***************************************************************************)
EXTENDS Integers, Sequences, FiniteSets, SequencesExt

CONSTANTS
  Names,       \* filename fields
  Subtypes,    \* subtype fields
  DirLength,   \* the length of the directory path a name is written to
  MaxDir,      \* the longest path recursive_mkdir has room for
  Word,        \* 2^32
  Inputs       \* the images

Versions == {"v1", "v3", "other"}

\* A file in an image: where it starts and how long it is, both of any size,
\* and the length it is stored with.
Item == [name: Names, subtype: Subtypes, offset: Nat, length: Nat, stored: Nat]

ASSUME OpenixIMGAssumption ==
  /\ DirLength \in [Names -> Nat] /\ MaxDir \in Nat /\ Word \in Nat \ {0}
  /\ \A m \in Inputs :
       /\ m.version \in Versions /\ m.encrypted \in BOOLEAN /\ m.size \in Nat
       /\ m.items \in Seq(Item)
       /\ \A i \in DOMAIN m.items : m.items[i].offset + m.items[i].length <= m.size

VARIABLES
  image,       \* the file at infn (never changes)
  upc,         \* where unpack_image is
  uret,        \* what it returned; Crash if it did not
  flag,        \* flag_encryption_enabled: zero at the start of the program
  header,      \* whether the header in memory reads as a header: "plain" or "cipher"
  curr,        \* the position decryption has come to
  i,           \* the file its loops are at
  files,       \* the files below the output directory, as the bytes they hold
  listing,     \* the names in image.cfg
  cfgOpen,     \* image.cfg could be opened
  failed       \* some system call failed

unpack == <<upc, uret, flag, header, curr, i, files, listing, cfgOpen, failed>>

Crash == -1
Absent == [from |-> 0, to |-> -1]     \* no file
Bytes(from, n) == [from |-> from, to |-> from + n]

\* The fields are 32 bits wide.
Field(n) == n % Word
NumFiles == Len(image.items)
File == image.items[i]

UInit ==
  /\ image \in Inputs
  /\ upc = "open" /\ uret = 0 /\ flag = FALSE
  /\ header = (IF image.encrypted THEN "cipher" ELSE "plain")
  /\ curr = 0 /\ i = 1
  /\ files \in {[n \in Names |-> Absent], [n \in Names |-> Bytes(0, 1)]}
  /\ listing = << >> /\ cfgOpen = FALSE /\ failed = FALSE

Return(r) == upc' = "over" /\ uret' = r

-----------------------------------------------------------------------------
\* The errors of fopen, ftell and malloc.
OpenFails ==
  /\ upc = "open"
  /\ \/ Return(2) /\ failed' = TRUE
     \/ image.size = 0 /\ Return(3) /\ failed' = failed
     \/ Return(4) /\ failed' = TRUE
  /\ UNCHANGED <<image, flag, header, curr, i, files, listing, cfgOpen>>

\* The whole file is read; a plain magic switches decryption off.  The result of
\* fread is not looked at: behind a short read there is in memory what there was,
\* and the program goes on with that.
ReadInput ==
  /\ upc = "open" /\ image.size > 0
  /\ \/ header' = header /\ failed' = failed
     \/ header' \in {"plain", "cipher"} /\ failed' = TRUE
  /\ flag' = (IF header' = "plain" THEN FALSE ELSE flag)
  /\ upc' = "header"
  /\ UNCHANGED <<image, uret, curr, i, files, listing, cfgOpen>>

\* rc6_decrypt_inplace: the place behind n bytes, or, when it decrypts, behind
\* the last whole block of 16.
Decrypted(state) == IF flag THEN (IF state = "plain" THEN "cipher" ELSE "plain") ELSE state
Behind(p, n) == IF flag THEN p + 16 * (n \div 16) ELSE p + n

\* Without the flag an encrypted header stays what it is, and its version is
\* not one of the two.
ReadHeader ==
  /\ upc = "header"
  /\ header' = Decrypted(header)
  /\ IF header' = "plain" /\ image.version \in {"v1", "v3"}
     THEN /\ curr' = Behind(Behind(curr, 1024), NumFiles * 1024)
          /\ upc' = "contents" /\ uret' = uret
     ELSE Return(5) /\ curr' = Behind(curr, 1024)
  /\ UNCHANGED <<image, flag, i, files, listing, cfgOpen, failed>>

\* The contents are decrypted one behind the other, by their stored lengths.
DecryptContents ==
  /\ upc = "contents"
  /\ IF i <= NumFiles
     THEN curr' = Behind(curr, Field(File.stored)) /\ i' = i + 1 /\ upc' = upc
     ELSE curr' = curr /\ i' = 1 /\ upc' = "list"
  /\ UNCHANGED <<image, uret, flag, header, files, listing, cfgOpen, failed>>

OpenList ==
  /\ upc = "list"
  /\ \/ cfgOpen' = TRUE /\ failed' = failed
     \/ cfgOpen' = FALSE /\ failed' = TRUE
  /\ upc' = "files"
  /\ UNCHANGED <<image, uret, flag, header, curr, i, files, listing>>

-----------------------------------------------------------------------------
\* dir_fopen makes the directories a name needs, out of a copy of the path that
\* has room for 255 characters: of a longer one another directory is made.
CanOpen(name) == DirLength[name] <= MaxDir

\* The bytes of a file, at the low 32 bits of its place and length.
\* Mistaken variant: the stored length is written, padding and all.
ContentStored(f) == Bytes(Field(f.offset), Field(f.stored))

Content(f) == Bytes(Field(f.offset), Field(f.length))

\* A file that cannot be opened is left out; its line is written all the same,
\* into a null pointer if image.cfg is not open.
WriteFile ==
  /\ upc = "files" /\ i <= NumFiles
  /\ \/ CanOpen(File.name) /\ files' = [files EXCEPT ![File.name] = Content(File)] /\ failed' = failed
     \/ ~CanOpen(File.name) /\ UNCHANGED <<files, failed>>
     \/ files' = files /\ failed' = TRUE
  /\ IF cfgOpen
     THEN listing' = Append(listing, File.name) /\ i' = i + 1 /\ UNCHANGED <<upc, uret>>
     ELSE Return(Crash) /\ UNCHANGED <<listing, i>>
  /\ UNCHANGED <<image, flag, header, curr, cfgOpen>>

WriteConfig ==
  /\ upc = "files" /\ i > NumFiles
  /\ Return(0)
  /\ UNCHANGED <<image, flag, header, curr, i, files, listing, cfgOpen, failed>>

Unpack ==
  \/ OpenFails \/ ReadInput \/ ReadHeader \/ DecryptContents \/ OpenList
  \/ WriteFile \/ WriteConfig

-----------------------------------------------------------------------------
\* An unpack that returns 0 after no system call failed wrote every file of the
\* image and listed it, whatever was in the directory.  The exceptions are the
\* ones the code has: of two files of one name the last is kept, a path too
\* long for recursive_mkdir is left out, and a file that begins behind 4 GiB or is
\* longer than that, which the 32 bit fields cannot say.
LastOfName(n) == SelectLastInSeq(image.items, LAMBDA f : f.name = n)

FitsWord(f) == f.offset < Word /\ f.length < Word

UnpackComplete ==
  upc = "over" /\ uret = 0 /\ ~failed =>
    /\ listing = [k \in DOMAIN image.items |-> image.items[k].name]
    /\ \A k \in DOMAIN image.items :
         LET f == image.items[k]
         IN  k = LastOfName(f.name) /\ CanOpen(f.name) /\ FitsWord(f)
               => files[f.name] = Bytes(f.offset, f.length)
=============================================================================
