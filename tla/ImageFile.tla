----------------------------- MODULE ImageFile -----------------------------
(***************************************************************************)
(* Files as the functions of genimage-src/util.c see and change them.  A   *)
(* file is a row of units (a few bytes each) that its file system stores   *)
(* in blocks; a block nothing was ever written to is a hole, and reads as  *)
(* zeros.                                                                  *)
(***************************************************************************)
EXTENDS Integers, Sequences, FiniteSets, SequencesExt

CONSTANTS
  Values,      \* what a unit can hold; 0 is one of them
  FsBlock,     \* units per block of the file system
  HaveFiemap,  \* HAVE_FIEMAP: the holes of a file can be asked for
  CanPunch     \* HAVE_FALLOCATE, and the file system can make holes

ASSUME ImageFileAssumption ==
  /\ Values \subseteq Nat /\ 0 \in Values
  /\ FsBlock \in Nat \ {0}
  /\ HaveFiemap \in BOOLEAN /\ CanPunch \in BOOLEAN

-----------------------------------------------------------------------------
BlocksOf(units) == {u \div FsBlock : u \in units}

\* A file: its length, its units, the allocated blocks, those that are not
\* stored next to the one before them, and whether it is a block device.
IsFile(f) ==
  /\ f = [size |-> f.size, at |-> f.at, alloc |-> f.alloc, broken |-> f.broken,
          device |-> f.device]
  /\ f.size \in Nat
  /\ f.at \in [0 .. f.size - 1 -> Values]
  /\ f.alloc \subseteq BlocksOf(0 .. f.size - 1)
  /\ f.broken \subseteq Nat
  /\ f.device \in BOOLEAN
  /\ ~f.device => \A u \in 0 .. f.size - 1 : u \div FsBlock \notin f.alloc => f.at[u] = 0

Empty == [size |-> 0, at |-> << >>, alloc |-> {}, broken |-> {}, device |-> FALSE]

\* Reading past the end is reading nothing; here, zeros.
Unit(f, u) == IF u < f.size THEN f.at[u] ELSE 0
IsHole(f, u) == ~f.device /\ u \div FsBlock \notin f.alloc

\* st_size of stat and fstat: nothing is said of a block device.
StSize(f) == IF f.device THEN 0 ELSE f.size

-----------------------------------------------------------------------------
\* ftruncate.
Resized(f, n) ==
  [f EXCEPT !.size = n, !.at = [u \in 0 .. n - 1 |-> Unit(f, u)],
            !.alloc = @ \cap BlocksOf(0 .. n - 1)]

AtLeast(f, n) == IF n > f.size THEN Resized(f, n) ELSE f

\* pwrite of the units in data at offset: within the file, and growing it.
WrittenInside(f, offset, data) ==
  LET range == offset .. offset + Len(data) - 1
  IN  [f EXCEPT !.at = [u \in DOMAIN @ |-> IF u \in range THEN data[u - offset + 1] ELSE @[u]],
                !.alloc = @ \cup BlocksOf(range)]

Written(f, offset, data) == WrittenInside(AtLeast(f, offset + Len(data)), offset, data)

\* fallocate with FALLOC_FL_PUNCH_HOLE: whole blocks are given back.
Punched(f, offset, n) ==
  LET range == offset .. offset + n - 1
  IN  [f EXCEPT !.at = [u \in DOMAIN @ |-> IF u \in range THEN 0 ELSE @[u]],
                !.alloc = {b \in @ : ~(b * FsBlock .. (b + 1) * FsBlock - 1 \subseteq range)}]

Repeated(value, n) == [i \in 1 .. n |-> value]

\* write_bytes: n times the same unit.  Zeros in a regular file make holes
\* instead: behind the old end by ftruncate, before it by fallocate.
WriteBytes(f, n, offset, value) ==
  LET old == IF offset + n > f.size THEN f.size - offset ELSE n   \* units before the end
  IN  IF n = 0 THEN f
      ELSE IF value # 0 \/ f.device THEN Written(f, offset, Repeated(value, n))
      ELSE IF offset >= f.size THEN Resized(f, offset + n)
      ELSE IF CanPunch THEN Punched(AtLeast(f, offset + n), offset, old)
      ELSE Written(AtLeast(f, offset + n), offset, Repeated(0, old))

-----------------------------------------------------------------------------
\* whole_file_exent [sic].
WholeFile(n) == <<[start |-> 0, end |-> n]>>

\* The extents FIEMAP reports for the first n units: runs of allocated blocks
\* stored one after the other.
ExtentStarts(f, n) ==
  {b \in f.alloc : (b - 1 \notin f.alloc \/ b \in f.broken) /\ b * FsBlock < n}

ExtentFrom(f, b) ==
  [start |-> b * FsBlock,
   end   |-> FsBlock * CHOOSE e \in b + 1 .. b + 1 + Cardinality(f.alloc) :
               /\ e \notin f.alloc \/ e \in f.broken
               /\ \A c \in b + 1 .. e - 1 : c \in f.alloc \ f.broken]

\* The i-th of a set of numbers, counted from the least.
Nth(S, i) == CHOOSE b \in S : Cardinality({c \in S : c < b}) = i - 1

\* map_file_extents; the last extent may reach over the end and is cut there.
\* FIEMAP refuses a length of 0; a device has no FIEMAP and is one extent.
MapFails(f, n) == HaveFiemap /\ ~f.device /\ n = 0

MapFileExtents(f, n) ==
  IF ~HaveFiemap \/ f.device THEN WholeFile(n)
  ELSE LET starts == ExtentStarts(f, n)
           exts   == [i \in 1 .. Cardinality(starts) |-> ExtentFrom(f, Nth(starts, i))]
       IN  [i \in DOMAIN exts |->
              IF i = Len(exts) /\ exts[i].end > n THEN [exts[i] EXCEPT !.end = n] ELSE exts[i]]

-----------------------------------------------------------------------------
\* prepare_image for a regular file: truncated to nothing, then resized, so
\* nothing of an earlier run is left.
Prepared(f, n) == Resized(Empty, n)
=============================================================================
