-------------------------- MODULE MCImagePipeline --------------------------
(***************************************************************************)
(* Small files, flash layouts and sparse images for ImagePipeline.  A unit *)
(* is half a file system block and half a copy buffer.                     *)
(***************************************************************************)
EXTENDS ImagePipeline

MCValues == {0, 1, 2, 255}

\* A file of n units, given the contents of its blocks, << >> for a hole.
Contents(blocks, n) ==
  [u \in 0 .. n - 1 |->
     IF blocks[(u \div 2) + 1] = << >> THEN 0 ELSE blocks[(u \div 2) + 1][(u % 2) + 1]]

File(blocks, n, broken) ==
  [size |-> n, at |-> Contents(blocks, n), broken |-> broken, device |-> FALSE,
   alloc |-> {b \in 0 .. (n - 1) \div 2 : blocks[b + 1] # << >>}]

Hole == << >>
Same == <<1, 1>>
Mixed == <<1, 2>>
Zeroed == <<0, 0>>

\* What is at the place of the output: nothing, an old file, a device.
Old == File(<<Mixed, Mixed, Mixed, Mixed, Mixed, Mixed>>, 12, {})
Device == [Old EXCEPT !.device = TRUE]
Outputs == {Empty, Old, Device}

Config(kind, source, target, ps) ==
  [kind |-> kind, copy |-> TRUE, names |-> "other file", source |-> source, declared |-> 0,
   out |-> target, parts |-> ps, typed |-> TRUE, imageSize |-> 0, blockSize |-> 4]

P(size, offset, image) == [size |-> size, offset |-> offset, image |-> image]
Pieces == {P(s, o, i) : s \in {0, 2, 3, 4}, o \in {0, 2, 4, 6}, i \in {"child", NoChild}}

\* Three holes in all the places; an end within a block; an extent broken in two.
Sources ==
  {File(<<Mixed, Hole>>, 4, {}), File(<<Hole, Mixed>>, 3, {}), File(<<Same, Mixed>>, 4, {1}),
   File(<<Hole>>, 2, {}), File(<<Mixed>>, 1, {})}

\* A block device used as an input.
Disk == [File(<<Same, Mixed>>, 4, {}) EXCEPT !.device = TRUE]

FlashConfigs ==
  {Config("flash", s, Old, ps) : s \in Sources, ps \in BoundedSeq(Pieces, 2)}
  \cup
  {[Config("flash", s, o, ps) EXCEPT !.typed = t, !.imageSize = n, !.declared = d] :
     s \in Sources \cup {Disk}, o \in Outputs, t \in BOOLEAN, n \in {0, 12}, d \in {0, 2},
     ps \in {<<P(4, 0, "child")>>, <<P(4, 2, "child"), P(0, 0, NoChild)>>,
             <<P(2, 0, "child"), P(2, 8, NoChild), P(0, 0, "child")>>,
             <<P(0, 8, "child"), P(2, 0, NoChild)>>, <<P(8, 4, "child")>>,
             <<P(10, 2, NoChild), P(0, 0, NoChild)>>}}

\* The last two overlap: a hole of the second covers the first.
HdConfigs ==
  {[Config("hd", s, o, ps) EXCEPT !.imageSize = n] :
     s \in Sources \cup {Disk}, o \in Outputs, n \in {8, 10},
     ps \in {<<P(4, 1, "child"), P(2, 6, NoChild)>>, <<P(4, 4, "child"), P(2, 0, "child")>>,
             <<P(4, 4, "child"), P(4, 4, "child")>>, <<P(4, 2, "child"), P(4, 4, "child")>>}}

\* Up to four blocks, in one or more pieces, in blocks of one or two of them;
\* sizes of 0 and 3, which is no multiple of 512 bytes.
SparseFiles ==
  {File(bs, n, b) : bs \in [1 .. 4 -> {Hole, Same, Mixed, Zeroed}], n \in {7, 8},
                    b \in {{}, {2}, {1, 2, 3}}}

SparseConfigs ==
  {[Config("none", s, Empty, << >>) EXCEPT !.blockSize = b, !.copy = FALSE] :
     s \in SparseFiles, b \in {2, 4}}
  \cup
  {[Config("none", s, Empty, << >>) EXCEPT !.blockSize = b, !.copy = c, !.names = m] :
     s \in {File(<<Mixed, Mixed, Mixed>>, 5, {}), File(<<Mixed, Mixed, Mixed>>, 6, {}), Disk},
     b \in {0, 2, 3, 4}, c \in BOOLEAN, m \in Names}
  \cup {Config("none", Empty, Empty, << >>)}

MCConfigs == FlashConfigs \cup HdConfigs \cup SparseConfigs
=============================================================================
