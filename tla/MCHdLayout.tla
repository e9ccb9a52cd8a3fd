----------------------------- MODULE MCHdLayout -----------------------------
(***************************************************************************)
(* Small hdimage sections for HdLayout, with the real sizes of sectors and *)
(* partition tables.  Offsets stay below 128K, so that nothing but the     *)
(* differences the code itself takes below zero can wrap at MCULL, a power *)
(* of four like 2^64 (the two have the same remainders by 3).              *)
(***************************************************************************)
EXTENDS HdLayout

MCULL == 2 ^ 26

\* boot: a bootloader whose header area around the partition table is a hole;
\* odd: not a whole number of sectors; empty: a file of no bytes;
\* squash: a file system whose size is not known before it is made.
MCImages == {"boot", "root", "odd", "empty", "squash"}
MCImageSize == [boot |-> 20480, root |-> 2048, odd |-> 700, empty |-> 0, squash |-> 0]
MCImageHoles == [boot |-> {[start |-> 440, end |-> 18432]}, root |-> {},
                 odd |-> {[start |-> 0, end |-> 100]}, empty |-> {}, squash |-> {}]

P(offset, sz, align, inTable, autoresize, ptype, image) ==
  [name |-> "part", offset |-> offset, size |-> sz, align |-> align, inTable |-> inTable,
   autoresize |-> autoresize, ptype |-> ptype, typeUuid |-> "none", uuid |-> "none",
   image |-> image, extended |-> FALSE]

Boot    == P(0, 0, 0, FALSE, FALSE, 0, "boot")          \* raw, over the partition table
Raw     == P(22528, 0, 0, FALSE, FALSE, 0, "odd")       \* raw, behind it
Root    == P(0, 0, 0, TRUE, FALSE, 0, "root")           \* placed by the program
Odd     == P(0, 0, 0, TRUE, FALSE, 0, "odd")            \* rounded up to a sector
Blank   == P(0, 1024, 2048, TRUE, FALSE, 0, NoImage)    \* coarser alignment, no data
Typed   == P(0, 512, 0, TRUE, FALSE, 12, "empty")       \* goes into a hybrid MBR
Fixed   == P(22528, 1536, 0, TRUE, FALSE, 0, "root")    \* smaller than its image
Data    == P(24576, 4096, 0, TRUE, FALSE, 0, "root")    \* at an offset of its own
Rest    == P(0, 512, 0, TRUE, TRUE, 0, "root")          \* autoresize

Declared == {Boot, Raw, Root, Odd, Blank, Typed, Fixed, Data, Rest}

Options(table, ext, sz, fill, noBackup, ps) ==
  [table |-> table, ptOpt |-> "unset", gptOpt |-> "unset", align |-> 0, ext |-> ext,
   sig |-> "none", uuid |-> "none", gptLoc |-> 0, noBackup |-> noBackup, fill |-> fill,
   block |-> FALSE, device |-> 0, size |-> sz, parts |-> ps]

SeqsUpTo(S, n) == UNION {[1 .. k -> S] : k \in 0 .. n}

\* Every table type, with and without logical partitions, sizes from too small to ample.
LayoutConfigs ==
  {Options(t, e, s, f, b, ps) :
     t \in {"none", "mbr", "gpt", "hybrid"}, e \in {0, 2}, s \in {0, 8192, 28672, 65536},
     f \in {FALSE}, b \in {FALSE, TRUE}, ps \in SeqsUpTo(Declared, 2)}
  \cup
  {Options(t, e, s, f, FALSE, ps) :
     t \in {"mbr", "gpt"}, e \in {0, 2}, s \in {0, 65536}, f \in {TRUE, FALSE},
     ps \in [1 .. 3 -> Declared]}

\* What only the options decide: deprecated switches, alignment, GPT location,
\* identifiers, block devices.
OptionConfigs ==
  LET base == Options("mbr", 0, 0, FALSE, FALSE, <<Boot, Root, Typed, Data>>)
      layouts == {<<Boot, Root>>, <<Root, Typed>>, <<Raw, Data>>, <<Typed, Rest>>}
  IN  {[base EXCEPT !.table = t, !.ptOpt = p, !.gptOpt = g, !.align = a, !.parts = ps] :
         t \in {"dos", "hybrid", "ext3"}, p \in {"unset", "yes", "no"},
         g \in {"unset", "yes", "no"}, a \in {0, 700, 4096}, ps \in layouts}
      \cup
      {[base EXCEPT !.table = t, !.ext = e, !.sig = s, !.uuid = u, !.gptLoc = l, !.parts = ps] :
         t \in {"mbr", "gpt"}, e \in {1, 5}, s \in {"random", "number"},
         u \in {"none", "valid", "invalid"}, l \in {0, 24576}, ps \in layouts}
      \cup
      {[base EXCEPT !.block = TRUE, !.device = d, !.size = s, !.parts = ps] :
         d \in {8192, 65536}, s \in {0, 65536}, ps \in layouts}

MCConfigs == LayoutConfigs \cup OptionConfigs

\* What the proofs about HdLayout ask of the configurations holds of these.
ASSUME MCFits == Fits(65536) /\ NamesApart
=============================================================================
