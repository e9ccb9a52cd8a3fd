---------------------------- MODULE MCHdGenerate ----------------------------
(***************************************************************************)
(* hdimage sections for HdGenerate: fewer shapes than MCHdLayout, chosen   *)
(* for what is written rather than for what is refused.  The 32-bit fields *)
(* count 128 sectors, which the images of WideConfigs exceed, and the      *)
(* array of GPT entries has three slots, of which some tables need four.   *)
(***************************************************************************)
EXTENDS HdGenerate, MCHdLayout

\* root shrinks below the size it was set up with; squash has a size only now.
MCBuiltSize == [boot |-> 20480, root |-> 1536, odd |-> 700, empty |-> 0, squash |-> 1536]

Squash  == P(0, 2048, 0, TRUE, FALSE, 0, "squash")     \* an image without a size
Small   == P(0, 1024, 0, TRUE, FALSE, 7, "squash")     \* and too small for it
Primary == P(0, 0, 0, TRUE, FALSE, 7, "root")

Pieces == {Boot, Raw, Root, Blank, Typed, Data, Squash, Rest}

\* Images around the last sector that the MBR and the boot records can count.
Far(offset) == P(offset, 2048, 0, TRUE, FALSE, 7, "root")

WideConfigs ==
  {Options(t, e, s, FALSE, FALSE, ps) :
     t \in {"mbr", "gpt"}, e \in {0, 1, 2}, s \in {0, 65024, 65536},
     ps \in {<<a, b, c>> : a \in {Root, Blank}, b \in {Far(62464), Far(63488), Far(65536)},
                           c \in {Root, Rest}}}

GenerateConfigs ==
  {Options(t, e, s, f, b, ps) :
     t \in {"none", "mbr", "gpt"}, e \in {0, 2}, s \in {0, 61440}, f \in {FALSE},
     b \in {FALSE, TRUE}, ps \in SeqsUpTo(Pieces, 2)}
  \cup
  {Options("hybrid", 0, s, f, b, ps) :
     s \in {0, 61440}, f \in {TRUE, FALSE}, b \in {FALSE, TRUE},
     ps \in [1 .. 3 -> {Typed, Primary, Small, Blank}]}
  \cup
  {[Options("hybrid", 0, 0, FALSE, FALSE, ps) EXCEPT !.gptLoc = 24576] :
     ps \in [1 .. 4 -> {Typed, Blank, Data}]}
  \cup
  \* Five and six table entries: an MBR makes the fourth extended by itself.
  {Options("mbr", e, s, FALSE, FALSE, ps) :
     e \in {0, 1, 3}, s \in {0, 61440},
     ps \in [1 .. 5 -> {Root, Blank}] \cup {<<Root, Blank, Typed, Root, Data, Blank>>}}
  \cup
  {[Options(t, 0, 0, FALSE, FALSE, ps) EXCEPT !.block = TRUE, !.device = 61440] :
     t \in {"none", "mbr", "gpt"}, ps \in SeqsUpTo(Pieces, 2)}
  \cup
  WideConfigs

\* Two logical partitions aligned to 4K, the second at 16384 with its boot
\* record at 12288, and a raw area declared behind them.
BootRecordConfigs ==
  {[Options("mbr", 1, s, FALSE, FALSE, ps) EXCEPT !.align = 4096] :
     s \in {0, 61440},
     ps \in {<<a, b, P(o, 0, 0, FALSE, FALSE, 0, "odd")>> :
               a, b \in {Root, Blank}, o \in {8192, 12288, 13312, 16384, 20480}}}

\* What the proofs about the tables ask of the configurations holds of these.
ASSUME MCExpressible == OnGrid /\ SolidInTable /\ NoExtendedType
=============================================================================
