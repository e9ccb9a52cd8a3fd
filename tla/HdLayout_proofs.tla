-------------------------- MODULE HdLayout_proofs --------------------------
(***************************************************************************)
(* Proofs about HdLayout, for every set of configurations and images and   *)
(* every width ULL of the integers: its types, the safety of its layouts   *)
(* and the refinement of DiskAreas, where the numbers of the               *)
(* configurations fit (HdLayout!Fits).  ListInv and SpaceInv carry the     *)
(* proofs: with them no sum wraps, but for the backup table of an image    *)
(* too small for it.                                                       *)
(***************************************************************************)
EXTENDS HdLayout, SequenceTheorems, WellFoundedInduction, TLAPS

-----------------------------------------------------------------------------
(***************************************************************************)
(* Lemmas about the unsigned arithmetic.                                   *)
(***************************************************************************)

\* Wrapped sums are again unsigned numbers.
LEMMA PlusType == \A x, y \in Nat : Plus(x, y) \in Nat
BY ULLAssumption DEF Plus

\* So are wrapped differences.
LEMMA MinusType == \A x, y \in Nat : Minus(x, y) \in Nat
BY ULLAssumption DEF Minus

\* A sum below the width of the integers is exact.
LEMMA PlusExact == \A x, y \in Nat : x + y < ULL => Plus(x, y) = x + y
BY ULLAssumption DEF Plus

\* A difference that does not go below zero is exact.
LEMMA MinusExact == \A x, y \in Nat : y <= x /\ x < ULL => Minus(x, y) = x - y
BY ULLAssumption DEF Minus

\* The larger of two numbers is one of them and bounds both.
LEMMA MaxOfBounds ==
  \A x, y \in Nat : MaxOf(x, y) \in {x, y} /\ MaxOf(x, y) >= x /\ MaxOf(x, y) >= y
BY DEF MaxOf

\* Rounding up to a positive alignment gives an unsigned number.
LEMMA RoundUpType == \A v, a \in Nat : a > 0 => RoundUp(v, a) \in Nat
<1> SUFFICES ASSUME NEW v \in Nat, NEW a \in Nat, a > 0 PROVE RoundUp(v, a) \in Nat
  OBVIOUS
<1>1. Minus(v, 1) \in Nat
  BY MinusType
<1>2. (Minus(v, 1) \div a + 1) * a \in Int
  BY <1>1
<1>. QED  BY <1>2, ULLAssumption DEF RoundUp

\* So does rounding down.
LEMMA RoundDownType == \A v, a \in Nat : a > 0 => RoundDown(v, a) \in Nat
BY DEF RoundDown

\* Where nothing wraps, rounding up goes up, by less than the alignment.
LEMMA RoundUpBounds ==
  \A v, a \in Nat : a > 0 /\ v + a < ULL =>
    RoundUp(v, a) >= v /\ (v > 0 => RoundUp(v, a) < v + a)
<1> SUFFICES ASSUME NEW v \in Nat, NEW a \in Nat, a > 0, v + a < ULL
             PROVE  RoundUp(v, a) >= v /\ (v > 0 => RoundUp(v, a) < v + a)
  OBVIOUS
<1>1. CASE v = 0
  <2>1. RoundUp(v, a) \in Nat
    BY RoundUpType
  <2>. QED  BY <2>1, <1>1
<1>2. CASE v > 0
  <2> DEFINE q == (v - 1) \div a
  <2>1. q \in Nat /\ q * a <= v - 1 /\ v - 1 < q * a + a
    BY <1>2
  <2>2. (q + 1) * a = q * a + a
    BY <2>1
  <2>3. Minus(v, 1) = v - 1
    BY <1>2, ULLAssumption DEF Minus
  <2>4. RoundUp(v, a) = (q * a + a) % ULL
    BY <2>2, <2>3 DEF RoundUp
  <2> HIDE DEF q
  <2>5. PICK k \in Int : k = q * a + a
    BY <2>1
  <2>6. q * a >= 0
    BY <2>1
  <2>7. k \in 0 .. ULL - 1
    BY <2>1, <2>5, <2>6, ULLAssumption
  <2>8. k % ULL = k
    BY <2>7, ULLAssumption
  <2>. QED  BY <2>1, <2>4, <2>5, <2>8
<1>. QED  BY <1>1, <1>2

\* A set of numbers has a least one.
LEMMA LeastOf ==
  ASSUME NEW S \in SUBSET Nat, S # {}
  PROVE  \E x \in S : \A y \in S : x <= y
<1>1. PICK x \in S : \A y \in S : ~ (<<y, x>> \in OpToRel(<, Nat))
  BY NatLessThanWellFounded, WFMin
<1>2. ASSUME NEW y \in S, y < x PROVE FALSE
  <2>1. <<y, x>> \in Nat \X Nat /\ <<y, x>>[1] < <<y, x>>[2]
    BY <1>2
  <2>2. <<y, x>> \in {ss \in Nat \X Nat : ss[1] < ss[2]}
    BY <2>1, Zenon
  <2>. QED  BY <1>1, <2>2 DEF OpToRel
<1>. QED  BY <1>2

-----------------------------------------------------------------------------
(***************************************************************************)
(* Type correctness.  The options that are accepted give every partition   *)
(* an alignment to divide by; everything else follows from the types of    *)
(* the unsigned operations.                                                *)
(***************************************************************************)
\* What TypeOK rests on.
TypeInv ==
  /\ TypeOK
  /\ cfg \in Configs
  /\ pc = "options" => idx = 1

\* The alignment of an image, default included, is never zero.
LEMMA ImageAlignPositive ==
  \A c \in Config : ImageAlign(c) \in Nat /\ ImageAlign(c) > 0
BY DEF Config, ImageAlign, Sector

\* The option loop leaves a partition a partition, now with an alignment.
LEMMA PreparedType ==
  \A c \in Config : \A p \in Partition :
    Prepared(p, c) \in Partition /\ Prepared(p, c).align > 0
<1> SUFFICES ASSUME NEW c \in Config, NEW p \in Partition
             PROVE  Prepared(p, c) \in Partition /\ Prepared(p, c).align > 0
  OBVIOUS
<1>1. PICK a \in Nat : a > 0 /\
        a = IF p.align # 0 THEN p.align
            ELSE IF p.inTable \/ TableType(c) = {} THEN ImageAlign(c) ELSE 1
  BY ImageAlignPositive DEF Partition
<1>2. PICK t \in BOOLEAN : t = IF TableType(c) = {} THEN FALSE ELSE p.inTable
  BY DEF Partition
<1>3. Prepared(p, c) = [p EXCEPT !.inTable = t, !.align = a]
  BY <1>1, <1>2, Zenon DEF Prepared
<1>. QED  BY <1>1, <1>3 DEF Partition

\* Areas of the partition table are never in it and their alignment is one byte.
LEMMA FakePartitionType ==
  \A name \in Names : \A o, s \in Nat :
    FakePartition(name, o, s) \in Partition /\ FakePartition(name, o, s).align = 1
BY DEF FakePartition, Partition, Validity

\* The areas of the partition table are partitions with an alignment.
LEMMA TableAreasType ==
  \A c \in Config : \A s \in Nat :
    /\ TableAreas(c, s) \in Seq(Partition)
    /\ \A i \in DOMAIN TableAreas(c, s) : TableAreas(c, s)[i].align = 1
<1> SUFFICES ASSUME NEW c \in Config, NEW s \in Nat
             PROVE  /\ TableAreas(c, s) \in Seq(Partition)
                    /\ \A i \in DOMAIN TableAreas(c, s) : TableAreas(c, s)[i].align = 1
  OBVIOUS
<1> DEFINE Small == {p \in Partition : p.align = 1}
<1>1. \A name \in Names : \A o, z \in Nat : FakePartition(name, o, z) \in Small
  BY FakePartitionType, Zenon
<1> HIDE DEF Small
<1>2. MbrArea \in Small
  <2>1. "[MBR]" \in Names /\ Sector - MbrTail \in Nat /\ MbrTail \in Nat
    BY DEF Names, Sector, MbrTail
  <2>. QED  BY <1>1, <2>1 DEF MbrArea
<1>3. GptAreas(c, s) \in Seq(Small)
  <2>1. GptLocation(c) \in Nat
    BY DEF Config, GptLocation, Sector
  <2>2. BackupSize \in Nat /\ (GptSectors - 1) * Sector \in Nat
    BY DEF BackupSize, GptSectors, Sector
  <2>3. PICK o \in Nat : o = IF s # 0 THEN Minus(s, BackupSize) ELSE 0
    BY <2>2, MinusType
  <2>4. FakePartition("[GPT header]", Sector, Sector) \in Small
    <3>1. "[GPT header]" \in Names /\ Sector \in Nat
      BY DEF Names, Sector
    <3>. QED  BY <1>1, <3>1
  <2>5. FakePartition("[GPT array]", GptLocation(c), (GptSectors - 1) * Sector) \in Small
    BY <1>1, <2>1, <2>2 DEF Names
  <2>6. FakePartition("[GPT backup]",
          IF s # 0 THEN Minus(s, BackupSize) ELSE 0, BackupSize) \in Small
    BY <1>1, <2>2, <2>3 DEF Names
  <2>7. \A p, q, r \in Small : <<p, q, r>> \in Seq(Small)
    OBVIOUS
  <2>. QED  BY <2>4, <2>5, <2>6, <2>7, Zenon DEF GptAreas
<1>4. TableAreas(c, s) \in Seq(Small)
  BY <1>2, <1>3 DEF TableAreas
<1>5. \A i \in DOMAIN TableAreas(c, s) : TableAreas(c, s)[i] \in Small
  BY <1>4, ElementOfSeq
<1>6. \A p \in Small : p \in Partition /\ p.align = 1
  BY DEF Small
<1>. QED  BY <1>4, <1>5, <1>6

\* What SetupOptions makes of the partition list.
LEMMA PreparedPartsType ==
  ASSUME NEW c \in Config, NEW s \in Nat,
         NEW ps, ps = [i \in 1 .. Len(c.parts) |-> Prepared(c.parts[i], c)] \o TableAreas(c, s)
  PROVE  ps \in Seq(Partition) /\ \A i \in DOMAIN ps : ps[i].align > 0
<1> DEFINE declared == [i \in 1 .. Len(c.parts) |-> Prepared(c.parts[i], c)]
<1>1. c.parts \in Seq(Partition)
  BY DEF Config
<1>2. \A i \in 1 .. Len(c.parts) : c.parts[i] \in Partition
  BY <1>1
<1>3. /\ Len(c.parts) \in Nat
      /\ \A i \in 1 .. Len(c.parts) : declared[i] \in Partition /\ declared[i].align > 0
  BY <1>1, <1>2, PreparedType
<1> HIDE DEF declared
<1>4. declared \in Seq(Partition) /\ Len(declared) = Len(c.parts)
  <2>1. declared \in [1 .. Len(c.parts) -> Partition]
    BY <1>3, Zenon DEF declared
  <2>2. \A n \in Nat : \A f \in [1 .. n -> Partition] : f \in Seq(Partition) /\ Len(f) = n
    OBVIOUS
  <2>. QED  BY <1>3, <2>1, <2>2, Zenon
<1>5. /\ TableAreas(c, s) \in Seq(Partition)
      /\ \A i \in 1 .. Len(TableAreas(c, s)) : TableAreas(c, s)[i].align > 0
  <2>1. \A i \in DOMAIN TableAreas(c, s) : TableAreas(c, s)[i].align = 1
    BY TableAreasType, Zenon
  <2>2. TableAreas(c, s) \in Seq(Partition)
    BY TableAreasType, Zenon
  <2>. QED  BY <2>1, <2>2
<1>6. ps = declared \o TableAreas(c, s)
  BY DEF declared
<1> DEFINE areas == TableAreas(c, s)
<1> HIDE DEF areas
<1>7. /\ declared \o areas \in Seq(Partition)
      /\ Len(declared \o areas) = Len(declared) + Len(areas)
      /\ \A i \in 1 .. Len(declared) + Len(areas) :
           (declared \o areas)[i] = IF i <= Len(declared) THEN declared[i]
                                    ELSE areas[i - Len(declared)]
  BY <1>4, <1>5, ConcatProperties DEF areas
<1>8. /\ areas \in Seq(Partition) /\ ps = declared \o areas
      /\ \A i \in 1 .. Len(areas) : areas[i].align > 0
  BY <1>5, <1>6 DEF areas
<1>9. \A i \in 1 .. Len(declared) + Len(areas) : (declared \o areas)[i].align > 0
  BY <1>3, <1>4, <1>7, <1>8
<1>10. ps \in Seq(Partition) /\ Len(ps) = Len(declared) + Len(areas)
  BY <1>7, <1>8, Zenon
<1>11. \A i \in 1 .. Len(ps) : ps[i].align > 0
  BY <1>8, <1>9, <1>10, Zenon
<1>12. DOMAIN ps = 1 .. Len(ps)
  BY <1>10
<1>. QED  BY <1>10, <1>11, <1>12, Zenon

-----------------------------------------------------------------------------
\* The fields PlacePartition computes are unsigned numbers.
LEMMA PlacedType ==
  ASSUME TypeInv, pc = "place", idx <= Len(parts)
  PROVE  /\ cur \in Partition /\ cur.align > 0
         /\ Reserved \in Nat /\ NowBefore \in Nat /\ Offset \in Nat /\ FinalSize \in Nat
         /\ IsExtended \in BOOLEAN
         /\ Placed \in Partition /\ Placed.align = cur.align
         /\ Placed.offset = Offset /\ Placed.size = FinalSize /\ Placed.image = cur.image
         /\ Placed.extended = IsExtended /\ Placed.inTable = cur.inTable
<1>1. cur \in Partition /\ cur.align > 0
  BY DEF TypeInv, TypeOK, cur
<1>2. /\ cur.offset \in Nat /\ cur.size \in Nat /\ cur.align \in Nat
      /\ cur.image \in Images \cup {NoImage} /\ cur.inTable \in BOOLEAN
  BY <1>1 DEF Partition
<1>3. now \in Nat /\ size \in Nat /\ hd.align \in Nat /\ hd.ext \in Nat
  BY DEF TypeInv, TypeOK
<1>4. Reserved \in Nat
  <2>1. Plus(now, hd.align) \in Nat
    BY <1>3, PlusType
  <2>2. RoundUp(Plus(now, hd.align), cur.align) \in Nat
    BY <1>1, <1>2, <2>1, RoundUpType, Zenon
  <2>. QED  BY <1>3, <2>2, Zenon DEF Reserved
<1>5. NowBefore \in Nat
  <2>1. Plus(Reserved, cur.size) \in Nat
    BY <1>2, <1>4, PlusType, Zenon
  <2>. QED  BY <1>4, <2>1, Zenon DEF NowBefore
<1>6. Offset \in Nat
  <2>1. RoundUp(NowBefore, 4096) \in Nat
    BY <1>5, RoundUpType
  <2>2. \A r \in Nat : Minus(r, cur.size) \in Nat
    BY <1>2, MinusType
  <2>3. RoundUp(NowBefore, cur.align) \in Nat
    BY <1>1, <1>2, <1>5, RoundUpType, Zenon
  <2>. QED  BY <1>2, <2>1, <2>2, <2>3 DEF Offset
<1>7. Room \in Nat
  <2>1. PICK b \in Nat : b = IF "gpt" \in hd.table THEN BackupSize ELSE 0
    BY DEF BackupSize, GptSectors, Sector
  <2>2. Minus(size, Offset) \in Nat
    BY <1>3, <1>6, MinusType, Zenon
  <2>3. Minus(Minus(size, Offset), b) \in Nat
    BY <2>1, <2>2, MinusType, Zenon
  <2>4. Room = RoundDown(Minus(Minus(size, Offset), b), cur.align)
    BY <2>1, Zenon DEF Room
  <2>. QED  BY <1>1, <1>2, <2>3, <2>4, RoundDownType, Zenon
<1>8. cur.image # NoImage => ImageSize[cur.image] \in Nat
  BY <1>2, ImagesAssumption, ULLAssumption
<1>9. FinalSize \in Nat
  <2>1. cur.image # NoImage => RoundUp(ImageSize[cur.image], cur.align) \in Nat
    BY <1>1, <1>2, <1>8, RoundUpType, Zenon
  <2>2. (IF cur.autoresize THEN Room ELSE cur.size) \in Nat
    BY <1>2, <1>7, Zenon
  <2>. QED  BY <1>8, <2>1, <2>2, Zenon DEF FinalSize
<1>10. IsExtended \in BOOLEAN
  BY Zenon DEF IsExtended
<1>11. /\ Placed \in Partition /\ Placed.align = cur.align
       /\ Placed.offset = Offset /\ Placed.size = FinalSize /\ Placed.image = cur.image
       /\ Placed.extended = IsExtended /\ Placed.inTable = cur.inTable
  <2>1. PICK e \in BOOLEAN : e = IsExtended
    BY <1>10
  <2>2. Placed = [cur EXCEPT !.offset = Offset, !.size = FinalSize, !.extended = e]
    BY <2>1, Zenon DEF Placed
  <2>3. /\ Placed \in Partition /\ Placed.align = cur.align
        /\ Placed.offset = Offset /\ Placed.size = FinalSize /\ Placed.image = cur.image
        /\ Placed.extended = e /\ Placed.inTable = cur.inTable
    BY <1>1, <1>6, <1>9, <2>2 DEF Partition
  <2>. QED  BY <2>1, <2>3, Zenon
<1>. QED  BY <1>1, <1>4, <1>5, <1>6, <1>9, <1>10, <1>11

\* The initial state, and every step, has the types.
LEMMA InitTypes == Init => TypeInv
<1> SUFFICES ASSUME Init PROVE TypeInv
  OBVIOUS
<1>1. cfg \in Configs /\ cfg \in Config
  BY ConfigsAssumption DEF Init
<1>2. parts \in Seq(Partition) /\ size \in Nat
  BY <1>1 DEF Init, Config
<1>3. hd \in [align: Nat, ext: 0 .. 4, extLba: Nat, table: SUBSET {"mbr", "gpt"},
              gptLoc: Nat, fileSize: Nat]
  BY DEF Init
<1>. QED  BY <1>1, <1>2, <1>3 DEF Init, TypeInv, TypeOK

\* SetupOptions keeps the types and establishes the alignments.
LEMMA SetupOptionsTypes == TypeInv /\ SetupOptions => TypeInv'
<1> SUFFICES ASSUME TypeInv, SetupOptions PROVE TypeInv'
  OBVIOUS
<1>1. cfg \in Config /\ cfg \in Configs /\ cfg' = cfg
  BY DEF TypeInv, TypeOK, SetupOptions
<1>2. PICK s \in Nat : s = IF cfg.block THEN cfg.device ELSE cfg.size
  BY <1>1 DEF Config
<1>3. size' = s /\ parts' = [i \in 1 .. Len(cfg.parts) |-> Prepared(cfg.parts[i], cfg)]
                            \o TableAreas(cfg, s)
  BY <1>2, Zenon DEF SetupOptions
<1>4. parts' \in Seq(Partition) /\ \A i \in DOMAIN parts' : parts'[i].align > 0
  BY <1>1, <1>3, PreparedPartsType
<1>5. ~OptionsRefused(cfg)
  BY Zenon DEF SetupOptions
<1>6. cfg.table \in DOMAIN TableTypes /\ cfg.ext \in 0 .. 4
  BY <1>1, <1>5 DEF OptionsRefused, Config
<1>7. TableType(cfg) \in SUBSET {"mbr", "gpt"}
  BY <1>6 DEF TableType, TableTypes
<1>8. ExtendedPartition(cfg) \in 0 .. 4
  BY <1>6 DEF ExtendedPartition
<1>9. ImageAlign(cfg) \in Nat /\ ImageAlign(cfg) > 0
  BY <1>1, ImageAlignPositive
<1>10. GptLocation(cfg) \in Nat /\ FirstFree(cfg) \in Nat
  <2>1. GptLocation(cfg) \in Nat
    BY <1>1 DEF Config, GptLocation, Sector
  <2>2. Sector \in Nat /\ (GptSectors - 1) * Sector \in Nat
    BY DEF GptSectors, Sector
  <2>3. Plus(GptLocation(cfg), (GptSectors - 1) * Sector) \in Nat
    BY <2>1, <2>2, PlusType, Zenon
  <2>. QED  BY <2>1, <2>2, <2>3 DEF FirstFree
<1>11. hd' \in [align: Nat, ext: 0 .. 4, extLba: Nat, table: SUBSET {"mbr", "gpt"},
                gptLoc: Nat, fileSize: Nat] /\ hd'.align > 0
  BY <1>7, <1>8, <1>9, <1>10 DEF SetupOptions
<1>12. /\ now' \in Nat /\ pc' = "place" /\ ret' = ret /\ idx' = idx
       /\ tableEntries' = tableEntries /\ hybridEntries' = hybridEntries
       /\ autoPart' = autoPart /\ idx = 1
  BY <1>10 DEF SetupOptions, TypeInv
<1>13. /\ ret \in {"none", "ok", "einval"} /\ tableEntries \in Nat
       /\ hybridEntries \in Nat /\ autoPart \in Nat
  BY DEF TypeInv, TypeOK
<1>14. size' \in Nat /\ idx' \in 1 .. Len(parts') + 1
  BY <1>2, <1>3, <1>4, <1>12
<1>15. TypeOK'
  BY <1>1, <1>4, <1>11, <1>12, <1>13, <1>14 DEF TypeOK
<1>. QED  BY <1>1, <1>12, <1>15 DEF TypeInv

\* PlacePartition writes a well-typed partition over the one it read.
LEMMA PlacePartitionTypes == TypeInv /\ PlacePartition => TypeInv'
<1> SUFFICES ASSUME TypeInv, PlacePartition PROVE TypeInv'
  OBVIOUS
<1>1. pc = "place" /\ idx <= Len(parts)
  BY DEF PlacePartition
<1>2. /\ cur \in Partition /\ cur.align > 0
      /\ Reserved \in Nat /\ NowBefore \in Nat /\ Offset \in Nat /\ FinalSize \in Nat
      /\ Placed \in Partition /\ Placed.align = cur.align
      /\ Placed.offset = Offset /\ Placed.size = FinalSize
  BY <1>1, PlacedType, Zenon
<1>3. /\ parts \in Seq(Partition) /\ idx \in 1 .. Len(parts)
      /\ \A i \in 1 .. Len(parts) : parts[i].align > 0
  BY <1>1 DEF TypeInv, TypeOK
<1>4. /\ parts' = [parts EXCEPT ![idx] = Placed] /\ pc' = pc /\ ret' = ret /\ cfg' = cfg
      /\ size' = size /\ now' = NowAfter /\ tableEntries' = Entries /\ idx' = idx + 1
      /\ autoPart' = IF cur.autoresize THEN idx ELSE autoPart
  BY DEF PlacePartition
<1>5. /\ parts' \in Seq(Partition) /\ Len(parts') = Len(parts)
      /\ \A i \in 1 .. Len(parts) : parts'[i].align > 0
  BY <1>2, <1>3, <1>4
<1>6. now' \in Nat
  <2>1. PartitionEnd(Placed) \in Nat
    BY <1>2, PlusType DEF PartitionEnd
  <2>. QED  BY <1>2, <1>4, <2>1, Zenon DEF NowAfter, MaxOf
<1>7. /\ hd \in [align: Nat, ext: 0 .. 4, extLba: Nat, table: SUBSET {"mbr", "gpt"},
                 gptLoc: Nat, fileSize: Nat]
      /\ hd.align > 0 /\ hd.align \in Nat /\ hd.extLba \in Nat /\ hd.fileSize \in Nat
  BY <1>1 DEF TypeInv, TypeOK
<1>8. ExtendedLba \in Nat
  <2>1. Minus(Offset, hd.align) \in Nat
    BY <1>2, <1>7, MinusType, Zenon
  <2>. QED  BY <1>7, <2>1, Zenon DEF ExtendedLba
<1>9. FileSize \in Nat
  <2>1. cur.image # NoImage => Plus(Offset, ImageSize[cur.image]) \in Nat
    <3>1. cur.image # NoImage => ImageSize[cur.image] \in Nat
      BY <1>2, ImagesAssumption, ULLAssumption DEF Partition
    <3>. QED  BY <1>2, <3>1, PlusType, Zenon
  <2>2. Plus(Minus(Offset, hd.align), Sector) \in Nat
    <3>1. Minus(Offset, hd.align) \in Nat
      BY <1>2, <1>7, MinusType, Zenon
    <3>2. Sector \in Nat
      BY DEF Sector
    <3>. QED  BY <3>1, <3>2, PlusType, Zenon
  <2>. QED  BY <1>7, <2>1, <2>2, Zenon DEF FileSize, MaxOf
<1>10. /\ hd' \in [align: Nat, ext: 0 .. 4, extLba: Nat, table: SUBSET {"mbr", "gpt"},
                  gptLoc: Nat, fileSize: Nat]
       /\ hd'.align > 0
  <2>1. hd' = [hd EXCEPT !.extLba = ExtendedLba, !.fileSize = FileSize]
    BY DEF PlacePartition
  <2>. QED  BY <1>7, <1>8, <1>9, <2>1
<1>11. tableEntries' \in Nat /\ hybridEntries' \in Nat /\ autoPart' \in Nat
  <2>1. tableEntries \in Nat /\ hybridEntries \in Nat /\ autoPart \in Nat
    BY DEF TypeInv, TypeOK
  <2>2. Entries \in Nat
    BY <2>1 DEF Entries
  <2>3. hybridEntries' \in {hybridEntries + 0, hybridEntries + 1}
    BY DEF PlacePartition
  <2>. QED  BY <1>3, <1>4, <2>1, <2>2, <2>3
<1>12. idx' \in 1 .. Len(parts') + 1
  BY <1>3, <1>4, <1>5
<1>. QED  BY <1>1, <1>4, <1>5, <1>6, <1>10, <1>11, <1>12 DEF TypeInv, TypeOK

\* Nothing but the verdict and the size changes when the image is refused or accepted.
LEMMA OtherStepsTypes ==
  TypeInv /\ (Refuse \/ (pc = "place" /\ FinishSetup) \/ UNCHANGED vars) => TypeInv'
<1> SUFFICES ASSUME TypeInv, Refuse \/ (pc = "place" /\ FinishSetup) \/ UNCHANGED vars
             PROVE  TypeInv'
  OBVIOUS
<1>1. CASE Refuse
  BY <1>1 DEF Refuse, TypeInv, TypeOK
<1>2. CASE pc = "place" /\ FinishSetup
  <2> DEFINE imageSize == IF size = 0 THEN now ELSE size
  <2>1. imageSize \in Nat
    BY DEF TypeInv, TypeOK
  <2>2. size' = imageSize
    BY <1>2 DEF FinishSetup
  <2>3. hd' = [hd EXCEPT !.fileSize = imageSize] \/ hd' = hd
    BY <1>2 DEF FinishSetup
  <2> HIDE DEF imageSize
  <2>4. hd' \in [align: Nat, ext: 0 .. 4, extLba: Nat, table: SUBSET {"mbr", "gpt"},
                 gptLoc: Nat, fileSize: Nat]
    BY <2>1, <2>3 DEF TypeInv, TypeOK
  <2>5. /\ pc' = "done" /\ ret' = "ok"
        /\ UNCHANGED <<cfg, parts, idx, now, tableEntries, hybridEntries, autoPart>>
    BY <1>2 DEF FinishSetup
  <2>. QED  BY <2>1, <2>2, <2>4, <2>5 DEF TypeInv, TypeOK
<1>3. CASE UNCHANGED vars
  BY <1>3 DEF vars, TypeInv, TypeOK
<1>. QED  BY <1>1, <1>2, <1>3

\* The inductive invariant of the types holds in every execution.
LEMMA TypesInvariant == Spec => []TypeInv
<1>1. Init => TypeInv
  BY InitTypes
<1>2. TypeInv /\ [Next]_vars => TypeInv'
  <2> SUFFICES ASSUME TypeInv, [Next]_vars PROVE TypeInv'
    OBVIOUS
  <2>1. CASE SetupOptions
    BY <2>1, SetupOptionsTypes
  <2>2. CASE RefuseOptions
    BY <2>2, OtherStepsTypes DEF RefuseOptions
  <2>3. CASE BlockDeviceError
    BY <2>3, OtherStepsTypes DEF BlockDeviceError
  <2>4. CASE PlacePartition
    BY <2>4, PlacePartitionTypes
  <2>5. CASE RefusePartition
    BY <2>5, OtherStepsTypes DEF RefusePartition
  <2>6. CASE FinishSetup
    BY <2>6, OtherStepsTypes DEF FinishSetup
  <2>7. CASE RefuseFinish
    BY <2>7, OtherStepsTypes DEF RefuseFinish
  <2>8. CASE UNCHANGED vars
    BY <2>8, OtherStepsTypes
  <2>. QED  BY <2>1, <2>2, <2>3, <2>4, <2>5, <2>6, <2>7, <2>8 DEF Next, Setup, Returned
<1>. QED  BY <1>1, <1>2, PTL DEF Spec

\* Every execution keeps the types: the fields of the partitions are unsigned
\* numbers, and from SetupOptions on no alignment the code divides by is zero.
THEOREM TypeCorrect == Spec => []TypeOK
<1>1. TypeInv => TypeOK
  BY DEF TypeInv
<1>. QED  BY <1>1, TypesInvariant, PTL

-----------------------------------------------------------------------------
(***************************************************************************)
(* The layout itself.  check_overlap compares the new partition with every *)
(* earlier one, but logical partitions are only compared with the end of   *)
(* the space used so far: for them disjointness rests on an invariant,     *)
(* that nothing placed reaches beyond now.  That in turn needs roundings   *)
(* and sums that do not wrap.                                              *)
(***************************************************************************)
\* check_overlap is sound: what it lets pass is compatible.
LEMMA OverlapSound ==
  ASSUME NEW p \in Partition, NEW q \in Partition, End(p) < ULL, End(q) < ULL,
         ~Overlaps(p, q)
  PROVE  Disk!Compatible(Area(p), Area(q))
<1>1. /\ p.offset \in Nat /\ p.size \in Nat /\ q.offset \in Nat /\ q.size \in Nat
      /\ q.image \in Images \cup {NoImage}
  BY DEF Partition
<1>2. PartitionEnd(p) = End(p) /\ PartitionEnd(q) = End(q)
  BY <1>1, ULLAssumption DEF PartitionEnd, Plus, End
<1>3. End(p) \in Nat /\ End(q) \in Nat
  BY <1>1 DEF End
<1>4. /\ Area(p).from = p.offset /\ Area(p).to = End(p)
      /\ Area(q).from = q.offset /\ Area(q).to = End(q)
  BY DEF Area
<1>5. CASE End(q) <= p.offset \/ End(p) <= q.offset
  BY <1>4, <1>5 DEF Disk!Compatible, Disk!Apart
<1>6. CASE p.offset < End(q) /\ q.offset < End(p)
  <2> DEFINE start == MaxOf(p.offset, q.offset)
             end   == MinOf(End(p), End(q))
  <2>1. HoleCovering(q.image, Minus(start, q.offset), Minus(end, q.offset))
    BY <1>2, <1>6 DEF Overlaps
  <2>2. /\ start \in Nat /\ start >= q.offset /\ start < ULL
        /\ start = p.offset \/ start = q.offset
    BY <1>1, <1>3, <1>6, MaxOfBounds, ULLAssumption
  <2>3. /\ end \in Nat /\ end >= q.offset /\ end < ULL
        /\ end <= End(p) /\ end <= End(q) /\ (end = End(p) \/ end = End(q))
    BY <1>1, <1>3, <1>6 DEF MinOf, End
  <2> HIDE DEF start, end
  <2>4. Minus(start, q.offset) = start - q.offset /\ Minus(end, q.offset) = end - q.offset
    BY <1>1, <2>2, <2>3, MinusExact
  <2>5. PICK e \in ImageHoles[q.image] : e.start <= start - q.offset /\ end - q.offset <= e.end
    BY <2>1, <2>4 DEF HoleCovering
  <2>6. q.image # NoImage /\ q.image \in Images
    BY <1>1, <2>1 DEF HoleCovering
  <2>7. e.start \in Nat /\ e.end \in Nat
    BY <2>5, <2>6, ImagesAssumption
  <2> DEFINE h == [from |-> q.offset + e.start, to |-> q.offset + e.end]
  <2>8. h \in Area(q).holes
    BY <2>5, <2>6 DEF Area
  <2>9. /\ h.from <= p.offset \/ h.from <= q.offset
        /\ End(p) <= h.to \/ End(q) <= h.to
    BY <1>1, <1>3, <2>2, <2>3, <2>5, <2>7
  <2> HIDE DEF h
  <2>. QED  BY <1>4, <2>8, <2>9 DEF Disk!Compatible, Disk!SharesOnlyHole
<1>. QED  BY <1>1, <1>3, <1>5, <1>6

\* What AreasDisjoint rests on.
SpaceUsed == \A i \in Done : End(parts[i]) <= now

LayoutInv ==
  /\ pc # "done" => ret = "none"
  /\ ~TooSmallForGpt => AreasDisjoint /\ SpaceUsed /\ AreasInImage

\* Placing a partition only moves the end of the used space forward.
LEMMA NowGrows ==
  ASSUME TypeInv, pc = "place", idx <= Len(parts), NothingWraps, ~TooSmallForGpt
  PROVE  /\ now <= NowBefore
         /\ IsExtended => now + hd.align <= NowBefore
         /\ now <= NowAfter /\ PartitionEnd(Placed) <= NowAfter
<1>1. /\ cur \in Partition /\ cur.align > 0 /\ Reserved \in Nat /\ NowBefore \in Nat
      /\ Offset \in Nat /\ FinalSize \in Nat
      /\ Placed \in Partition /\ Placed.offset = Offset /\ Placed.size = FinalSize
  BY PlacedType, Zenon
<1>2. /\ cur.size \in Nat /\ cur.align \in Nat /\ now \in Nat /\ hd.align \in Nat
      /\ hd.align > 0
  BY <1>1 DEF Partition, TypeInv, TypeOK
<1>3. /\ now + hd.align < ULL /\ now + hd.align + cur.align < ULL
      /\ now + hd.align + cur.align + cur.size < ULL
  <2>1. now + hd.align + 2 * cur.align + cur.size < ULL
    BY Zenon DEF NothingWraps
  <2>2. \A n, h, a, z \in Nat : n + h + 2 * a + z < ULL =>
          n + h < ULL /\ n + h + a < ULL /\ n + h + a + z < ULL
    BY ULLAssumption
  <2>. QED  BY <1>2, <2>1, <2>2, Zenon
<1>4. /\ now <= Reserved /\ Reserved <= now + hd.align + cur.align
      /\ IsExtended => now + hd.align <= Reserved
  <2>1. PICK v \in Nat : v = now + hd.align
    BY <1>2
  <2>2. v > 0 /\ v + cur.align < ULL /\ Plus(now, hd.align) = v
    <3>1. now + hd.align < ULL /\ v > 0 /\ v + cur.align < ULL
      BY <1>2, <1>3, <2>1
    <3>. QED  BY <1>2, <2>1, <3>1, PlusExact, Zenon
  <2>3. /\ RoundUp(v, cur.align) \in Nat
        /\ RoundUp(v, cur.align) >= v /\ RoundUp(v, cur.align) < v + cur.align
    BY <1>1, <1>2, <2>2, RoundUpType, RoundUpBounds
  <2>4. CASE IsExtended
    <3>1. Reserved = RoundUp(v, cur.align)
      BY <2>2, <2>4, Zenon DEF Reserved
    <3>. QED  BY <1>1, <1>2, <2>1, <2>3, <3>1
  <2>5. CASE ~IsExtended
    <3>1. Reserved = now
      BY <2>5, Zenon DEF Reserved
    <3>. QED  BY <1>1, <1>2, <2>5, <3>1
  <2>. QED  BY <2>4, <2>5
<1>5. Reserved <= NowBefore
  <2>1. Plus(Reserved, cur.size) = Reserved + cur.size
    <3>1. \A r, u, z \in Nat : r <= u /\ u + z < ULL => r + z < ULL
      BY ULLAssumption
    <3>2. now + hd.align + cur.align \in Nat
      BY <1>2
    <3>3. Reserved + cur.size < ULL
      BY <1>1, <1>2, <1>3, <1>4, <3>1, <3>2, Zenon
    <3>. QED  BY <1>1, <1>2, <3>3, PlusExact, Zenon
  <2>2. NowBefore = Reserved + cur.size \/ NowBefore = Reserved
    BY <2>1, Zenon DEF NowBefore
  <2>. QED  BY <1>1, <1>2, <2>2
<1>6. NowBefore <= NowAfter /\ PartitionEnd(Placed) <= NowAfter /\ NowAfter \in Nat
  <2>1. PartitionEnd(Placed) \in Nat
    BY <1>1, PlusType, Zenon DEF PartitionEnd
  <2>. QED  BY <1>1, <2>1, MaxOfBounds DEF NowAfter
<1>. QED  BY <1>1, <1>2, <1>4, <1>5, <1>6

\* The new partition is compatible with all earlier ones.
LEMMA PlacedCompatible ==
  ASSUME TypeInv, pc = "place", idx <= Len(parts), ~PartitionRefused,
         NothingWraps, ~TooSmallForGpt, SpaceUsed, End(Placed) < ULL,
         NEW j \in Done
  PROVE  Disk!Compatible(Area(Placed), Area(parts[j]))
<1>1. Placed \in Partition /\ Placed.offset = Offset /\ Offset \in Nat /\ NowBefore \in Nat
  BY PlacedType, Zenon
<1>2. /\ j \in 1 .. idx - 1 /\ parts[j] \in Partition /\ now \in Nat
      /\ End(parts[j]) < ULL /\ End(parts[j]) <= now
  BY DEF Done, TypeInv, TypeOK, NothingWraps, SpaceUsed
<1>3. ~SpaceRefused
  BY Zenon DEF PartitionRefused
<1>4. CASE IsExtended
  <2>1. NowBefore <= Offset
    BY <1>1, <1>3, <1>4 DEF SpaceRefused
  <2>2. End(parts[j]) \in Nat
    BY <1>2 DEF Partition, End
  <2>3. End(parts[j]) <= Offset
    BY <1>1, <1>2, <2>1, <2>2, NowGrows
  <2>4. Area(parts[j]).to = End(parts[j]) /\ Area(Placed).from = Offset
    BY <1>1 DEF Area
  <2>. QED  BY <2>3, <2>4 DEF Disk!Compatible, Disk!Apart
<1>5. CASE ~IsExtended
  <2>1. ~Overlaps(Placed, parts[j])
    BY <1>2, <1>3, <1>5, Zenon DEF SpaceRefused
  <2>. QED  BY <1>1, <1>2, <2>1, OverlapSound
<1>. QED  BY <1>4, <1>5

\* PlacePartition keeps what is placed disjoint and counted in now.
LEMMA PlacePartitionLayout ==
  TypeInv /\ LayoutInv /\ NothingWraps /\ NothingWraps' /\ PlacePartition => LayoutInv'
<1> SUFFICES ASSUME TypeInv, LayoutInv, NothingWraps, NothingWraps', PlacePartition
             PROVE  LayoutInv'
  OBVIOUS
<1>1. /\ pc = "place" /\ pc' = pc /\ ret' = ret /\ idx <= Len(parts) /\ ~PartitionRefused
      /\ parts' = [parts EXCEPT ![idx] = Placed] /\ idx' = idx + 1 /\ now' = NowAfter
      /\ size' = size /\ hd'.table = hd.table
  BY DEF PlacePartition, TypeInv, TypeOK
<1> SUFFICES ASSUME ~TooSmallForGpt'
             PROVE  AreasDisjoint' /\ SpaceUsed' /\ AreasInImage'
  BY <1>1 DEF LayoutInv
<1>2. ~TooSmallForGpt /\ AreasDisjoint /\ SpaceUsed /\ ret = "none"
  BY <1>1 DEF LayoutInv, TooSmallForGpt
<1>3. /\ parts \in Seq(Partition) /\ idx \in 1 .. Len(parts) /\ now \in Nat
      /\ Placed \in Partition
  BY <1>1, PlacedType DEF TypeInv, TypeOK
<1>4. /\ parts'[idx] = Placed /\ Done' = Done \cup {idx}
      /\ \A i \in Done : i < idx /\ parts'[i] = parts[i] /\ parts[i] \in Partition
  BY <1>1, <1>3 DEF Done
<1>5. End(Placed) < ULL
  BY <1>4, ~TooSmallForGpt' DEF NothingWraps
<1>6. AreasDisjoint'
  <2> SUFFICES ASSUME NEW i \in Done', NEW j \in Done', i < j
               PROVE  Disk!Compatible(Area(parts'[j]), Area(parts'[i]))
    BY DEF AreasDisjoint
  <2>1. CASE j = idx
    <3>1. i \in Done
      BY <1>3, <1>4, <2>1 DEF Done
    <3>. QED  BY <1>1, <1>2, <1>4, <1>5, <2>1, <3>1, PlacedCompatible
  <2>2. CASE j # idx
    <3>1. i \in Done /\ j \in Done
      BY <1>3, <1>4, <2>2 DEF Done
    <3>. QED  BY <1>2, <1>4, <3>1 DEF AreasDisjoint
  <2>. QED  BY <2>1, <2>2
<1>7. SpaceUsed'
  <2>1. now <= NowAfter /\ PartitionEnd(Placed) <= NowAfter /\ NowAfter \in Nat
    <3>1. NowAfter \in Nat
      BY PlacePartitionTypes, <1>1 DEF TypeInv, TypeOK
    <3>. QED  BY <1>1, <1>2, <3>1, NowGrows
  <2>2. PartitionEnd(Placed) = End(Placed)
    BY <1>3, <1>5, PlusExact DEF PartitionEnd, End, Partition
  <2>3. \A i \in Done : End(parts[i]) \in Nat /\ End(parts[i]) <= now
    BY <1>2, <1>4 DEF SpaceUsed, End, Partition
  <2>4. \A i \in Done : End(parts[i]) <= NowAfter
    BY <1>3, <2>1, <2>3
  <2>. QED  BY <1>1, <1>4, <2>1, <2>2, <2>4 DEF SpaceUsed
<1>. QED  BY <1>1, <1>2, <1>6, <1>7 DEF AreasInImage

\* FinishSetup accepts only what lies in the image.
LEMMA FinishSetupLayout == TypeInv /\ LayoutInv /\ FinishSetup => LayoutInv'
<1> SUFFICES ASSUME TypeInv, LayoutInv, FinishSetup PROVE LayoutInv'
  OBVIOUS
<1>1. /\ pc = "place" /\ pc' = "done" /\ ret' = "ok" /\ idx > Len(parts) /\ ~FinishRefused
      /\ parts' = parts /\ idx' = idx /\ now' = now
  BY DEF FinishSetup
<1>2. size' = (IF size = 0 THEN now ELSE size) /\ hd'.table = hd.table
  BY DEF FinishSetup, TypeInv, TypeOK
<1> SUFFICES ASSUME ~TooSmallForGpt'
             PROVE  AreasDisjoint' /\ SpaceUsed' /\ AreasInImage'
  BY <1>1 DEF LayoutInv
<1>3. ~TooSmallForGpt
  BY <1>2 DEF TooSmallForGpt
<1>4. AreasDisjoint /\ SpaceUsed
  BY <1>3 DEF LayoutInv
<1>5. AreasDisjoint' /\ SpaceUsed'
  BY <1>1, <1>4 DEF AreasDisjoint, SpaceUsed, Done
<1>6. size \in Nat /\ now \in Nat /\ parts \in Seq(Partition) /\ idx = Len(parts) + 1
  BY <1>1 DEF TypeInv, TypeOK
<1>7. now <= size'
  BY <1>1, <1>2, <1>6 DEF FinishRefused
<1>8. \A i \in DOMAIN parts : i \in Done /\ End(parts[i]) \in Nat
  <2>1. DOMAIN parts = Done /\ \A i \in DOMAIN parts : parts[i] \in Partition
    BY <1>6 DEF Done
  <2>2. \A p \in Partition : End(p) \in Nat
    BY DEF End, Partition
  <2>. QED  BY <2>1, <2>2, Zenon
<1>9. AreasInImage'
  BY <1>1, <1>2, <1>4, <1>6, <1>7, <1>8 DEF AreasInImage, SpaceUsed
<1>. QED  BY <1>5, <1>9

\* The other steps place nothing.
LEMMA OtherStepsLayout ==
  TypeInv /\ LayoutInv /\ (SetupOptions \/ (pc # "done" /\ Refuse) \/ UNCHANGED vars) => LayoutInv'
<1> SUFFICES ASSUME TypeInv, LayoutInv,
                    SetupOptions \/ (pc # "done" /\ Refuse) \/ UNCHANGED vars
             PROVE  LayoutInv'
  OBVIOUS
<1>1. CASE SetupOptions
  <2>1. pc = "options" /\ pc' = "place" /\ ret' = ret /\ ret = "none" /\ idx' = 1
    BY <1>1 DEF SetupOptions, LayoutInv, TypeInv
  <2>2. Done' = {}
    BY <2>1 DEF Done
  <2>. QED  BY <2>1, <2>2 DEF LayoutInv, AreasDisjoint, SpaceUsed, AreasInImage
<1>2. CASE pc # "done" /\ Refuse
  <2>1. /\ pc' = "done" /\ ret' = "einval"
        /\ UNCHANGED <<hd, size, parts, idx, now>>
    BY <1>2 DEF Refuse
  <2>. QED  BY <2>1 DEF LayoutInv, AreasDisjoint, SpaceUsed, AreasInImage, TooSmallForGpt, Done
<1>3. CASE UNCHANGED vars
  BY <1>3 DEF vars, LayoutInv, AreasDisjoint, SpaceUsed, AreasInImage, TooSmallForGpt, Done
<1>. QED  BY <1>1, <1>2, <1>3

\* Nothing is placed at first.
LEMMA InitLayout == Init => LayoutInv
BY DEF Init, LayoutInv, AreasDisjoint, SpaceUsed, AreasInImage, Done

\* As long as no sum wraps, the areas of the disk share only declared holes and
\* an accepted layout lies inside the image, whatever the partitions, their
\* alignments and the images in them.  (A GPT image smaller than its backup
\* table is the exception: it is refused in the end, and its backup table
\* placed at a wrapped offset until then.)
THEOREM LayoutSafe ==
  Spec /\ []NothingWraps => [](TooSmallForGpt \/ (AreasDisjoint /\ AreasInImage))
<1>1. Init => LayoutInv
  BY InitLayout
<1>2. TypeInv /\ LayoutInv /\ NothingWraps /\ NothingWraps' /\ [Next]_vars => LayoutInv'
  <2> SUFFICES ASSUME TypeInv, LayoutInv, NothingWraps, NothingWraps', [Next]_vars
               PROVE  LayoutInv'
    OBVIOUS
  <2>1. CASE SetupOptions
    BY <2>1, OtherStepsLayout
  <2>2. CASE RefuseOptions
    BY <2>2, OtherStepsLayout DEF RefuseOptions
  <2>3. CASE BlockDeviceError
    BY <2>3, OtherStepsLayout DEF BlockDeviceError
  <2>4. CASE PlacePartition
    BY <2>4, PlacePartitionLayout
  <2>5. CASE RefusePartition
    BY <2>5, OtherStepsLayout DEF RefusePartition
  <2>6. CASE FinishSetup
    BY <2>6, FinishSetupLayout
  <2>7. CASE RefuseFinish
    BY <2>7, OtherStepsLayout DEF RefuseFinish
  <2>8. CASE UNCHANGED vars
    BY <2>8, OtherStepsLayout
  <2>. QED  BY <2>1, <2>2, <2>3, <2>4, <2>5, <2>6, <2>7, <2>8 DEF Next, Setup, Returned
<1>3. Spec => []TypeInv
  BY TypesInvariant
<1>4. LayoutInv => TooSmallForGpt \/ (AreasDisjoint /\ AreasInImage)
  BY DEF LayoutInv
<1>. QED  BY <1>1, <1>2, <1>3, <1>4, PTL DEF Spec

-----------------------------------------------------------------------------
(***************************************************************************)
(* The space hdimage_setup gives out, for every set of configurations whose*)
(* numbers fit (HdLayout!Fits): then no sum wraps, and what the runs of    *)
(* HdLayout check on small disks holds of all of them.                     *)
(***************************************************************************)
(***************************************************************************)
(* Rounding and differences, exactly.                                      *)
(***************************************************************************)
\* Rounding up stays within one alignment of the number, also at zero, where
\* the code subtracts one and wraps.
LEMMA RoundUpRange ==
  \A v, a \in Nat : a > 0 /\ v + a < ULL =>
    RoundUp(v, a) \in Nat /\ v <= RoundUp(v, a) /\ RoundUp(v, a) < v + a
<1> SUFFICES ASSUME NEW v \in Nat, NEW a \in Nat, a > 0, v + a < ULL
             PROVE  RoundUp(v, a) \in Nat /\ v <= RoundUp(v, a) /\ RoundUp(v, a) < v + a
  OBVIOUS
<1>1. RoundUp(v, a) \in Nat /\ v <= RoundUp(v, a)
  BY RoundUpType, RoundUpBounds
<1>2. CASE v > 0
  BY <1>1, <1>2, RoundUpBounds
<1>3. CASE v = 0
  <2> DEFINE q == (ULL - 1) \div a
  <2>1. q \in Nat /\ q * a <= ULL - 1 /\ ULL - 1 < q * a + a
    BY ULLAssumption
  <2>2. (q + 1) * a = q * a + a
    BY <2>1
  <2>3. Minus(v, 1) = ULL - 1
    <3>1. (0 - 1) % ULL = ULL - 1
      BY ULLAssumption
    <3>. QED  BY <1>3, <3>1 DEF Minus
  <2>4. RoundUp(v, a) = (q * a + a) % ULL
    BY <2>2, <2>3 DEF RoundUp
  <2> HIDE DEF q
  <2>5. PICK k \in Int : k = q * a + a
    BY <2>1
  <2>6. ULL <= k /\ k - ULL < a
    BY <2>1, <2>5, ULLAssumption
  <2>7. k % ULL = k - ULL
    <3>1. PICK d \in Nat : k = d + ULL
      BY <2>6, ULLAssumption
    <3>2. d < ULL
      BY <2>6, <3>1, ULLAssumption
    <3>3. (d + ULL) % ULL = d
      BY <3>2, ULLAssumption
    <3>. QED  BY <3>1, <3>3, ULLAssumption
  <2>8. RoundUp(v, a) = k - ULL
    BY <2>4, <2>5, <2>7
  <2>. QED  BY <1>1, <1>3, <2>6, <2>8, ULLAssumption
<1>. QED  BY <1>2, <1>3

\* A difference below zero comes out just below the width of the integers.
LEMMA MinusBelowZero ==
  \A x, y \in Nat : x < y /\ y <= ULL => Minus(x, y) = ULL + x - y
<1> SUFFICES ASSUME NEW x \in Nat, NEW y \in Nat, x < y, y <= ULL
             PROVE  Minus(x, y) = ULL + x - y
  OBVIOUS
<1>1. PICK d \in Nat : d = ULL + x - y
  BY ULLAssumption
<1>2. d < ULL /\ x - y = d - ULL
  BY <1>1, ULLAssumption
<1>3. (d - ULL) % ULL = d
  BY <1>2, ULLAssumption
<1>. QED  BY <1>1, <1>2, <1>3 DEF Minus

\* Rounding down takes off less than the alignment.
LEMMA RoundDownRange ==
  \A v, a \in Nat : a > 0 => RoundDown(v, a) \in Nat /\ RoundDown(v, a) <= v /\ v < RoundDown(v, a) + a
BY DEF RoundDown

-----------------------------------------------------------------------------
(***************************************************************************)
(* The partition list as SetupOptions leaves it: the declared partitions,  *)
(* then the areas of the partition table.                                  *)
(***************************************************************************)
ImageSizeOf(c) == IF c.block THEN c.device ELSE c.size

Listed(c) == [i \in 1 .. Len(c.parts) |-> Prepared(c.parts[i], c)] \o TableAreas(c, ImageSizeOf(c))

\* A disk too small for its backup table.
DiskTooSmall(c) == "gpt" \in TableType(c) /\ ImageSizeOf(c) # 0 /\ ImageSizeOf(c) < BackupSize

\* The sizes of the areas, in bytes.
LEMMA AreaSizes == BackupSize = 16896 /\ (GptSectors - 1) * Sector = 16384 /\ Sector = 512
BY DEF BackupSize, GptSectors, Sector

\* The names of the areas.
MbrName    == "[MBR]"
HeaderName == "[GPT header]"
ArrayName  == "[GPT array]"
BackupName == "[GPT backup]"

\* They are names, and that of the backup table is its own.
LEMMA AreaNames ==
  /\ MbrName \in Names /\ HeaderName \in Names /\ ArrayName \in Names /\ BackupName \in Names
  /\ MbrName # BackupName /\ HeaderName # BackupName /\ ArrayName # BackupName
BY Zenon DEF Names, MbrName, HeaderName, ArrayName, BackupName

\* The areas of a GPT, one by one.
LEMMA GptAreasList ==
  ASSUME NEW c \in Config, NEW s \in Nat, "gpt" \in TableType(c)
  PROVE  /\ Len(TableAreas(c, s)) = 4
         /\ TableAreas(c, s)[1] = MbrArea
         /\ TableAreas(c, s)[2] = FakePartition(HeaderName, Sector, Sector)
         /\ TableAreas(c, s)[3] = FakePartition(ArrayName, GptLocation(c), (GptSectors - 1) * Sector)
         /\ TableAreas(c, s)[4] = FakePartition(BackupName,
                                    IF s # 0 THEN Minus(s, BackupSize) ELSE 0, BackupSize)
<1> DEFINE h == FakePartition(HeaderName, Sector, Sector)
           a == FakePartition(ArrayName, GptLocation(c), (GptSectors - 1) * Sector)
           b == FakePartition(BackupName, IF s # 0 THEN Minus(s, BackupSize) ELSE 0, BackupSize)
           m == MbrArea
<1>1. TableAreas(c, s) = <<m>> \o <<h, a, b>>
  BY Zenon DEF TableAreas, GptAreas, HeaderName, ArrayName, BackupName
<1> HIDE DEF h, a, b, m
<1>2. <<m>> \o <<h, a, b>> = <<m, h, a, b>>
  <2> DEFINE S == {m, h, a, b}
  <2>1. <<m>> \in Seq(S) /\ <<h, a, b>> \in Seq(S) /\ <<m, h, a, b>> \in Seq(S)
    OBVIOUS
  <2> HIDE DEF S
  <2>2. /\ <<m>> \o <<h, a, b>> \in Seq(S)
        /\ Len(<<m>> \o <<h, a, b>>) = Len(<<m>>) + Len(<<h, a, b>>)
        /\ \A i \in 1 .. Len(<<m>>) + Len(<<h, a, b>>) :
             (<<m>> \o <<h, a, b>>)[i] = IF i <= Len(<<m>>) THEN <<m>>[i] ELSE <<h, a, b>>[i - Len(<<m>>)]
    BY <2>1, ConcatProperties
  <2>3. Len(<<m>> \o <<h, a, b>>) = 4
    BY <2>2
  <2>4. \A i \in 1 .. 4 : (<<m>> \o <<h, a, b>>)[i] = <<m, h, a, b>>[i]
    BY <2>2
  <2>. QED  BY <2>1, <2>2, <2>3, <2>4, SeqEqual
<1>3. /\ Len(TableAreas(c, s)) = 4 /\ TableAreas(c, s)[1] = m /\ TableAreas(c, s)[2] = h
      /\ TableAreas(c, s)[3] = a /\ TableAreas(c, s)[4] = b
  BY <1>1, <1>2
<1>. QED  BY <1>3, Zenon DEF h, a, b, m

\* Accepted options name one of the table types.
LEMMA TableTypeKnown ==
  ASSUME NEW c \in Config, ~OptionsRefused(c)
  PROVE  /\ TableType(c) \in {{}, {"mbr"}, {"gpt"}, {"mbr", "gpt"}}
         /\ TableType(c) # {} => ImageAlign(c) % Sector = 0
BY DEF Config, OptionsRefused, TableType, TableTypes

\* The list, element by element.
LEMMA ListedElements ==
  ASSUME NEW c \in Config
  PROVE  /\ Listed(c) \in Seq(Partition)
         /\ Len(Listed(c)) = Len(c.parts) + Len(TableAreas(c, ImageSizeOf(c)))
         /\ TableAreas(c, ImageSizeOf(c)) \in Seq(Partition)
         /\ \A i \in 1 .. Len(Listed(c)) :
              Listed(c)[i] = IF i <= Len(c.parts) THEN Prepared(c.parts[i], c)
                             ELSE TableAreas(c, ImageSizeOf(c))[i - Len(c.parts)]
<1>1. c.parts \in Seq(Partition) /\ ImageSizeOf(c) \in Nat
  BY DEF Config, ImageSizeOf
<1> DEFINE n == Len(c.parts)
           declared == [i \in 1 .. n |-> Prepared(c.parts[i], c)]
           areas == TableAreas(c, ImageSizeOf(c))
<1>2. areas \in Seq(Partition)
  BY <1>1, TableAreasType, Zenon
<1>3. n \in Nat /\ \A i \in 1 .. n : c.parts[i] \in Partition
  BY <1>1
<1>4. declared \in [1 .. n -> Partition]
  BY <1>3, PreparedType, Zenon
<1>5. declared \in Seq(Partition) /\ Len(declared) = n
  <2>1. \A k \in Nat : \A f \in [1 .. k -> Partition] : f \in Seq(Partition) /\ Len(f) = k
    OBVIOUS
  <2>. QED  BY <1>3, <1>4, <2>1, Zenon
<1>6. \A i \in 1 .. n : declared[i] = Prepared(c.parts[i], c)
  OBVIOUS
<1>7. Listed(c) = declared \o areas
  BY DEF Listed
<1> HIDE DEF declared, areas
<1>8. /\ declared \o areas \in Seq(Partition)
      /\ Len(declared \o areas) = n + Len(areas)
      /\ \A i \in 1 .. n + Len(areas) :
           (declared \o areas)[i] = IF i <= n THEN declared[i] ELSE areas[i - n]
  <2> HIDE DEF n
  <2>. QED  BY <1>2, <1>5, ConcatProperties
<1>9. /\ Listed(c) \in Seq(Partition) /\ Len(Listed(c)) = n + Len(areas)
      /\ \A i \in 1 .. Len(Listed(c)) : Listed(c)[i] = IF i <= n THEN declared[i] ELSE areas[i - n]
  BY <1>7, <1>8
<1>10. Len(areas) \in Nat
  BY <1>2
<1>11. \A i \in 1 .. Len(Listed(c)) :
         Listed(c)[i] = IF i <= n THEN Prepared(c.parts[i], c) ELSE areas[i - n]
  BY <1>3, <1>6, <1>9, <1>10
<1>. QED  BY <1>2, <1>9, <1>11 DEF areas

\* What the bound on the numbers gives for one configuration.
LEMMA FitsConfig ==
  ASSUME NEW M \in Nat, Fits(M), NEW c \in Configs
  PROVE  /\ c \in Config /\ M >= 65536 /\ Len(c.parts) \in Nat
         /\ c.align <= M /\ c.gptLoc <= M /\ ImageSizeOf(c) \in Nat /\ ImageSizeOf(c) <= M
         /\ (Len(c.parts) + 6) * Step(M) <= ULL \div 2
         /\ \A i \in 1 .. Len(c.parts) :
              /\ c.parts[i] \in Partition
              /\ c.parts[i].offset <= M /\ c.parts[i].size <= M /\ c.parts[i].align <= M
         /\ GptLocation(c) \in Nat /\ GptLocation(c) <= M /\ GptLocation(c) # 0
         /\ ImageAlign(c) <= M
<1>1. c \in Config
  BY ConfigsAssumption
<1>2. c.parts \in Seq(Partition) /\ c.gptLoc \in Nat /\ c.align \in Nat
  BY <1>1 DEF Config
<1>3. M >= 65536 /\ c.align <= M /\ c.gptLoc <= M /\ c.size <= M /\ c.device <= M
      /\ (Len(c.parts) + 6) * Step(M) <= ULL \div 2
  BY DEF Fits
<1>4. \A i \in DOMAIN c.parts :
        c.parts[i].offset <= M /\ c.parts[i].size <= M /\ c.parts[i].align <= M
  BY DEF Fits
<1>5. Len(c.parts) \in Nat /\ DOMAIN c.parts = 1 .. Len(c.parts)
      /\ \A i \in 1 .. Len(c.parts) : c.parts[i] \in Partition
  BY <1>2
<1>6. ImageSizeOf(c) \in Nat /\ ImageSizeOf(c) <= M
  BY <1>1, <1>3 DEF ImageSizeOf, Config
<1>7. GptLocation(c) \in Nat /\ GptLocation(c) <= M /\ GptLocation(c) # 0
  BY <1>2, <1>3 DEF GptLocation, Sector
<1>8. ImageAlign(c) <= M
  BY <1>2, <1>3 DEF ImageAlign, Sector
<1>. QED  BY <1>1, <1>3, <1>4, <1>5, <1>6, <1>7, <1>8

\* M is small: one step, and two, fit below half the width.
LEMMA WidthIsAmple ==
  ASSUME NEW M \in Nat, Fits(M), NEW c \in Configs
  PROVE  /\ ULL \div 2 \in Nat /\ 2 * (ULL \div 2) <= ULL
         /\ 6 * Step(M) <= ULL \div 2 /\ Step(M) = 6 * M
<1>1. Step(M) \in Nat /\ Step(M) = 6 * M
  BY DEF Step
<1>2. Len(c.parts) \in Nat /\ (Len(c.parts) + 6) * Step(M) <= ULL \div 2
  BY FitsConfig
<1>3. \A n, k \in Nat : (n + 6) * k = n * k + 6 * k /\ n * k >= 0
  OBVIOUS
<1>4. ULL \div 2 \in Nat /\ 2 * (ULL \div 2) <= ULL
  BY ULLAssumption
<1>5. PICK n \in Nat : n = Len(c.parts)
  BY <1>2
<1>6. PICK k \in Nat : k = Step(M)
  BY <1>1
<1>7. (n + 6) * k <= ULL \div 2
  BY <1>2, <1>5, <1>6, Zenon
<1>8. (n + 6) * k = n * k + 6 * k /\ n * k >= 0
  BY <1>3, Zenon
<1>9. PICK p \in Nat : p = n * k
  <2>1. n * k \in Nat
    BY SMT
  <2>. QED  BY <2>1, Zenon
<1>10. p + 6 * k <= ULL \div 2
  BY <1>7, <1>8, <1>9, Zenon
<1>11. 6 * k <= ULL \div 2
  BY <1>4, <1>10, SMT
<1>. QED  BY <1>1, <1>4, <1>6, <1>11

\* The fields of an area.
LEMMA FakePartitionFields ==
  \A name \in Names : \A o, z \in Nat :
    /\ FakePartition(name, o, z) \in Partition /\ FakePartition(name, o, z).name = name
    /\ FakePartition(name, o, z).offset = o /\ FakePartition(name, o, z).size = z
    /\ FakePartition(name, o, z).align = 1 /\ FakePartition(name, o, z).inTable = FALSE
    /\ FakePartition(name, o, z).autoresize = FALSE /\ FakePartition(name, o, z).image = NoImage
BY FakePartitionType DEF FakePartition

\* The backup table starts where the image ends less its size, or at a wrapped
\* offset when the image is smaller than that.
LEMMA BackupOffset ==
  ASSUME NEW M \in Nat, M >= 65536, M < ULL, NEW s \in Nat, s <= M
  PROVE  \E o \in Nat :
           /\ o = IF s # 0 THEN Minus(s, BackupSize) ELSE 0
           /\ IF s # 0 /\ s < BackupSize THEN o = ULL + s - BackupSize ELSE o <= M
<1>1. CASE s = 0
  BY <1>1
<1>2. CASE s # 0 /\ s < BackupSize
  <2>1. Minus(s, 16896) = ULL + s - 16896
    BY <1>2, AreaSizes, MinusBelowZero, ULLAssumption, SMT
  <2>2. Minus(s, BackupSize) = ULL + s - BackupSize /\ ULL + s - BackupSize \in Nat
    BY <2>1, AreaSizes, ULLAssumption, SMT
  <2>. QED  BY <1>2, <2>2
<1>3. CASE s # 0 /\ s >= BackupSize
  <2>1. Minus(s, 16896) = s - 16896
    BY <1>3, AreaSizes, MinusExact, ULLAssumption, SMT
  <2>2. Minus(s, BackupSize) = s - BackupSize /\ s - BackupSize \in 0 .. M
    BY <1>3, <2>1, AreaSizes, SMT
  <2>. QED  BY <1>3, <2>2, AreaSizes
<1>. QED  BY <1>1, <1>2, <1>3, AreaSizes

\* What is known of the area at position k among the areas of a configuration.
AreaAt(M, c, k, a) ==
  /\ a \in Partition /\ a.align = 1 /\ a.size <= M /\ a.size # 0
  /\ a.inTable = FALSE /\ a.autoresize = FALSE /\ a.image = NoImage
  /\ (a.name = BackupName <=> k = 4)
  /\ a.offset = 0 => k = 4
  /\ IF DiskTooSmall(c) /\ k = 4
     THEN a.offset = ULL + ImageSizeOf(c) - BackupSize /\ a.size = BackupSize
     ELSE a.offset <= M

\* The numbers of the areas of the partition table.  Only the backup table of a
\* disk too small for it starts at a wrapped offset.
LEMMA AreaNumbers ==
  ASSUME NEW M \in Nat, Fits(M), NEW c \in Configs, ~OptionsRefused(c),
         NEW t, t = TableAreas(c, ImageSizeOf(c)), NEW k \in 1 .. Len(t)
  PROVE  Len(t) <= 4 /\ TableType(c) # {} /\ AreaAt(M, c, k, t[k])
<1> DEFINE array == (GptSectors - 1) * Sector
           before == Sector - MbrTail
           s == ImageSizeOf(c)
<1>1. c \in Config /\ s \in Nat /\ s <= M
      /\ GptLocation(c) \in Nat /\ GptLocation(c) <= M /\ GptLocation(c) # 0
  BY FitsConfig, SMT
<1>2. M < ULL /\ M >= 65536
  BY FitsConfig, WidthIsAmple, ULLAssumption, SMT
<1>4. /\ Sector \in 1 .. M /\ array \in 1 .. M /\ BackupSize \in 1 .. M
      /\ MbrTail \in 1 .. M /\ before \in 1 .. M
  BY <1>2, AreaSizes, SMT DEF MbrTail
<1> HIDE DEF array, before, s
<1>5. TableType(c) \in {{}, {"mbr"}, {"gpt"}, {"mbr", "gpt"}}
  BY <1>1, TableTypeKnown, SMT
<1>6. t = TableAreas(c, s) /\ (DiskTooSmall(c) <=> "gpt" \in TableType(c) /\ s # 0 /\ s < BackupSize)
  BY DEF DiskTooSmall, s
<1>7. CASE TableType(c) = {}
  BY <1>6, <1>7 DEF TableAreas
<1>8. CASE TableType(c) = {"mbr"}
  <2>1. t = <<MbrArea>>
    BY <1>6, <1>8 DEF TableAreas
  <2>2. k = 1 /\ t[k] = FakePartition(MbrName, before, MbrTail) /\ Len(t) = 1
    <3>1. MbrArea = FakePartition(MbrName, before, MbrTail)
      BY Zenon DEF MbrArea, MbrName, before
    <3>. QED  BY <2>1, <3>1
  <2>3. ~DiskTooSmall(c)
    BY <1>8 DEF DiskTooSmall
  <2>4. PICK a : a = FakePartition(MbrName, before, MbrTail)
    OBVIOUS
  <2>5. before \in Nat /\ MbrTail \in Nat
    BY <1>4
  <2>6. /\ a \in Partition /\ a.name = MbrName /\ a.offset = before /\ a.size = MbrTail
        /\ a.align = 1 /\ a.inTable = FALSE /\ a.autoresize = FALSE /\ a.image = NoImage
    BY AreaNames, <2>4, <2>5, FakePartitionFields, SMT
  <2>7. AreaAt(M, c, k, a)
    BY <1>4, <2>2, <2>3, <2>6, AreaNames, SMT DEF AreaAt
  <2>. QED  BY <1>8, <2>2, <2>4, <2>7, SMT
<1>9. CASE "gpt" \in TableType(c)
  <2>1. PICK o \in Nat : /\ o = IF s # 0 THEN Minus(s, BackupSize) ELSE 0
                         /\ IF s # 0 /\ s < BackupSize THEN o = ULL + s - BackupSize ELSE o <= M
    BY <1>1, <1>2, BackupOffset, SMT
  <2>2. /\ Len(t) = 4 /\ t[1] = MbrArea /\ t[2] = FakePartition(HeaderName, Sector, Sector)
        /\ t[3] = FakePartition(ArrayName, GptLocation(c), array)
        /\ t[4] = FakePartition(BackupName, o, BackupSize)
    <3>1. /\ Len(TableAreas(c, s)) = 4 /\ TableAreas(c, s)[1] = MbrArea
          /\ TableAreas(c, s)[2] = FakePartition(HeaderName, Sector, Sector)
          /\ TableAreas(c, s)[3] = FakePartition(ArrayName, GptLocation(c), (GptSectors - 1) * Sector)
          /\ TableAreas(c, s)[4] = FakePartition(BackupName,
                                     IF s # 0 THEN Minus(s, BackupSize) ELSE 0, BackupSize)
      BY <1>1, <1>9, GptAreasList
    <3>. QED  BY <1>6, <2>1, <3>1, Zenon DEF array
  <2>3. t[1] = FakePartition(MbrName, before, MbrTail)
    BY <2>2, Zenon DEF MbrArea, MbrName, before
  <2>4. k \in 1 .. 4
    BY <2>2
  <2>5. PICK name \in Names, from \in Nat, z \in 1 .. M :
          /\ t[k] = FakePartition(name, from, z)
          /\ (name = BackupName <=> k = 4)
          /\ k # 4 => from # 0 /\ from <= M
          /\ k = 4 => from = o /\ z = BackupSize
    <3>1. CASE k = 1
      BY AreaNames, <1>4, <2>3, <3>1
    <3>2. CASE k = 2
      BY AreaNames, <1>4, <2>2, <3>2
    <3>3. CASE k = 3
      BY <1>1, AreaNames, <1>4, <2>2, <3>3
    <3>4. CASE k = 4
      BY AreaNames, <1>4, <2>2, <3>4
    <3>. QED  BY <2>4, <3>1, <3>2, <3>3, <3>4
  <2>6. PICK a : a = FakePartition(name, from, z)
    OBVIOUS
  <2>7. z \in Nat
    BY <2>5
  <2>8. /\ a \in Partition /\ a.name = name /\ a.offset = from /\ a.size = z
        /\ a.align = 1 /\ a.inTable = FALSE /\ a.autoresize = FALSE /\ a.image = NoImage
    BY <2>6, <2>7, FakePartitionFields, SMT
  <2>9. k = 4 => IF DiskTooSmall(c) THEN from = ULL + s - BackupSize ELSE from <= M
    BY <1>6, <1>9, <2>1, <2>5, SMT
  <2>10. AreaAt(M, c, k, a)
    BY <2>5, <2>8, <2>9, SMT DEF AreaAt, s
  <2>. QED  BY <1>9, <2>2, <2>5, <2>6, <2>10, SMT
<1>. QED  BY <1>5, <1>7, <1>8, <1>9, SMT

\* What is known of the partition at position i of the list.
ListedAt(M, c, i, p) ==
  /\ p \in Partition /\ p.align \in 1 .. M /\ p.size <= M
  /\ p.inTable => TableType(c) # {} /\ i <= Len(c.parts)
  /\ i <= Len(c.parts) => p.offset = c.parts[i].offset
  /\ i > Len(c.parts) => /\ TableType(c) # {}
                         /\ AreaAt(M, c, i - Len(c.parts), p)
  /\ IF DiskTooSmall(c) /\ i = Len(Listed(c))
     THEN p.offset = ULL + ImageSizeOf(c) - BackupSize /\ p.size = BackupSize /\ i > Len(c.parts)
     ELSE p.offset <= M

\* The numbers of the partition list.
LEMMA ListedNumbers ==
  ASSUME NEW M \in Nat, Fits(M), NEW c \in Configs, ~OptionsRefused(c)
  PROVE  /\ Listed(c) \in Seq(Partition)
         /\ Len(c.parts) <= Len(Listed(c)) /\ Len(Listed(c)) <= Len(c.parts) + 4
         /\ \A i \in 1 .. Len(Listed(c)) : ListedAt(M, c, i, Listed(c)[i])
<1> DEFINE n == Len(c.parts)
           t == TableAreas(c, ImageSizeOf(c))
<1>1. c \in Config /\ n \in Nat /\ M > 0 /\ ImageAlign(c) \in 1 .. M
      /\ \A i \in 1 .. n : c.parts[i] \in Partition /\ c.parts[i].offset <= M
                           /\ c.parts[i].size <= M /\ c.parts[i].align <= M
  BY FitsConfig, ImageAlignPositive, SMT
<1>2. /\ Listed(c) \in Seq(Partition) /\ Len(Listed(c)) = n + Len(t) /\ t \in Seq(Partition)
      /\ \A i \in 1 .. Len(Listed(c)) :
           Listed(c)[i] = IF i <= n THEN Prepared(c.parts[i], c) ELSE t[i - n]
  BY <1>1, ListedElements
<1>3. Len(t) \in Nat /\ Len(t) <= 4 /\ \A k \in 1 .. Len(t) : TableType(c) # {} /\ AreaAt(M, c, k, t[k])
  <2>1. Len(t) \in Nat
    BY <1>2
  <2>2. \A k \in 1 .. Len(t) : Len(t) <= 4 /\ TableType(c) # {} /\ AreaAt(M, c, k, t[k])
    BY AreaNumbers
  <2>3. Len(t) <= 4
    <3>1. CASE Len(t) = 0
      BY <3>1
    <3>2. CASE Len(t) # 0
      <4>1. 1 \in 1 .. Len(t)
        BY <2>1, <3>2
      <4>. QED  BY <2>2, <4>1
    <3>. QED  BY <3>1, <3>2
  <2>. QED  BY <2>1, <2>2, <2>3
<1>4. DiskTooSmall(c) => Len(t) = 4
  <2>1. DiskTooSmall(c) => "gpt" \in TableType(c) /\ ImageSizeOf(c) \in Nat
    BY FitsConfig DEF DiskTooSmall
  <2>. QED  BY <1>1, <2>1, GptAreasList
<1> HIDE DEF n, t
<1>5. /\ n \in Nat /\ Len(t) \in Nat /\ Len(t) <= 4 /\ Len(Listed(c)) = n + Len(t)
      /\ Len(Listed(c)) \in Nat
      /\ DiskTooSmall(c) => Len(t) = 4
  <2>1. Len(Listed(c)) \in Nat
    BY <1>2
  <2>. QED  BY <1>1, <1>2, <1>3, <1>4, <2>1, Zenon
<1>6. ASSUME NEW i \in 1 .. Len(Listed(c)), i <= n
      PROVE  ListedAt(M, c, i, Listed(c)[i])
  <2>1. PICK p \in Partition : p = c.parts[i] /\ p.offset <= M /\ p.size <= M /\ p.align <= M
    BY <1>1, <1>6
  <2>2. PICK q : q = Prepared(p, c)
    OBVIOUS
  <2>3. q \in Partition /\ q.align > 0
    BY <1>1, <2>2, PreparedType
  <2>4. /\ q.offset = p.offset /\ q.size = p.size
        /\ q.align \in {p.align, ImageAlign(c), 1}
        /\ q.inTable => TableType(c) # {}
    BY <2>1, <2>2 DEF Prepared, Partition
  <2>5. q.align \in 1 .. M
    BY <1>1, <2>1, <2>3, <2>4 DEF Partition
  <2>6. ~(DiskTooSmall(c) /\ i = Len(Listed(c)))
    BY <1>6, <1>5
  <2>7. ListedAt(M, c, i, q)
    BY <1>1, <1>6, <2>1, <2>3, <2>4, <2>5, <2>6, SMT DEF ListedAt, n
  <2>. QED  BY <1>2, <1>6, <2>1, <2>2, <2>7
<1>7. ASSUME NEW i \in 1 .. Len(Listed(c)), i > n
      PROVE  ListedAt(M, c, i, Listed(c)[i])
  <2>1. PICK k \in 1 .. Len(t) : k = i - n
    BY <1>1, <1>2, <1>3, <1>7
  <2>2. PICK q : q = t[k]
    OBVIOUS
  <2>3. Listed(c)[i] = q
    BY <1>1, <1>2, <1>7, <2>1, <2>2
  <2>4. TableType(c) # {} /\ AreaAt(M, c, k, q)
    BY <1>3, <2>2
  <2>5. DiskTooSmall(c) => (k = 4 <=> i = Len(Listed(c)))
    <3>1. PICK l \in Nat : l = Len(Listed(c))
      BY <1>5
    <3>2. l = n + Len(t) /\ i \in Nat
      BY <1>5, <3>1
    <3>3. DiskTooSmall(c) => l = n + 4
      BY <1>5, <3>1
    <3>. QED  BY <1>5, <2>1, <3>1, <3>2, <3>3
  <2>6. ListedAt(M, c, i, q)
    BY <1>1, <1>7, <2>1, <2>4, <2>5, SMT DEF ListedAt, AreaAt, n
  <2>. QED  BY <2>3, <2>6
<1>8. \A i \in 1 .. Len(Listed(c)) : i <= n \/ i > n
  BY <1>1
<1>9. Len(c.parts) <= Len(Listed(c)) /\ Len(Listed(c)) <= Len(c.parts) + 4
  BY <1>5 DEF n
<1>. QED  BY <1>2, <1>6, <1>7, <1>8, <1>9

-----------------------------------------------------------------------------
(***************************************************************************)
(* What holds at every turn of the main loop.                              *)
(***************************************************************************)
\* The options were accepted.
Settled == hd.align > 0

\* Behind idx the list is as SetupOptions left it; in front of it a partition
\* keeps its image, its place in the table, and an offset it was given.
ListInv ==
  /\ pc # "done" => ret = "none"
  /\ IF Settled
     THEN /\ pc # "options" /\ ~OptionsRefused(cfg)
          /\ hd.align = ImageAlign(cfg) /\ hd.table = TableType(cfg)
          /\ Len(parts) = Len(Listed(cfg))
          /\ ret # "ok" => size = ImageSizeOf(cfg)
          /\ \A i \in 1 .. Len(parts) : i >= idx => parts[i] = Listed(cfg)[i]
          /\ \A i \in Done :
               /\ parts[i].image = Listed(cfg)[i].image
               /\ parts[i].inTable = Listed(cfg)[i].inTable
               /\ parts[i].extended => parts[i].inTable
               /\ Listed(cfg)[i].offset # 0 => parts[i].offset = Listed(cfg)[i].offset
               /\ Listed(cfg)[i].size # 0 /\ ~Listed(cfg)[i].autoresize
                    => parts[i].size = Listed(cfg)[i].size
     ELSE /\ idx = 1 /\ pc # "place" /\ ret # "ok"
          /\ now = 0 /\ hd.fileSize = 0 /\ hd.extLba = 0

\* The backup table of an image that is too small for it, at a wrapped offset.
Wrapped(i) == TooSmallForGpt /\ i = Len(parts)

\* What is placed lies below now, and now takes at most a step for each partition.
SpaceInv(M) ==
  Settled =>
    /\ FirstFree(cfg) <= now /\ now <= idx * Step(M)
    /\ \A i \in Done : End(parts[i]) <= now \/ (ret # "ok" /\ Wrapped(i))
    /\ ret = "ok" => idx > Len(parts) /\ now <= size

\* What the next turn of the loop starts from.
LEMMA TurnNumbers ==
  ASSUME NEW M \in Nat, Fits(M), TypeInv, ListInv, SpaceInv(M), pc = "place", idx <= Len(parts)
  PROVE  /\ M >= 4096 /\ cfg \in Configs /\ ~OptionsRefused(cfg) /\ idx \in 1 .. Len(parts)
         /\ now \in Nat /\ now + 2 * Step(M) <= ULL \div 2
         /\ hd.align \in 1 .. M /\ hd.align = ImageAlign(cfg) /\ hd.table = TableType(cfg)
         /\ size \in Nat /\ size <= M /\ size = ImageSizeOf(cfg)
         /\ cur \in Partition /\ cur.align \in 1 .. M /\ cur.size <= M
         /\ cur = Listed(cfg)[idx] /\ ListedAt(M, cfg, idx, cur)
         /\ TooSmallForGpt <=> DiskTooSmall(cfg)
         /\ IF Wrapped(idx)
            THEN cur.offset = ULL + size - BackupSize /\ cur.size = BackupSize
                 /\ idx > Len(cfg.parts)
            ELSE cur.offset <= M
<1>1. /\ cfg \in Configs /\ idx \in 1 .. Len(parts) /\ now \in Nat /\ size \in Nat
      /\ hd.align > 0 /\ hd.align \in Nat /\ parts \in Seq(Partition)
  BY DEF TypeInv, TypeOK
<1>2. /\ ~OptionsRefused(cfg) /\ hd.align = ImageAlign(cfg) /\ hd.table = TableType(cfg)
      /\ Len(parts) = Len(Listed(cfg)) /\ size = ImageSizeOf(cfg)
      /\ parts[idx] = Listed(cfg)[idx] /\ now <= idx * Step(M)
  BY <1>1 DEF ListInv, SpaceInv, Settled
<1>3. /\ M >= 65536 /\ Len(cfg.parts) \in Nat /\ ImageSizeOf(cfg) <= M /\ ImageAlign(cfg) <= M
      /\ (Len(cfg.parts) + 6) * Step(M) <= ULL \div 2
  BY <1>1, FitsConfig, SMT
<1>4. /\ Len(Listed(cfg)) <= Len(cfg.parts) + 4
      /\ ListedAt(M, cfg, idx, Listed(cfg)[idx])
  BY <1>1, <1>2, ListedNumbers, SMT
<1>5. now + 2 * Step(M) <= ULL \div 2
  <2>1. PICK k \in Nat : k = Step(M)
    BY DEF Step
  <2>2. PICK n \in Nat : n = Len(cfg.parts)
    BY <1>3
  <2>3. idx \in Nat /\ idx <= n + 4
    BY <1>1, <1>2, <1>4, <2>2
  <2>4. \A i, j, z \in Nat : i <= j => i * z <= j * z
    OBVIOUS
  <2>5. idx * k <= (n + 4) * k
    BY <2>1, <2>2, <2>3, <2>4
  <2>6. (n + 6) * k = (n + 4) * k + 2 * k
    BY <2>1, <2>2
  <2>7. PICK p \in Nat : p = (n + 4) * k
    BY <2>1, <2>2
  <2>8. PICK q \in Nat : q = idx * k
    BY <2>1, <2>3
  <2>9. now <= q /\ q <= p /\ p + 2 * k <= ULL \div 2
    BY <1>2, <1>3, <2>1, <2>2, <2>5, <2>6, <2>7, <2>8, SMTT(30)
  <2>10. PICK h \in Nat : h = ULL \div 2
    BY ULLAssumption
  <2>11. now + 2 * k <= h
    BY <1>1, <2>9, <2>10
  <2>. QED  BY <2>1, <2>10, <2>11
<1>6. cur = Listed(cfg)[idx]
  BY <1>2 DEF cur
<1>7. TooSmallForGpt <=> DiskTooSmall(cfg)
  BY <1>2 DEF TooSmallForGpt, DiskTooSmall
<1>8. ListedAt(M, cfg, idx, cur)
  BY <1>4, <1>6
<1>9. cur \in Partition /\ cur.align \in 1 .. M /\ cur.size <= M
  BY <1>8 DEF ListedAt
<1>10. IF Wrapped(idx)
       THEN cur.offset = ULL + size - BackupSize /\ cur.size = BackupSize /\ idx > Len(cfg.parts)
       ELSE cur.offset <= M
  BY <1>2, <1>7, <1>8 DEF ListedAt, Wrapped
<1>11. M >= 4096 /\ hd.align \in 1 .. M /\ size <= M
  BY <1>1, <1>2, <1>3, SMT
<1>. QED  BY <1>1, <1>2, <1>5, <1>6, <1>7, <1>8, <1>9, <1>10, <1>11

\* A logical partition is in a partition table, so the alignment of the image
\* is at least a sector.
LEMMA ExtendedInTable ==
  ASSUME NEW M \in Nat, Fits(M), TypeInv, ListInv, SpaceInv(M), pc = "place", idx <= Len(parts),
         IsExtended
  PROVE  cur.inTable /\ hd.table # {} /\ hd.align >= Sector /\ idx <= Len(cfg.parts)
<1>1. cur.inTable
  BY DEF IsExtended
<1>2. /\ cfg \in Configs /\ ~OptionsRefused(cfg) /\ hd.align \in 1 .. M
      /\ hd.align = ImageAlign(cfg) /\ hd.table = TableType(cfg) /\ ListedAt(M, cfg, idx, cur)
  BY TurnNumbers, SMT
<1>3. TableType(cfg) # {} /\ idx <= Len(cfg.parts)
  BY <1>1, <1>2 DEF ListedAt
<1>4. cfg \in Config
  BY <1>2, ConfigsAssumption
<1>5. ImageAlign(cfg) % Sector = 0
  BY <1>2, <1>3, <1>4, TableTypeKnown
<1>6. hd.align >= Sector
  <2>1. PICK a \in 1 .. M : a = hd.align
    BY <1>2
  <2>2. a % 512 = 0
    BY <1>2, <1>5, <2>1, AreaSizes, SMT
  <2>3. a >= 512
    BY <2>2, SMT
  <2>. QED  BY <2>1, <2>3, AreaSizes, SMT
<1>. QED  BY <1>1, <1>2, <1>3, <1>6

\* The space reserved in front of the partition.
LEMMA ReservedRange ==
  ASSUME NEW M \in Nat, Fits(M), TypeInv, ListInv, SpaceInv(M), pc = "place", idx <= Len(parts)
  PROVE  /\ Reserved \in Nat /\ now <= Reserved /\ Reserved <= now + 2 * M
         /\ IsExtended => now + hd.align <= Reserved
<1>1. now \in Nat /\ now + 2 * Step(M) <= ULL \div 2 /\ hd.align \in 1 .. M /\ cur.align \in 1 .. M
  BY TurnNumbers, SMT
<1>2. now + 12 * M < ULL
  BY <1>1, ULLAssumption, SMT DEF Step
<1>3. CASE IsExtended
  <2>1. PICK v \in Nat : v = now + hd.align
    BY <1>1
  <2>2. v + cur.align < ULL /\ v < ULL
    BY <1>1, <1>2, <2>1, ULLAssumption, SMT
  <2>3. Plus(now, hd.align) = v
    BY <1>1, <2>1, <2>2, PlusExact, SMT
  <2>4. /\ RoundUp(v, cur.align) \in Nat
        /\ v <= RoundUp(v, cur.align) /\ RoundUp(v, cur.align) < v + cur.align
    BY <1>1, <2>2, RoundUpRange, SMT
  <2>5. Reserved = RoundUp(v, cur.align)
    BY <1>3, <2>3 DEF Reserved
  <2>. QED  BY <1>1, <2>1, <2>4, <2>5, SMT
<1>4. CASE ~IsExtended
  BY <1>1, <1>4, SMT DEF Reserved
<1>. QED  BY <1>3, <1>4

\* Only an area without an offset floats.
LEMMA FloatingHasNoOffset == IsFloatingBackup => cur.offset = 0
BY Zenon DEF IsFloatingBackup

\* The wrapped backup table is placed where it was put on the list.
LEMMA WrappedIsPlain ==
  ASSUME NEW M \in Nat, Fits(M), TypeInv, ListInv, SpaceInv(M), pc = "place", idx <= Len(parts),
         Wrapped(idx)
  PROVE  /\ cur.inTable = FALSE /\ cur.autoresize = FALSE /\ cur.image = NoImage
         /\ cur.offset = ULL + size - BackupSize /\ cur.size = BackupSize /\ cur.offset # 0
         /\ ~IsExtended /\ ~IsFloatingBackup /\ hd.table # {}
         /\ size < BackupSize /\ BackupSize <= M /\ BackupSize \in Nat
<1>1. /\ M >= 4096 /\ ListedAt(M, cfg, idx, cur) /\ idx > Len(cfg.parts) /\ hd.table = TableType(cfg)
      /\ cur.offset = ULL + size - BackupSize /\ cur.size = BackupSize /\ size \in Nat /\ cur.size <= M
      /\ now \in Nat /\ now + 2 * Step(M) <= ULL \div 2
  BY TurnNumbers, SMT
<1>2. cfg \in Configs /\ Len(cfg.parts) \in Nat /\ idx \in Nat
  BY TurnNumbers, FitsConfig, SMT
<1>3. TableType(cfg) # {} /\ AreaAt(M, cfg, idx - Len(cfg.parts), cur)
  BY <1>1, <1>2 DEF ListedAt
<1>4. cur.inTable = FALSE /\ cur.autoresize = FALSE /\ cur.image = NoImage
  BY <1>3 DEF AreaAt
<1>5. size < BackupSize
  BY DEF Wrapped, TooSmallForGpt
<1>6. cur.offset # 0
  BY <1>1, <1>5, AreaSizes, ULLAssumption, SMT
<1>7. ~IsExtended
  BY <1>4 DEF IsExtended
<1>8. BackupSize \in Nat
  BY AreaSizes, SMT
<1>. QED  BY <1>1, <1>3, <1>4, <1>5, <1>6, <1>7, <1>8, FloatingHasNoOffset

\* The end of the used space before the partition, and its offset.
LEMMA OffsetRange ==
  ASSUME NEW M \in Nat, Fits(M), TypeInv, ListInv, SpaceInv(M), pc = "place", idx <= Len(parts)
  PROVE  /\ NowBefore \in Nat /\ Reserved <= NowBefore /\ NowBefore <= now + 3 * M
         /\ Offset \in Nat
         /\ IF Wrapped(idx) THEN Offset = ULL + size - BackupSize /\ NowBefore = now
            ELSE Offset <= now + 3 * M
         /\ cur.offset = 0 /\ cur.inTable => Reserved <= Offset
         /\ cur.offset = 0 /\ cur.inTable /\ ~IsFloatingBackup => NowBefore <= Offset
         /\ IsFloatingBackup => Reserved <= Offset /\ NowBefore <= Offset + cur.size
         /\ cur.offset # 0 => Offset = cur.offset
<1>1. /\ now \in Nat /\ now + 2 * Step(M) <= ULL \div 2 /\ M >= 4096
      /\ cur \in Partition /\ cur.align \in 1 .. M /\ cur.size <= M
      /\ IF Wrapped(idx) THEN cur.offset = ULL + size - BackupSize ELSE cur.offset <= M
  BY TurnNumbers, SMT
<1>2. cur.offset \in Nat /\ cur.size \in Nat /\ cur.inTable \in BOOLEAN
  BY <1>1 DEF Partition
<1>3. now + 12 * M < ULL
  BY <1>1, ULLAssumption, SMT DEF Step
<1>4. Reserved \in Nat /\ now <= Reserved /\ Reserved <= now + 2 * M
  BY ReservedRange, SMT
<1>5. CASE IsFloatingBackup
  <2>1. cur.offset = 0 /\ ~Wrapped(idx)
    BY <1>5, FloatingHasNoOffset, WrappedIsPlain, SMT
  <2>2. PICK v \in Nat : v = Reserved + cur.size
    BY <1>2, <1>4
  <2>3. v <= now + 3 * M /\ v + 4096 < ULL /\ v < ULL
    BY <1>1, <1>2, <1>3, <1>4, <2>2, ULLAssumption, SMTT(30)
  <2>4. Plus(Reserved, cur.size) = v
    BY <1>2, <1>4, <2>2, <2>3, PlusExact, SMT
  <2>5. NowBefore = v
    BY <1>5, <2>4, Zenon DEF NowBefore
  <2>6. PICK r \in Nat : r = RoundUp(v, 4096) /\ v <= r /\ r < v + 4096
    BY <2>3, RoundUpRange, SMT
  <2>7. r < ULL /\ cur.size <= r
    BY <1>2, <1>4, <2>2, <2>3, <2>6, ULLAssumption, SMTT(30)
  <2>8. Minus(r, cur.size) = r - cur.size
    BY <1>2, <2>7, MinusExact, SMT
  <2>9. Offset = Minus(r, cur.size)
    BY <1>5, <2>5, <2>6, SMT DEF Offset
  <2>10. /\ Offset = r - cur.size /\ Reserved <= Offset /\ Offset \in Nat
         /\ Offset <= now + 3 * M /\ v <= Offset + cur.size
    BY <1>1, <1>2, <1>4, <2>2, <2>6, <2>8, <2>9, SMTT(30)
  <2>11. Reserved <= NowBefore /\ NowBefore <= now + 3 * M /\ NowBefore \in Nat
    BY <1>2, <1>4, <2>2, <2>3, <2>5, SMT
  <2>12. NowBefore <= Offset + cur.size
    BY <2>5, <2>10
  <2>. QED  BY <1>5, <2>1, <2>10, <2>11, <2>12, Zenon
<1>6. CASE ~IsFloatingBackup
  <2>1. NowBefore = Reserved
    BY <1>6, Zenon DEF NowBefore
  <2>2. Wrapped(idx) => NowBefore = now
    BY <2>1, WrappedIsPlain, Zenon DEF Reserved
  <2>3. CASE cur.offset = 0 /\ (cur.inTable \/ hd.table = {})
    <3>1. Offset = RoundUp(NowBefore, cur.align)
      BY <1>6, <2>3, SMT DEF Offset
    <3>2. NowBefore + cur.align < ULL
      BY <1>1, <1>3, <1>4, <2>1, ULLAssumption, SMT
    <3>3. Offset \in Nat /\ NowBefore <= Offset /\ Offset < NowBefore + cur.align
      BY <1>1, <1>4, <2>1, <3>1, <3>2, RoundUpRange, SMT
    <3>4. ~Wrapped(idx)
      BY <2>3, WrappedIsPlain, SMT
    <3>. QED  BY <1>1, <1>4, <1>6, <2>1, <2>3, <3>3, <3>4, SMT
  <2>4. CASE ~(cur.offset = 0 /\ (cur.inTable \/ hd.table = {}))
    <3>1. Offset = cur.offset
      BY <1>6, <2>4, SMT DEF Offset
    <3>2. cur.offset = 0 => cur.inTable = FALSE
      BY <1>2, <2>4
    <3>. QED  BY <1>1, <1>2, <1>4, <1>6, <2>1, <2>2, <3>1, <3>2, SMT
  <2>. QED  BY <2>3, <2>4
<1>. QED  BY <1>5, <1>6

\* An accepted autoresize partition ends inside the image: a room below zero is
\* a number of the upper half, and refused for its sign.
LEMMA RoomRange ==
  ASSUME NEW M \in Nat, Fits(M), TypeInv, ListInv, SpaceInv(M), pc = "place", idx <= Len(parts),
         cur.autoresize, ~AutoresizeRefused
  PROVE  ~Wrapped(idx) /\ Room \in Nat /\ Room > 0 /\ Offset + Room <= size
<1>1. /\ now \in Nat /\ now + 2 * Step(M) <= ULL \div 2 /\ M >= 4096
      /\ size \in Nat /\ size <= M /\ cur.align \in 1 .. M
  BY TurnNumbers, SMT
<1>2. ~Wrapped(idx)
  BY WrappedIsPlain, SMT
<1>3. Offset \in Nat /\ Offset <= now + 3 * M
  BY <1>2, OffsetRange, SMT
<1>4. M >= 65536
  BY TurnNumbers, FitsConfig, SMT
<1>5. PICK b \in 0 .. M : b = IF "gpt" \in hd.table THEN BackupSize ELSE 0
  BY <1>4, AreaSizes, SMT
<1>6. PICK h \in Nat : h = ULL \div 2 /\ 2 * h <= ULL /\ now + 12 * M <= h
  BY <1>1, ULLAssumption, SMT DEF Step
<1>7. PICK d \in Nat : d = Minus(size, Offset)
  <2>1. Minus(size, Offset) \in Nat
    <3>1. size \in Nat /\ Offset \in Nat
      BY <1>1, <1>3
    <3>. QED  BY <3>1, MinusType, Zenon
  <2>. QED  BY <2>1
<1>8. PICK e \in Nat : e = Minus(d, b)
  <2>1. b \in Nat
    BY <1>5
  <2>2. Minus(d, b) \in Nat
    BY <1>7, <2>1, MinusType, Zenon
  <2>. QED  BY <2>2
<1>9. Room = RoundDown(e, cur.align)
  BY <1>5, <1>7, <1>8, Zenon DEF Room
<1>10. Room \in Nat /\ Room <= e /\ e < Room + cur.align
  <2>1. cur.align \in Nat /\ cur.align > 0
    BY <1>1
  <2>2. /\ RoundDown(e, cur.align) \in Nat /\ RoundDown(e, cur.align) <= e
        /\ e < RoundDown(e, cur.align) + cur.align
    BY <1>8, <2>1, RoundDownRange, Zenon
  <2>. QED  BY <1>9, <2>2
<1>11. Signed(Room) > 0
  <2>1. ~(Signed(Room) <= 0)
    BY DEF AutoresizeRefused
  <2>2. Signed(Room) \in Int
    BY <1>10, ULLAssumption DEF Signed
  <2>. QED  BY <2>1, <2>2
<1>12. Room < h
  <2>1. Room >= h => Signed(Room) = Room - ULL
    BY <1>6, <1>10, ULLAssumption, SMT DEF Signed
  <2>2. e < ULL
    BY <1>8, ULLAssumption, SMT DEF Minus
  <2>. QED  BY <1>6, <1>11, <1>10, <2>1, <2>2, ULLAssumption, SMT
<1>13. Room > 0
  BY <1>6, <1>11, <1>10, <1>12, ULLAssumption, SMT DEF Signed
<1>14. CASE Offset <= size
  <2>1. d = size - Offset
    BY <1>1, <1>3, <1>6, <1>7, <1>14, MinusExact, ULLAssumption, SMT
  <2>2. CASE b <= d
    <3>1. e = d - b
      <4>1. d < ULL /\ b \in Nat
        BY <1>1, <1>3, <1>5, <1>6, <2>1, ULLAssumption, SMT
      <4>. QED  BY <1>7, <1>8, <2>2, <4>1, MinusExact, Zenon
    <3>. QED  BY <1>1, <1>2, <1>3, <1>5, <1>10, <1>13, <2>1, <3>1, SMTT(30)
  <2>3. CASE d < b
    <3>1. e = ULL + d - b
      BY <1>1, <1>5, <1>6, <1>8, <2>3, MinusBelowZero, ULLAssumption, SMT
    <3>. QED  BY <1>1, <1>5, <1>6, <1>10, <1>12, <3>1, ULLAssumption, SMT
  <2>. QED  BY <1>5, <2>2, <2>3, SMT
<1>15. CASE size < Offset
  <2>1. d = ULL + size - Offset
    BY <1>1, <1>3, <1>6, <1>7, <1>15, MinusBelowZero, ULLAssumption, SMT
  <2>2. b <= d /\ d < ULL
    BY <1>1, <1>3, <1>5, <1>6, <1>15, <2>1, ULLAssumption, SMT
  <2>3. e = d - b
    BY <1>5, <1>8, <2>2, MinusExact, SMT
  <2>. QED  BY <1>1, <1>3, <1>5, <1>6, <1>10, <1>12, <2>1, <2>3, ULLAssumption, SMT
<1>. QED  BY <1>1, <1>3, <1>14, <1>15, SMT

\* The size of an accepted partition, and that its image fits in it.
LEMMA FinalRange ==
  ASSUME NEW M \in Nat, Fits(M), TypeInv, ListInv, SpaceInv(M), pc = "place", idx <= Len(parts),
         ~PartitionRefused
  PROVE  /\ FinalSize \in Nat /\ FinalSize <= 2 * M
         /\ cur.autoresize => Offset + FinalSize <= size
         /\ Wrapped(idx) => FinalSize = BackupSize
         /\ cur.image # NoImage => cur.image \in Images /\ ImageSize[cur.image] \in Nat
                                   /\ ImageSize[cur.image] <= FinalSize
         /\ cur.size # 0 /\ cur.autoresize = FALSE => FinalSize = cur.size
<1>1. /\ cur \in Partition /\ cur.align \in 1 .. M /\ cur.size <= M /\ size \in Nat /\ size <= M
      /\ now \in Nat /\ now + 2 * Step(M) <= ULL \div 2
  BY TurnNumbers, SMT
<1>2. /\ cur.size \in Nat /\ cur.autoresize \in BOOLEAN /\ cur.inTable \in BOOLEAN
      /\ cur.image \in Images \cup {NoImage}
  BY <1>1 DEF Partition
<1>3. now + 12 * M < ULL
  BY <1>1, ULLAssumption, SMT DEF Step
<1>4. cur.image # NoImage =>
        cur.image \in Images /\ ImageSize[cur.image] \in Nat /\ ImageSize[cur.image] <= M
  BY <1>2, ImagesAssumption, ULLAssumption, SMT DEF Fits
<1>5. FinalSize \in Nat
  BY PlacedType, Zenon
<1>6. cur.image # NoImage => ImageSize[cur.image] <= FinalSize
  <2>1. ~(cur.image # NoImage /\ ImageSize[cur.image] > FinalSize)
    BY Zenon DEF PartitionRefused
  <2>. QED  BY <1>4, <1>5, <2>1, SMT
<1>7. cur.autoresize => Room \in Nat /\ Room > 0 /\ Offset + Room <= size
  <2>1. cur.autoresize => ~AutoresizeRefused
    BY Zenon DEF PartitionRefused
  <2>. QED  BY <2>1, RoomRange, Zenon
<1>8. Offset \in Nat
  BY OffsetRange, SMT
<1>9. CASE cur.autoresize
  <2>1. FinalSize = Room
    BY <1>7, <1>9, SMT DEF FinalSize
  <2>2. ~Wrapped(idx)
    BY <1>9, WrappedIsPlain, SMT
  <2>. QED  BY <1>1, <1>4, <1>5, <1>6, <1>7, <1>8, <1>9, <2>1, <2>2, SMT
<1>10. CASE ~cur.autoresize
  <2>1. CASE cur.image = NoImage \/ cur.size # 0
    <3>1. FinalSize = cur.size
      BY <1>10, <2>1, Zenon DEF FinalSize
    <3>2. Wrapped(idx) => cur.size = BackupSize
      BY WrappedIsPlain, Zenon
    <3>. QED  BY <1>1, <1>2, <1>4, <1>6, <1>10, <3>1, <3>2, SMT
  <2>2. CASE cur.image # NoImage /\ cur.size = 0
    <3>1. PICK z \in Nat : z = ImageSize[cur.image] /\ z <= M
      BY <1>4, <2>2
    <3>2. FinalSize = IF cur.inTable THEN RoundUp(z, cur.align) ELSE z
      BY <1>10, <2>2, <3>1, Zenon DEF FinalSize
    <3>3. RoundUp(z, cur.align) \in Nat /\ RoundUp(z, cur.align) < z + cur.align
      <4>1. cur.align \in Nat /\ cur.align > 0 /\ z + cur.align < ULL
        BY <1>1, <1>3, <3>1, ULLAssumption, SMT
      <4>. QED  BY <3>1, <4>1, RoundUpRange, Zenon
    <3>4. FinalSize <= 2 * M
      BY <1>1, <3>1, <3>2, <3>3, SMT
    <3>5. ~Wrapped(idx)
      BY <2>2, WrappedIsPlain, Zenon
    <3>. QED  BY <1>4, <1>5, <1>6, <1>10, <2>2, <3>4, <3>5, SMT
  <2>. QED  BY <2>1, <2>2
<1>. QED  BY <1>9, <1>10

\* An accepted partition moves the end of the used space forward by at most a
\* step, and lies below it unless it is the wrapped backup table.
LEMMA PlacedRange ==
  ASSUME NEW M \in Nat, Fits(M), TypeInv, ListInv, SpaceInv(M), pc = "place", idx <= Len(parts),
         ~PartitionRefused
  PROVE  /\ now \in Nat /\ Offset \in Nat /\ FinalSize \in Nat /\ FinalSize > 0
         /\ NowBefore \in Nat /\ now <= NowBefore /\ NowAfter \in Nat /\ NowBefore <= NowAfter
         /\ NowAfter <= now + Step(M) /\ NowAfter < ULL
         /\ IsExtended => now + hd.align <= NowBefore /\ NowBefore <= Offset
         /\ IF Wrapped(idx) THEN Offset = ULL + size - BackupSize /\ Offset + FinalSize = ULL + size
            ELSE Offset + FinalSize <= NowAfter
<1>1. /\ now \in Nat /\ size \in Nat /\ size <= M /\ now + 2 * Step(M) <= ULL \div 2
  BY TurnNumbers, SMT
<1>2. now + 12 * M < ULL /\ Step(M) = 6 * M
  BY <1>1, ULLAssumption, SMT DEF Step
<1>3. /\ NowBefore \in Nat /\ Reserved \in Nat /\ now <= Reserved /\ Reserved <= NowBefore
      /\ NowBefore <= now + 3 * M /\ Offset \in Nat
      /\ IF Wrapped(idx) THEN Offset = ULL + size - BackupSize ELSE Offset <= now + 3 * M
  BY OffsetRange, ReservedRange, SMT
<1>4. FinalSize \in Nat /\ FinalSize <= 2 * M /\ (Wrapped(idx) => FinalSize = BackupSize)
  BY FinalRange, Zenon
<1>5. FinalSize > 0
  <2>1. ~(FinalSize = 0)
    BY Zenon DEF PartitionRefused
  <2>. QED  BY <1>4, <2>1
<1>6. PartitionEnd(Placed) = Plus(Offset, FinalSize)
  BY PlacedType, Zenon DEF PartitionEnd
<1>7. /\ PartitionEnd(Placed) \in Nat /\ PartitionEnd(Placed) <= now + Step(M)
      /\ IF Wrapped(idx) THEN Offset = ULL + size - BackupSize /\ Offset + FinalSize = ULL + size
         ELSE PartitionEnd(Placed) = Offset + FinalSize
  <2>1. CASE Wrapped(idx)
    <3>1. Offset + FinalSize = ULL + size
      BY <1>1, <1>3, <1>4, <2>1, AreaSizes, ULLAssumption, SMT
    <3>2. size < ULL
      BY <1>1, <1>2, ULLAssumption
    <3>3. (ULL + size) % ULL = size
      BY <1>1, <3>2, ULLAssumption
    <3>4. PartitionEnd(Placed) = size
      BY <1>6, <3>1, <3>3 DEF Plus
    <3>. QED  BY <1>1, <1>2, <1>3, <2>1, <3>1, <3>4
  <2>2. CASE ~Wrapped(idx)
    <3>1. Offset + FinalSize <= now + 5 * M
      BY <1>1, <1>3, <1>4, <2>2
    <3>2. Offset + FinalSize < ULL
      BY <1>1, <1>2, <1>3, <1>4, <3>1, ULLAssumption
    <3>3. Plus(Offset, FinalSize) = Offset + FinalSize
      BY <1>3, <1>4, <3>2, PlusExact
    <3>. QED  BY <1>1, <1>2, <1>3, <1>4, <1>6, <2>2, <3>1, <3>3
  <2>. QED  BY <2>1, <2>2
<1>8. /\ NowAfter \in Nat /\ NowBefore <= NowAfter /\ NowAfter <= now + Step(M)
      /\ PartitionEnd(Placed) <= NowAfter
  BY <1>1, <1>2, <1>3, <1>7, MaxOfBounds DEF NowAfter
<1>9. NowAfter < ULL
  BY <1>1, <1>2, <1>8, ULLAssumption
<1>10. ASSUME IsExtended PROVE now + hd.align <= NowBefore /\ NowBefore <= Offset
  <2>1. now + hd.align <= Reserved
    BY <1>10, ReservedRange, SMT
  <2>2. ~(NowBefore > Offset)
    BY <1>10, Zenon DEF PartitionRefused, SpaceRefused
  <2>3. hd.align \in Nat
    BY TurnNumbers, SMT
  <2>. QED  BY <1>1, <1>3, <2>1, <2>2, <2>3
<1>11. IF Wrapped(idx) THEN Offset = ULL + size - BackupSize /\ Offset + FinalSize = ULL + size
       ELSE Offset + FinalSize <= NowAfter
  BY <1>7, <1>8
<1>. QED  BY <1>1, <1>3, <1>4, <1>5, <1>8, <1>9, <1>10, <1>11

-----------------------------------------------------------------------------
(***************************************************************************)
(* The inductive invariant.                                                *)
(***************************************************************************)
HdInv(M) == TypeInv /\ ListInv /\ SpaceInv(M) /\ AreasDisjoint

\* Nothing is laid out at first.
LEMMA InitHdInv == ASSUME NEW M \in Nat, Init PROVE HdInv(M)
<1>1. TypeInv
  BY InitTypes
<1>2. pc = "options" /\ ret = "none" /\ idx = 1 /\ now = 0 /\ ~Settled
      /\ hd.fileSize = 0 /\ hd.extLba = 0
  BY DEF Init, Settled
<1>3. Done = {}
  BY <1>2 DEF Done
<1>. QED  BY <1>1, <1>2, <1>3 DEF HdInv, ListInv, SpaceInv, AreasDisjoint

\* The first free byte behind the partition table.
LEMMA FirstFreeRange ==
  ASSUME NEW M \in Nat, Fits(M), NEW c \in Configs
  PROVE  /\ FirstFree(c) \in Nat /\ FirstFree(c) <= Step(M)
         /\ "gpt" \in TableType(c) => FirstFree(c) = GptLocation(c) + 16384
<1>1. GptLocation(c) \in Nat /\ GptLocation(c) <= M /\ M >= 65536
  BY FitsConfig, SMT
<1>2. Step(M) = 6 * M /\ GptLocation(c) + 16384 < ULL
  BY <1>1, WidthIsAmple, ULLAssumption, SMT
<1>3. Plus(GptLocation(c), 16384) = GptLocation(c) + 16384
  BY <1>1, <1>2, PlusExact, SMT
<1>. QED  BY <1>1, <1>2, <1>3, AreaSizes, SMT DEF FirstFree

\* SetupOptions appends the areas of the partition table and lays out nothing.
LEMMA SetupOptionsHd ==
  ASSUME NEW M \in Nat, Fits(M), HdInv(M), SetupOptions PROVE HdInv(M)'
<1>1. TypeInv /\ TypeInv' /\ ListInv /\ cfg \in Configs /\ cfg' = cfg
  BY SetupOptionsTypes DEF HdInv, TypeInv, SetupOptions
<1>2. cfg \in Config /\ ImageAlign(cfg) > 0
  BY <1>1, ConfigsAssumption, ImageAlignPositive
<1>3. parts' = Listed(cfg) /\ size' = ImageSizeOf(cfg)
  BY Zenon DEF SetupOptions, Listed, ImageSizeOf
<1>4. /\ pc = "options" /\ pc' = "place" /\ ret' = ret /\ ~OptionsRefused(cfg)
      /\ hd'.align = ImageAlign(cfg) /\ hd'.table = TableType(cfg) /\ now' = FirstFree(cfg)
      /\ idx' = idx
  BY DEF SetupOptions
<1>5. idx' = 1 /\ ret' = "none" /\ Done' = {}
  BY <1>1, <1>4 DEF TypeInv, ListInv, Done
<1>6. Settled'
  BY <1>2, <1>4 DEF Settled
<1>7. FirstFree(cfg) \in Nat /\ FirstFree(cfg) <= 1 * Step(M)
  BY <1>1, FirstFreeRange, SMT DEF Step
<1>8. ListInv'
  BY <1>1, <1>3, <1>4, <1>5, <1>6 DEF ListInv
<1>9. SpaceInv(M)'
  <2>1. FirstFree(cfg)' <= now' /\ now' <= idx' * Step(M) /\ ret' # "ok"
    <3>1. FirstFree(cfg)' = FirstFree(cfg)
      BY <1>1
    <3>. QED  BY <1>4, <1>5, <1>7, <3>1
  <2>. QED  BY <1>5, <2>1 DEF SpaceInv
<1>. QED  BY <1>1, <1>5, <1>8, <1>9 DEF HdInv, AreasDisjoint

\* The list and what is placed after an accepted turn.
LEMMA PlacedList ==
  ASSUME NEW M \in Nat, Fits(M), HdInv(M), PlacePartition
  PROVE  /\ pc = "place" /\ idx \in 1 .. Len(parts) /\ ~PartitionRefused /\ Settled /\ Settled'
         /\ TypeInv /\ ListInv /\ SpaceInv(M) /\ TypeInv' /\ cfg' = cfg /\ size' = size
         /\ pc' = pc /\ ret' = ret /\ ret = "none" /\ idx' = idx + 1 /\ now' = NowAfter
         /\ hd'.table = hd.table /\ hd'.align = hd.align
         /\ hd'.extLba = ExtendedLba /\ hd'.fileSize = FileSize
         /\ Len(parts') = Len(parts) /\ parts'[idx] = Placed
         /\ \A i \in 1 .. Len(parts) : i # idx => parts'[i] = parts[i]
         /\ Done' = Done \cup {idx} /\ idx \notin Done /\ Done \subseteq 1 .. Len(parts)
<1>1. TypeInv /\ ListInv /\ SpaceInv(M) /\ pc = "place" /\ idx <= Len(parts) /\ ~PartitionRefused
  BY DEF HdInv, PlacePartition
<1>2. /\ parts \in Seq(Partition) /\ idx \in 1 .. Len(parts) /\ hd.align > 0 /\ Placed \in Partition
      /\ hd \in [align: Nat, ext: 0 .. 4, extLba: Nat, table: SUBSET {"mbr", "gpt"},
                 gptLoc: Nat, fileSize: Nat]
  BY <1>1, PlacedType DEF TypeInv, TypeOK
<1>3. /\ parts' = [parts EXCEPT ![idx] = Placed] /\ idx' = idx + 1 /\ now' = NowAfter
      /\ hd' = [hd EXCEPT !.extLba = ExtendedLba, !.fileSize = FileSize]
      /\ pc' = pc /\ ret' = ret /\ cfg' = cfg /\ size' = size
  BY DEF PlacePartition
<1>4. /\ hd'.table = hd.table /\ hd'.align = hd.align
      /\ hd'.extLba = ExtendedLba /\ hd'.fileSize = FileSize
  BY <1>2, <1>3
<1>5. /\ Len(parts') = Len(parts) /\ parts'[idx] = Placed
      /\ \A i \in 1 .. Len(parts) : i # idx => parts'[i] = parts[i]
  BY <1>2, <1>3
<1>6. TypeInv'
  BY <1>1, PlacePartitionTypes
<1>7. Done' = Done \cup {idx} /\ idx \notin Done /\ Done \subseteq 1 .. Len(parts)
  BY <1>2, <1>3 DEF Done
<1>8. Settled /\ Settled'
  BY <1>2, <1>4 DEF Settled
<1>9. ret = "none"
  BY <1>1 DEF ListInv
<1>. QED  BY <1>1, <1>2, <1>3, <1>4, <1>5, <1>6, <1>7, <1>8, <1>9

\* An accepted turn keeps the order of the list and the image, the place in the
\* table and the given offset of each partition.
LEMMA PlacePartitionList ==
  ASSUME NEW M \in Nat, Fits(M), HdInv(M), PlacePartition PROVE ListInv'
<1> DEFINE Kept(i, p) ==
      /\ p.image = Listed(cfg)[i].image
      /\ p.inTable = Listed(cfg)[i].inTable
      /\ p.extended => p.inTable
      /\ Listed(cfg)[i].offset # 0 => p.offset = Listed(cfg)[i].offset
      /\ Listed(cfg)[i].size # 0 /\ ~Listed(cfg)[i].autoresize => p.size = Listed(cfg)[i].size
<1>1. /\ pc = "place" /\ idx \in 1 .. Len(parts) /\ ~PartitionRefused /\ Settled /\ Settled'
      /\ TypeInv /\ ListInv /\ SpaceInv(M) /\ cfg' = cfg /\ size' = size
      /\ pc' = pc /\ ret' = ret /\ ret = "none" /\ idx' = idx + 1
      /\ hd'.table = hd.table /\ hd'.align = hd.align
      /\ Len(parts') = Len(parts) /\ parts'[idx] = Placed
      /\ \A i \in 1 .. Len(parts) : i # idx => parts'[i] = parts[i]
      /\ Done' = Done \cup {idx} /\ idx \notin Done /\ Done \subseteq 1 .. Len(parts)
  BY PlacedList
<1>2. idx <= Len(parts)
  BY <1>1
<1>3. /\ ~OptionsRefused(cfg) /\ hd.align = ImageAlign(cfg) /\ hd.table = TableType(cfg)
      /\ Len(parts) = Len(Listed(cfg)) /\ size = ImageSizeOf(cfg)
      /\ \A i \in 1 .. Len(parts) : i >= idx => parts[i] = Listed(cfg)[i]
      /\ \A i \in Done : Kept(i, parts[i])
  BY <1>1 DEF ListInv
<1>4. cur = Listed(cfg)[idx]
  BY <1>1, <1>2, TurnNumbers, SMT
<1>5. Kept(idx, Placed)
  <2>1. /\ Placed.image = cur.image /\ Placed.inTable = cur.inTable /\ Placed.offset = Offset
        /\ Placed.size = FinalSize /\ Placed.extended = IsExtended /\ cur \in Partition
    BY <1>1, <1>2, PlacedType, Zenon
  <2>2. IsExtended => cur.inTable
    BY Zenon DEF IsExtended
  <2>3. cur.offset # 0 => Offset = cur.offset
    BY <1>1, <1>2, OffsetRange, Zenon
  <2>4. cur.size # 0 /\ cur.autoresize = FALSE => FinalSize = cur.size
    BY <1>1, <1>2, FinalRange, Zenon
  <2>5. cur.autoresize \in BOOLEAN
    BY <2>1 DEF Partition
  <2>. QED  BY <1>4, <2>1, <2>2, <2>3, <2>4, <2>5
<1>6. \A i \in Done' : Kept(i, parts'[i])
  <2> SUFFICES ASSUME NEW i \in Done' PROVE Kept(i, parts'[i])
    OBVIOUS
  <2>1. CASE i = idx
    BY <1>1, <1>5, <2>1
  <2>2. CASE i # idx
    <3>1. i \in Done /\ parts'[i] = parts[i]
      BY <1>1, <2>2
    <3>. QED  BY <1>3, <3>1
  <2>. QED  BY <2>1, <2>2
<1>7. \A i \in 1 .. Len(parts') : i >= idx' => parts'[i] = Listed(cfg)[i]
  <2> SUFFICES ASSUME NEW i \in 1 .. Len(parts), i >= idx + 1 PROVE parts'[i] = Listed(cfg)[i]
    BY <1>1
  <2>1. i # idx /\ i >= idx
    BY <1>1
  <2>. QED  BY <1>1, <1>3, <2>1
<1> HIDE DEF Kept
<1>8. Listed(cfg)' = Listed(cfg) /\ ImageAlign(cfg)' = ImageAlign(cfg)
      /\ TableType(cfg)' = TableType(cfg) /\ ImageSizeOf(cfg)' = ImageSizeOf(cfg)
      /\ (OptionsRefused(cfg)' <=> OptionsRefused(cfg))
  BY <1>1, Zenon
<1>. QED  BY <1>1, <1>3, <1>6, <1>7, <1>8 DEF ListInv, Kept

\* An accepted turn is compatible with everything placed before it: logical
\* partitions and the wrapped backup table because they lie above it.
LEMMA PlacedDisjoint ==
  ASSUME NEW M \in Nat, Fits(M), HdInv(M), PlacePartition, NEW j \in Done
  PROVE  Disk!Compatible(Area(Placed), Area(parts[j]))
<1>1. /\ pc = "place" /\ idx \in 1 .. Len(parts) /\ idx <= Len(parts) /\ ~PartitionRefused
      /\ TypeInv /\ ListInv /\ SpaceInv(M) /\ Settled
  BY PlacedList
<1>2. /\ Placed \in Partition /\ Placed.offset = Offset /\ Placed.size = FinalSize
  BY <1>1, PlacedType, Zenon
<1>3. /\ now \in Nat /\ Offset \in Nat /\ FinalSize \in Nat /\ NowBefore \in Nat
      /\ now <= NowBefore /\ NowAfter \in Nat /\ NowBefore <= NowAfter /\ NowAfter < ULL
      /\ hd.align \in Nat
      /\ IsExtended => now + hd.align <= NowBefore /\ NowBefore <= Offset
      /\ IF Wrapped(idx) THEN Offset = ULL + size - BackupSize /\ Offset + FinalSize = ULL + size
         ELSE Offset + FinalSize <= NowAfter
  BY <1>1, PlacedRange, SMT DEF TypeInv, TypeOK
<1>4. j \in 1 .. idx - 1 /\ parts[j] \in Partition /\ ~Wrapped(j)
  <2>1. parts \in Seq(Partition) /\ j \in 1 .. idx - 1 /\ j # Len(parts) /\ j \in 1 .. Len(parts)
    BY <1>1 DEF Done, TypeInv, TypeOK
  <2>. QED  BY <2>1 DEF Wrapped
<1>5. End(parts[j]) \in Nat /\ End(parts[j]) <= now
  BY <1>1, <1>4 DEF SpaceInv, Partition, End
<1>6. Area(parts[j]).to = End(parts[j]) /\ Area(Placed).from = Offset
  BY <1>2 DEF Area
<1>7. End(parts[j]) <= Offset => Disk!Compatible(Area(Placed), Area(parts[j]))
  BY <1>6 DEF Disk!Compatible, Disk!Apart
<1>8. CASE Wrapped(idx)
  <2>1. now + 2 * Step(M) <= ULL \div 2 /\ size \in Nat /\ M >= 65536
    BY <1>1, TurnNumbers, FitsConfig, SMT
  <2>2. now < ULL + size - BackupSize
    BY <1>3, <2>1, AreaSizes, ULLAssumption, SMT DEF Step
  <2>. QED  BY <1>3, <1>5, <1>7, <1>8, <2>2
<1>9. CASE IsExtended
  <2>1. now <= Offset
    BY <1>3, <1>9
  <2>. QED  BY <1>3, <1>5, <1>7, <2>1
<1>10. CASE ~Wrapped(idx) /\ ~IsExtended
  <2>1. ~Overlaps(Placed, parts[j])
    BY <1>1, <1>4, <1>10, Zenon DEF PartitionRefused, SpaceRefused
  <2>2. End(Placed) < ULL /\ End(parts[j]) < ULL
    BY <1>2, <1>3, <1>5, <1>10, ULLAssumption DEF End
  <2>. QED  BY <1>2, <1>4, <2>1, <2>2, OverlapSound
<1>. QED  BY <1>8, <1>9, <1>10

\* An accepted turn keeps the invariant.
LEMMA PlacePartitionHd ==
  ASSUME NEW M \in Nat, Fits(M), HdInv(M), PlacePartition PROVE HdInv(M)'
<1>1. /\ pc = "place" /\ idx \in 1 .. Len(parts) /\ idx <= Len(parts) /\ ~PartitionRefused
      /\ Settled /\ Settled'
      /\ TypeInv /\ ListInv /\ SpaceInv(M) /\ TypeInv' /\ cfg' = cfg /\ size' = size
      /\ ret' = ret /\ ret = "none" /\ idx' = idx + 1 /\ now' = NowAfter
      /\ hd'.table = hd.table /\ Len(parts') = Len(parts) /\ parts'[idx] = Placed
      /\ \A i \in 1 .. Len(parts) : i # idx => parts'[i] = parts[i]
      /\ Done' = Done \cup {idx} /\ idx \notin Done /\ Done \subseteq 1 .. Len(parts)
  BY PlacedList
<1>2. /\ Placed.offset = Offset /\ Placed.size = FinalSize
  BY <1>1, PlacedType, Zenon
<1>3. /\ now \in Nat /\ Offset \in Nat /\ FinalSize \in Nat /\ NowBefore \in Nat
      /\ now <= NowBefore /\ NowAfter \in Nat /\ NowBefore <= NowAfter
      /\ NowAfter <= now + Step(M)
      /\ ~Wrapped(idx) => Offset + FinalSize <= NowAfter
  BY <1>1, PlacedRange, Zenon
<1>4. ListInv'
  BY PlacePartitionList
<1>5. \A i \in 1 .. Len(parts) : Wrapped(i)' <=> Wrapped(i)
  BY <1>1 DEF Wrapped, TooSmallForGpt
<1>6. /\ FirstFree(cfg) <= now /\ now <= idx * Step(M) /\ FirstFree(cfg)' = FirstFree(cfg)
      /\ \A i \in Done : End(parts[i]) <= now \/ Wrapped(i)
      /\ FirstFree(cfg) \in Nat
  BY <1>1, FirstFreeRange, SMT DEF SpaceInv, TypeInv
<1>7. FirstFree(cfg) <= NowAfter
  BY <1>3, <1>6
<1>8. NowAfter <= (idx + 1) * Step(M)
  <2>1. Step(M) \in Nat /\ idx \in Nat
    BY <1>1 DEF Step
  <2>2. \A k, z \in Nat : (k + 1) * z = k * z + z /\ k * z \in Nat
    OBVIOUS
  <2>3. (idx + 1) * Step(M) = idx * Step(M) + Step(M) /\ idx * Step(M) \in Nat
    BY <2>1, <2>2, Zenon
  <2>. QED  BY <1>3, <1>6, <2>1, <2>3
<1>9. \A i \in Done' : End(parts'[i]) <= now' \/ (ret' # "ok" /\ Wrapped(i)')
  <2> SUFFICES ASSUME NEW i \in Done', ~Wrapped(i) PROVE End(parts'[i]) <= now'
    BY <1>1, <1>5
  <2>1. CASE i = idx
    BY <1>1, <1>2, <1>3, <2>1 DEF End
  <2>2. CASE i # idx
    <3>1. i \in Done /\ parts'[i] = parts[i] /\ parts[i] \in Partition
      BY <1>1, <2>2, SMTT(30) DEF TypeInv, TypeOK
    <3>2. End(parts[i]) <= now /\ End(parts[i]) \in Nat
      BY <1>6, <3>1 DEF End, Partition
    <3>. QED  BY <1>1, <1>3, <3>1, <3>2
  <2>. QED  BY <2>1, <2>2
<1>10. SpaceInv(M)'
  BY <1>1, <1>6, <1>7, <1>8, <1>9 DEF SpaceInv
<1>11. AreasDisjoint'
  <2> SUFFICES ASSUME NEW i \in Done', NEW j \in Done', i < j
               PROVE  Disk!Compatible(Area(parts'[j]), Area(parts'[i]))
    BY DEF AreasDisjoint
  <2>1. CASE j = idx
    <3>1. i \in Done /\ parts'[i] = parts[i]
      BY <1>1, <2>1
    <3>. QED  BY <1>1, <2>1, <3>1, PlacedDisjoint
  <2>2. CASE j # idx
    <3>1. j \in Done /\ i \in Done /\ parts'[i] = parts[i] /\ parts'[j] = parts[j]
      BY <1>1, <2>2 DEF Done
    <3>. QED  BY <3>1 DEF HdInv, AreasDisjoint
  <2>. QED  BY <2>1, <2>2
<1>. QED  BY <1>1, <1>4, <1>10, <1>11 DEF HdInv

-----------------------------------------------------------------------------
\* An area of the partition table, by what places it.
AreaIs(p, o, z) == p.offset = o /\ p.size = z /\ p.autoresize = FALSE /\ p.image = NoImage

\* Where the backup table is declared to start.
BackupStart(c) == IF ImageSizeOf(c) # 0 THEN Minus(ImageSizeOf(c), BackupSize) ELSE 0

\* The areas behind n declared partitions on the list.
AreasListed(c, n) ==
  /\ n \in Nat
  /\ "gpt" \in TableType(c) => Len(Listed(c)) = n + 4
  /\ "gpt" \notin TableType(c) => Len(Listed(c)) = n + 1
  /\ AreaIs(Listed(c)[n + 1], Sector - MbrTail, MbrTail)
  /\ "gpt" \in TableType(c) =>
       /\ AreaIs(Listed(c)[n + 2], Sector, Sector)
       /\ AreaIs(Listed(c)[n + 3], GptLocation(c), 16384)
       /\ Listed(c)[n + 4].name = BackupName
       /\ AreaIs(Listed(c)[n + 4], BackupStart(c), BackupSize)

\* Where the areas of the partition table are on the list.
LEMMA ListedAreas ==
  ASSUME NEW c \in Config, TableType(c) # {} PROVE AreasListed(c, Len(c.parts))
<1> DEFINE areas == TableAreas(c, ImageSizeOf(c))
<1>0. PICK n : n = Len(c.parts)
  OBVIOUS
<1> SUFFICES AreasListed(c, n)
  BY <1>0
<1>1. n \in Nat /\ ImageSizeOf(c) \in Nat
  BY <1>0 DEF Config, ImageSizeOf
<1>2. /\ Len(Listed(c)) = n + Len(areas)
      /\ \A i \in 1 .. Len(Listed(c)) : i > n => Listed(c)[i] = areas[i - n]
  <2>1. \A i \in 1 .. Len(Listed(c)) :
          Listed(c)[i] = IF i <= n THEN Prepared(c.parts[i], c) ELSE areas[i - n]
    BY <1>0, ListedElements
  <2>2. Len(Listed(c)) = n + Len(areas)
    BY <1>0, ListedElements
  <2>. QED  BY <1>1, <2>1, <2>2
<1>3. \A k \in 1 .. Len(areas) : Listed(c)[n + k] = areas[k]
  <2> SUFFICES ASSUME NEW k \in 1 .. Len(areas) PROVE Listed(c)[n + k] = areas[k]
    OBVIOUS
  <2>1. areas \in Seq(Partition)
    BY ListedElements
  <2> HIDE DEF areas
  <2>2. Len(areas) \in Nat
    BY <2>1
  <2>3. PICK i \in Nat : i = n + k
    BY <1>1, <2>2
  <2>4. i \in 1 .. Len(Listed(c)) /\ i > n /\ i - n = k
    BY <1>1, <1>2, <2>2, <2>3
  <2>. QED  BY <1>2, <2>3, <2>4
<1>4. \A name \in Names : \A o, z \in Nat : AreaIs(FakePartition(name, o, z), o, z)
  BY FakePartitionFields, SMT DEF AreaIs
<1>5. /\ Sector \in Nat /\ MbrTail \in Nat /\ Sector - MbrTail \in Nat /\ BackupSize \in Nat
      /\ (GptSectors - 1) * Sector \in Nat /\ (GptSectors - 1) * Sector = 16384
  BY AreaSizes, SMT DEF MbrTail
<1>6. MbrArea = FakePartition(MbrName, Sector - MbrTail, MbrTail)
  BY Zenon DEF MbrArea, MbrName
<1>7. AreaIs(MbrArea, Sector - MbrTail, MbrTail)
  BY <1>4, <1>5, <1>6, AreaNames, SMT
<1>8. CASE "gpt" \notin TableType(c)
  <2>1. areas = <<MbrArea>>
    BY <1>8 DEF TableAreas
  <2> HIDE DEF areas
  <2>2. Len(areas) = 1 /\ areas[1] = MbrArea
    BY <2>1
  <2>3. Listed(c)[n + 1] = areas[1] /\ Len(Listed(c)) = n + 1
    BY <1>1, <1>2, <2>2
  <2>. QED  BY <1>1, <1>7, <1>8, <2>2, <2>3 DEF AreasListed
<1>9. CASE "gpt" \in TableType(c)
  <2>1. PICK o \in Nat : o = IF ImageSizeOf(c) # 0 THEN Minus(ImageSizeOf(c), BackupSize) ELSE 0
    BY <1>1, <1>5, MinusType
  <2>2. /\ Len(areas) = 4 /\ areas[1] = MbrArea
        /\ areas[2] = FakePartition(HeaderName, Sector, Sector)
        /\ areas[3] = FakePartition(ArrayName, GptLocation(c), (GptSectors - 1) * Sector)
        /\ areas[4] = FakePartition(BackupName, o, BackupSize)
    BY <1>1, <1>9, <2>1, GptAreasList
  <2> HIDE DEF areas
  <2>3. /\ Len(Listed(c)) = n + 4 /\ Listed(c)[n + 1] = areas[1] /\ Listed(c)[n + 2] = areas[2]
        /\ Listed(c)[n + 3] = areas[3] /\ Listed(c)[n + 4] = areas[4]
    BY <1>2, <1>3, <2>2, SMT
  <2>4. AreaIs(areas[2], Sector, Sector)
    BY <1>4, <1>5, <2>2, AreaNames, SMT
  <2>5. AreaIs(areas[3], GptLocation(c), 16384)
    <3>1. GptLocation(c) \in Nat
      BY <1>5 DEF Config, GptLocation
    <3>2. AreaIs(areas[3], GptLocation(c), (GptSectors - 1) * Sector)
      BY <1>4, <1>5, <2>2, <3>1, AreaNames, SMT
    <3>. QED  BY <1>5, <3>2, SMT
  <2>6. areas[4].name = BackupName /\ AreaIs(areas[4], BackupStart(c), BackupSize)
    BY <1>4, <1>5, <2>1, <2>2, AreaNames, FakePartitionFields, SMTT(30) DEF BackupStart
  <2>. QED  BY <1>1, <1>7, <1>9, <2>2, <2>3, <2>4, <2>5, <2>6, SMT DEF AreasListed
<1>. QED  BY <1>8, <1>9

\* An area with a size and an offset of its own keeps both when it is placed.
LEMMA KeptArea ==
  ASSUME NEW M \in Nat, HdInv(M), Settled
  PROVE  \A i \in Done : \A o, z \in Nat :
           o # 0 /\ z # 0 /\ AreaIs(Listed(cfg)[i], o, z) =>
             parts[i].image = NoImage /\ parts[i].offset = o /\ parts[i].size = z
BY Zenon DEF HdInv, ListInv, AreaIs

\* The areas of a GPT, once all are placed.
LEMMA PlacedAreas ==
  ASSUME NEW M \in Nat, Fits(M), HdInv(M), Settled, ret # "ok", "gpt" \in hd.table, idx > Len(parts)
  PROVE  \E i, j, k \in Done :
           /\ i < j /\ j < k /\ \A l \in {i, j, k} : parts[l] \in Partition /\ parts[l].image = NoImage
           /\ parts[i].offset = Sector - MbrTail /\ parts[i].size = MbrTail
           /\ parts[j].offset = Sector /\ parts[j].size = Sector
           /\ parts[k].offset = GptLocation(cfg) /\ parts[k].size = 16384
<1>1. TypeInv /\ ListInv /\ cfg \in Configs /\ cfg \in Config
  BY FitsConfig DEF HdInv, TypeInv
<1>2. /\ parts \in Seq(Partition) /\ Done = 1 .. Len(parts)
  BY <1>1 DEF TypeInv, TypeOK, Done
<1>3. /\ "gpt" \in TableType(cfg) /\ Len(parts) = Len(Listed(cfg))
  BY <1>1 DEF ListInv
<1>4. PICK n \in Nat : n = Len(cfg.parts)
  BY <1>1, FitsConfig
<1>5. /\ Len(parts) = n + 4 /\ AreaIs(Listed(cfg)[n + 1], Sector - MbrTail, MbrTail)
      /\ AreaIs(Listed(cfg)[n + 2], Sector, Sector)
      /\ AreaIs(Listed(cfg)[n + 3], GptLocation(cfg), 16384)
  <2>1. AreasListed(cfg, n)
    BY <1>1, <1>3, <1>4, ListedAreas
  <2>. QED  BY <1>3, <2>1, SMT DEF AreasListed
<1>6. n + 1 \in Done /\ n + 2 \in Done /\ n + 3 \in Done /\ n + 1 < n + 2 /\ n + 2 < n + 3
  BY <1>2, <1>5
<1>7. /\ Sector \in Nat /\ Sector # 0 /\ MbrTail \in Nat /\ MbrTail # 0
      /\ Sector - MbrTail \in Nat /\ Sector - MbrTail # 0 /\ 16384 \in Nat /\ 16384 # 0
      /\ GptLocation(cfg) \in Nat /\ GptLocation(cfg) # 0
  BY <1>1, FitsConfig, AreaSizes, SMT DEF MbrTail
<1>8. /\ parts[n + 1].image = NoImage /\ parts[n + 1].offset = Sector - MbrTail
      /\ parts[n + 1].size = MbrTail
      /\ parts[n + 2].image = NoImage /\ parts[n + 2].offset = Sector /\ parts[n + 2].size = Sector
      /\ parts[n + 3].image = NoImage /\ parts[n + 3].offset = GptLocation(cfg)
      /\ parts[n + 3].size = 16384
  <2>1. /\ parts[n + 1].image = NoImage /\ parts[n + 1].offset = Sector - MbrTail
        /\ parts[n + 1].size = MbrTail
    BY <1>5, <1>6, <1>7, KeptArea, SMTT(30)
  <2>2. /\ parts[n + 2].image = NoImage /\ parts[n + 2].offset = Sector
        /\ parts[n + 2].size = Sector
    BY <1>5, <1>6, <1>7, KeptArea, SMT
  <2>3. /\ parts[n + 3].image = NoImage /\ parts[n + 3].offset = GptLocation(cfg)
        /\ parts[n + 3].size = 16384
    BY <1>5, <1>6, <1>7, KeptArea, SMT
  <2>. QED  BY <2>1, <2>2, <2>3
<1>9. parts[n + 1] \in Partition /\ parts[n + 2] \in Partition /\ parts[n + 3] \in Partition
  BY <1>2, <1>6
<1>. QED  BY <1>6, <1>8, <1>9

\* A disk too small for its backup table is refused in the end: the array cannot
\* overlap the MBR and the header, so with the array alone the used space ends
\* behind the image.
LEMMA TooSmallRefused ==
  ASSUME NEW M \in Nat, Fits(M), HdInv(M), pc = "place", idx > Len(parts), TooSmallForGpt
  PROVE  FinishRefused
<1>1. /\ TypeInv /\ ListInv /\ SpaceInv(M) /\ AreasDisjoint /\ cfg \in Configs
      /\ now \in Nat /\ size \in Nat
  BY DEF HdInv, TypeInv, TypeOK
<1>2. Settled /\ ret # "ok" /\ "gpt" \in hd.table /\ size # 0 /\ size < BackupSize
      /\ hd.table = TableType(cfg)
  BY <1>1 DEF TooSmallForGpt, TypeInv, TypeOK, Settled, ListInv
<1>3. PICK i, j, k \in Done :
        /\ i < j /\ j < k /\ \A l \in {i, j, k} : parts[l] \in Partition /\ parts[l].image = NoImage
        /\ parts[i].offset = Sector - MbrTail /\ parts[i].size = MbrTail
        /\ parts[j].offset = Sector /\ parts[j].size = Sector
        /\ parts[k].offset = GptLocation(cfg) /\ parts[k].size = 16384
  BY <1>2, PlacedAreas, SMT
<1>4. Disk!Compatible(Area(parts[k]), Area(parts[i])) /\ Disk!Compatible(Area(parts[k]), Area(parts[j]))
  <2>1. i < k
    BY <1>3 DEF Done
  <2>. QED  BY <1>1, <1>3, <2>1 DEF AreasDisjoint
<1>5. ASSUME NEW l \in {i, j}
      PROVE  End(parts[k]) <= parts[l].offset \/ End(parts[l]) <= parts[k].offset
  <2>1. parts[l].image = NoImage
    <3>1. l \in {i, j, k}
      OBVIOUS
    <3>. QED  BY <1>3, <3>1, SMT
  <2>2. /\ Area(parts[l]).holes = {} /\ Area(parts[l]).from = parts[l].offset
        /\ Area(parts[l]).to = End(parts[l])
    BY <2>1 DEF Area
  <2>3. Area(parts[k]).from = parts[k].offset /\ Area(parts[k]).to = End(parts[k])
    BY DEF Area
  <2>4. Disk!Compatible(Area(parts[k]), Area(parts[l]))
    BY <1>4
  <2>. QED  BY <2>2, <2>3, <2>4 DEF Disk!Compatible, Disk!Apart, Disk!SharesOnlyHole
<1>6. GptLocation(cfg) \in Nat
  BY <1>1, FitsConfig, SMT
<1>7. GptLocation(cfg) >= 1024
  <2>1. End(parts[k]) = GptLocation(cfg) + 16384 /\ End(parts[i]) = 512 /\ End(parts[j]) = 1024
        /\ parts[i].offset = 440 /\ parts[j].offset = 512
    BY <1>3, <1>6, AreaSizes, SMT DEF End, MbrTail
  <2>2. End(parts[k]) <= parts[i].offset \/ End(parts[i]) <= parts[k].offset
    BY <1>5
  <2>3. End(parts[k]) <= parts[j].offset \/ End(parts[j]) <= parts[k].offset
    BY <1>5
  <2>. QED  BY <1>3, <1>6, <2>1, <2>2, <2>3, SMT
<1>8. FirstFree(cfg) = GptLocation(cfg) + 16384
  BY <1>1, <1>2, FirstFreeRange, SMT
<1>9. FirstFree(cfg) <= now
  BY <1>1, <1>2 DEF SpaceInv
<1>10. now > size /\ size > 0
  BY <1>1, <1>2, <1>6, <1>7, <1>8, <1>9, AreaSizes, SMT
<1>. QED  BY <1>10 DEF FinishRefused

\* The checks at the end keep the invariant.
LEMMA FinishSetupHd ==
  ASSUME NEW M \in Nat, Fits(M), HdInv(M), FinishSetup
  PROVE  /\ HdInv(M)' /\ pc = "place" /\ idx > Len(parts) /\ Settled /\ Settled' /\ ret' = "ok"
         /\ \A i \in Done : End(parts[i]) <= now
         /\ now <= size' /\ (size # 0 => size' = size) /\ ~TooSmallForGpt
<1>1. /\ TypeInv /\ ListInv /\ SpaceInv(M) /\ AreasDisjoint /\ TypeInv'
      /\ now \in Nat /\ size \in Nat
  <2>1. TypeInv /\ ListInv /\ SpaceInv(M) /\ AreasDisjoint
    BY DEF HdInv
  <2>2. now \in Nat /\ size \in Nat
    BY <2>1 DEF TypeInv, TypeOK
  <2>3. pc = "place"
    BY DEF FinishSetup
  <2>. QED  BY <2>1, <2>2, <2>3, OtherStepsTypes, Zenon
<1>2. /\ pc = "place" /\ idx > Len(parts) /\ ~FinishRefused /\ pc' = "done" /\ ret' = "ok"
      /\ cfg' = cfg /\ parts' = parts /\ idx' = idx /\ now' = now
      /\ size' = IF size = 0 THEN now ELSE size
  BY DEF FinishSetup
<1>3. hd'.align = hd.align /\ hd'.table = hd.table
  BY <1>1 DEF FinishSetup, TypeInv, TypeOK
<1>4. Settled /\ Settled' /\ ret # "ok"
  BY <1>1, <1>2, <1>3 DEF Settled, TypeInv, TypeOK, ListInv
<1>5. ~TooSmallForGpt
  BY <1>2, TooSmallRefused
<1>6. \A i \in Done : End(parts[i]) <= now
  BY <1>1, <1>4, <1>5 DEF SpaceInv, Wrapped
<1>7. now <= size' /\ (size # 0 => size' = size)
  BY <1>1, <1>2 DEF FinishRefused
<1>8. Done' = Done
  BY <1>2 DEF Done
<1>9. AreasDisjoint'
  BY <1>1, <1>2, <1>8 DEF AreasDisjoint
<1>10. Listed(cfg)' = Listed(cfg) /\ ImageAlign(cfg)' = ImageAlign(cfg)
       /\ TableType(cfg)' = TableType(cfg) /\ FirstFree(cfg)' = FirstFree(cfg)
       /\ (OptionsRefused(cfg)' <=> OptionsRefused(cfg))
  BY <1>2, Zenon
<1>11. ListInv'
  BY <1>1, <1>2, <1>3, <1>4, <1>8, <1>10 DEF ListInv
<1>12. SpaceInv(M)'
  BY <1>1, <1>2, <1>4, <1>6, <1>7, <1>8, <1>10 DEF SpaceInv
<1>. QED  BY <1>1, <1>2, <1>4, <1>5, <1>6, <1>7, <1>9, <1>11, <1>12 DEF HdInv

\* The steps that refuse the image, and stuttering, keep it.
LEMMA OtherStepsHd ==
  ASSUME NEW M \in Nat, HdInv(M), (pc # "done" /\ Refuse) \/ UNCHANGED vars
  PROVE  HdInv(M)'
<1>1. TypeInv /\ ListInv /\ SpaceInv(M) /\ AreasDisjoint /\ TypeInv'
  BY OtherStepsTypes DEF HdInv
<1>2. UNCHANGED <<cfg, hd, size, parts, idx, now>>
  BY DEF Refuse, vars
<1>3. (pc # "done" /\ pc' = "done" /\ ret' = "einval") \/ (pc' = pc /\ ret' = ret)
  BY DEF Refuse, vars
<1>4. /\ Listed(cfg)' = Listed(cfg) /\ ImageAlign(cfg)' = ImageAlign(cfg)
      /\ TableType(cfg)' = TableType(cfg) /\ FirstFree(cfg)' = FirstFree(cfg)
      /\ ImageSizeOf(cfg)' = ImageSizeOf(cfg)
      /\ (OptionsRefused(cfg)' <=> OptionsRefused(cfg))
  BY <1>2, Zenon
<1>5. Done' = Done /\ (Settled' <=> Settled) /\ \A i : Wrapped(i)' <=> Wrapped(i)
  BY <1>2 DEF Done, Settled, Wrapped, TooSmallForGpt
<1>6. AreasDisjoint'
  BY <1>1, <1>2, <1>5 DEF AreasDisjoint
<1>7. ListInv'
  <2>1. CASE Settled
    <3>1. pc' # "options" /\ (pc' # "done" => ret' = "none") /\ (ret' # "ok" => ret # "ok")
      <4>1. pc # "options" /\ (pc # "done" => ret = "none")
        BY <1>1, <2>1 DEF ListInv
      <4>. QED  BY <1>3, <4>1
    <3>. QED  BY <1>1, <1>2, <1>4, <1>5, <2>1, <3>1 DEF ListInv
  <2>2. CASE ~Settled
    <3>1. pc' # "place" /\ ret' # "ok" /\ (pc' # "done" => ret' = "none")
      BY <1>1, <1>3, <2>2 DEF ListInv
    <3>. QED  BY <1>1, <1>2, <1>5, <2>2, <3>1 DEF ListInv
  <2>. QED  BY <2>1, <2>2
<1>8. SpaceInv(M)'
  BY <1>1, <1>2, <1>3, <1>4, <1>5 DEF SpaceInv
<1>. QED  BY <1>1, <1>6, <1>7, <1>8 DEF HdInv

\* Which steps there are.
LEMMA StepCases ==
  ASSUME [Next]_vars
  PROVE  \/ SetupOptions \/ PlacePartition \/ FinishSetup \/ (pc # "done" /\ Refuse)
         \/ UNCHANGED vars
BY DEF Next, Setup, Returned, RefuseOptions, BlockDeviceError, RefusePartition, RefuseFinish

\* The invariant holds in every execution.
LEMMA HdInvariant == ASSUME NEW M \in Nat, Fits(M) PROVE Spec => []HdInv(M)
<1>1. Init => HdInv(M)
  BY InitHdInv
<1>2. HdInv(M) /\ [Next]_vars => HdInv(M)'
  <2> SUFFICES ASSUME HdInv(M), [Next]_vars PROVE HdInv(M)'
    OBVIOUS
  <2>1. CASE SetupOptions
    BY <2>1, SetupOptionsHd
  <2>2. CASE PlacePartition
    BY <2>2, PlacePartitionHd
  <2>3. CASE FinishSetup
    BY <2>3, FinishSetupHd
  <2>4. CASE (pc # "done" /\ Refuse) \/ UNCHANGED vars
    BY <2>4, OtherStepsHd
  <2>. QED  BY <2>1, <2>2, <2>3, <2>4, StepCases
<1>. QED  BY <1>1, <1>2, PTL DEF Spec

-----------------------------------------------------------------------------
(***************************************************************************)
(* The properties of single states.                                        *)
(***************************************************************************)
\* The used space stays in the lower half of the integers.
LEMMA NowBelowWidth ==
  ASSUME NEW M \in Nat, Fits(M), HdInv(M) PROVE now \in Nat /\ now < ULL
<1>1. /\ TypeInv /\ ListInv /\ SpaceInv(M) /\ cfg \in Configs /\ now \in Nat
      /\ idx \in 1 .. Len(parts) + 1 /\ parts \in Seq(Partition)
  BY DEF HdInv, TypeInv, TypeOK
<1>2. CASE ~Settled
  BY <1>1, <1>2, ULLAssumption DEF ListInv
<1>3. CASE Settled
  <2>1. ~OptionsRefused(cfg) /\ Len(parts) = Len(Listed(cfg)) /\ now <= idx * Step(M)
    BY <1>1, <1>3 DEF ListInv, SpaceInv
  <2>2. PICK n \in Nat : n = Len(cfg.parts) /\ (n + 6) * Step(M) <= ULL \div 2
    BY <1>1, FitsConfig, SMT
  <2>3. Len(Listed(cfg)) <= n + 4
    BY <1>1, <2>1, <2>2, ListedNumbers, SMT
  <2>4. idx \in Nat /\ idx <= n + 6 /\ Step(M) \in Nat
    BY <1>1, <2>1, <2>2, <2>3 DEF Step
  <2>5. \A i, j, z \in Nat : i <= j => i * z <= j * z /\ i * z \in Nat /\ j * z \in Nat
    OBVIOUS
  <2>6. n + 6 \in Nat
    OBVIOUS
  <2>7. PICK p, q \in Nat : p = idx * Step(M) /\ q = (n + 6) * Step(M) /\ p <= q
    BY <2>4, <2>5, <2>6
  <2>8. ULL \div 2 \in Nat /\ ULL \div 2 < ULL
    BY ULLAssumption
  <2>9. now <= p /\ q <= ULL \div 2
    BY <2>1, <2>2, <2>7
  <2>. QED  BY <1>1, <2>7, <2>8, <2>9, ULLAssumption
<1>. QED  BY <1>2, <1>3

\* No sum of the layout reaches the width of its integers, whatever the
\* partitions, as long as the numbers of the configuration fit.
THEOREM SumsFit == ASSUME NEW M \in Nat, Fits(M) PROVE Spec => []NothingWraps
<1>1. HdInv(M) => NothingWraps
  <2> SUFFICES ASSUME HdInv(M), ~TooSmallForGpt
               PROVE  /\ \A i \in Done : End(parts[i]) < ULL
                      /\ pc = "place" /\ idx <= Len(parts) =>
                           now + hd.align + 2 * cur.align + cur.size < ULL
    BY DEF NothingWraps
  <2>1. TypeInv /\ ListInv /\ SpaceInv(M) /\ now \in Nat /\ now < ULL
    BY NowBelowWidth DEF HdInv
  <2>2. ASSUME NEW i \in Done PROVE End(parts[i]) < ULL
    <3>1. Settled
      BY <2>1 DEF ListInv, Done
    <3>2. End(parts[i]) <= now
      BY <2>1, <3>1 DEF SpaceInv, Wrapped
    <3>3. End(parts[i]) \in Nat
      <4>1. parts[i] \in Partition
        BY <2>1 DEF Done, TypeInv, TypeOK
      <4>. QED  BY <4>1 DEF End, Partition
    <3>. QED  BY <2>1, <3>2, <3>3, ULLAssumption
  <2>3. ASSUME pc = "place", idx <= Len(parts)
        PROVE  now + hd.align + 2 * cur.align + cur.size < ULL
    <3>1. /\ now + 2 * Step(M) <= ULL \div 2 /\ hd.align \in 1 .. M /\ cur.align \in 1 .. M
          /\ cur \in Partition /\ cur.size <= M
      BY <2>1, <2>3, TurnNumbers, SMT
    <3>2. cur.size \in Nat
      BY <3>1 DEF Partition
    <3>. QED  BY <2>1, <3>1, <3>2, ULLAssumption DEF Step
  <2>. QED  BY <2>2, <2>3
<1>. QED  BY <1>1, HdInvariant, PTL

\* Two areas of the disk share bytes only in a declared hole of the earlier one,
\* also on disks too small for their backup table.
THEOREM AreasNeverClash == ASSUME NEW M \in Nat, Fits(M) PROVE Spec => []AreasDisjoint
<1>1. HdInv(M) => AreasDisjoint
  BY DEF HdInv
<1>. QED  BY <1>1, HdInvariant, PTL

\* An accepted layout lies inside the image: the one with a wrapped backup table
\* is never accepted.
THEOREM LayoutInImage == ASSUME NEW M \in Nat, Fits(M) PROVE Spec => []AreasInImage
<1>1. HdInv(M) => AreasInImage
  <2> SUFFICES ASSUME HdInv(M), ret = "ok", NEW i \in DOMAIN parts
               PROVE  End(parts[i]) <= size
    BY DEF AreasInImage
  <2>1. /\ TypeInv /\ ListInv /\ SpaceInv(M) /\ parts \in Seq(Partition) /\ now \in Nat
        /\ idx \in Nat /\ size \in Nat
    BY DEF HdInv, TypeInv, TypeOK
  <2>2. Settled
    BY <2>1 DEF ListInv
  <2>3. idx > Len(parts) /\ now <= size /\ \A k \in Done : End(parts[k]) <= now
    BY <2>1, <2>2 DEF SpaceInv
  <2>4. i \in Done /\ parts[i] \in Partition
    BY <2>1, <2>3 DEF Done
  <2>5. End(parts[i]) \in Nat
    BY <2>4 DEF End, Partition
  <2>. QED  BY <2>1, <2>3, <2>4, <2>5
<1>. QED  BY <1>1, HdInvariant, PTL

-----------------------------------------------------------------------------
(***************************************************************************)
(* What depends on the order of the turns.                                 *)
(***************************************************************************)
\* Everything placed before an accepted turn ends below the used space.
LEMMA PlacedBelowNow ==
  ASSUME NEW M \in Nat, Fits(M), HdInv(M), pc = "place", idx <= Len(parts), NEW j \in Done
  PROVE  parts[j] \in Partition /\ End(parts[j]) \in Nat /\ End(parts[j]) <= now
<1>1. TypeInv /\ ListInv /\ SpaceInv(M)
  BY DEF HdInv
<1>2. parts[j] \in Partition /\ j # Len(parts) /\ Settled
  BY <1>1 DEF TypeInv, TypeOK, Done, Settled
<1>3. End(parts[j]) <= now
  BY <1>1, <1>2 DEF SpaceInv, Wrapped
<1>. QED  BY <1>2, <1>3 DEF End, Partition

\* A table partition without an offset is placed behind the used space.
LEMMA AutoPlacedStep ==
  ASSUME NEW M \in Nat, Fits(M), HdInv(M), AutoPlacedAfter, [Next]_vars PROVE AutoPlacedAfter'
<1>1. CASE PlacePartition
  <2>1. /\ pc = "place" /\ idx \in 1 .. Len(parts) /\ idx <= Len(parts) /\ ~PartitionRefused
        /\ Settled /\ TypeInv /\ ListInv /\ SpaceInv(M) /\ cfg' = cfg /\ parts'[idx] = Placed
        /\ \A i \in 1 .. Len(parts) : i # idx => parts'[i] = parts[i]
        /\ Done' = Done \cup {idx} /\ Done \subseteq 1 .. Len(parts)
    BY <1>1, PlacedList
  <2>2. Placed.offset = Offset /\ Placed.inTable = cur.inTable
    BY <2>1, PlacedType, Zenon
  <2>3. /\ now \in Nat /\ cfg \in Configs /\ ListedAt(M, cfg, idx, cur)
        /\ Offset \in Nat /\ Reserved \in Nat /\ now <= Reserved
        /\ cur.offset = 0 /\ cur.inTable => Reserved <= Offset
    BY <2>1, TurnNumbers, OffsetRange, ReservedRange, SMT
  <2>4. cur.inTable => cur.offset = cfg.parts[idx].offset
    BY <2>3 DEF ListedAt
  <2>5. FirstFree(cfg) \in Nat /\ FirstFree(cfg) <= now /\ FirstFree(cfg)' = FirstFree(cfg)
    BY <2>1, <2>3, FirstFreeRange, SMT DEF SpaceInv
  <2>6. \A j \in Done : End(parts[j]) \in Nat /\ End(parts[j]) <= now
    BY <2>1, PlacedBelowNow, Zenon
  <2>7. ASSUME NEW i \in Done', parts'[i].inTable, cfg.parts[i].offset = 0
        PROVE  FirstFree(cfg) <= parts'[i].offset
               /\ \A j \in 1 .. i - 1 : End(parts'[j]) <= parts'[i].offset
    <3>1. CASE i = idx
      <4>1. now <= Offset
        BY <2>1, <2>2, <2>3, <2>4, <2>7, <3>1
      <4>2. \A j \in 1 .. idx - 1 : parts'[j] = parts[j] /\ j \in Done
        BY <2>1 DEF Done
      <4>3. \A j \in 1 .. idx - 1 : End(parts'[j]) <= Offset
        BY <2>3, <2>6, <4>1, <4>2
      <4>. QED  BY <2>1, <2>2, <2>3, <2>5, <3>1, <4>1, <4>3
    <3>2. CASE i # idx
      <4>1. i \in Done /\ parts'[i] = parts[i] /\ \A j \in 1 .. i - 1 : parts'[j] = parts[j]
        BY <2>1, <3>2 DEF Done
      <4>. QED  BY <2>7, <4>1 DEF AutoPlacedAfter
    <3>. QED  BY <3>1, <3>2
  <2>. QED  BY <2>1, <2>5, <2>7 DEF AutoPlacedAfter
<1>2. CASE SetupOptions
  <2>1. idx' = 1
    BY <1>2 DEF SetupOptions, HdInv, TypeInv
  <2>. QED  BY <2>1 DEF AutoPlacedAfter, Done
<1>3. CASE FinishSetup \/ (pc # "done" /\ Refuse) \/ UNCHANGED vars
  <2>1. UNCHANGED <<cfg, parts, idx>>
    BY <1>3 DEF FinishSetup, Refuse, vars
  <2>2. FirstFree(cfg)' = FirstFree(cfg)
    BY <2>1
  <2>. QED  BY <2>1, <2>2 DEF AutoPlacedAfter, Done
<1>. QED  BY <1>1, <1>2, <1>3, StepCases

\* A table partition that leaves its offset to the program comes after everything
\* declared before it and after the partition table.
THEOREM AutoPlacement == ASSUME NEW M \in Nat, Fits(M) PROVE Spec => []AutoPlacedAfter
<1>1. Init => AutoPlacedAfter
  BY DEF Init, AutoPlacedAfter, Done
<1>2. HdInv(M) /\ AutoPlacedAfter /\ [Next]_vars => AutoPlacedAfter'
  BY AutoPlacedStep
<1>. QED  BY <1>1, <1>2, HdInvariant, PTL DEF Spec

\* The first boot record: none is recorded while no logical partition is placed,
\* and it lies in the used space.
BootInv ==
  /\ hd.extLba <= now
  /\ hd.extLba = 0 => \A i \in Done : ~parts[i].extended
  /\ BootRecordRoom

\* An accepted logical partition leaves room for its boot record, behind the
\* first one.
LEMMA PlacedBootRecord ==
  ASSUME NEW M \in Nat, Fits(M), HdInv(M), PlacePartition, hd.extLba <= now
  PROVE  /\ ExtendedLba \in Nat /\ ExtendedLba <= NowAfter
         /\ ~IsExtended => ExtendedLba = hd.extLba
         /\ IsExtended => /\ ExtendedLba # 0 /\ ExtendedLba <= Offset - hd.align
                          /\ now <= Offset - hd.align
                          /\ hd.extLba = 0 => ExtendedLba = Offset - hd.align
         /\ hd.extLba # 0 => ExtendedLba = hd.extLba
<1>1. /\ pc = "place" /\ idx \in 1 .. Len(parts) /\ idx <= Len(parts) /\ ~PartitionRefused
      /\ Settled /\ TypeInv /\ ListInv /\ SpaceInv(M)
  BY PlacedList
<1>2. hd.extLba \in Nat /\ hd.align \in Nat /\ now \in Nat /\ cfg \in Configs
  BY <1>1 DEF TypeInv, TypeOK
<1>3. /\ Offset \in Nat /\ FinalSize \in Nat /\ NowBefore \in Nat /\ now <= NowBefore
      /\ NowAfter \in Nat /\ NowBefore <= NowAfter /\ NowAfter < ULL
      /\ IsExtended => now + hd.align <= NowBefore /\ NowBefore <= Offset
      /\ ~Wrapped(idx) => Offset + FinalSize <= NowAfter
  BY <1>1, PlacedRange, Zenon
<1>4. CASE ~IsExtended
  <2>1. ExtendedLba = hd.extLba
    BY <1>4, Zenon DEF ExtendedLba
  <2>. QED  BY <1>2, <1>3, <1>4, <2>1
<1>5. CASE IsExtended
  <2>1. ~Wrapped(idx) /\ hd.table # {} /\ hd.table = TableType(cfg)
    BY <1>1, <1>5, WrappedIsPlain, ExtendedInTable, TurnNumbers, SMT
  <2>2. FirstFree(cfg) > 0 /\ FirstFree(cfg) \in Nat
    <3>1. TableType(cfg) # {} => FirstFree(cfg) >= Sector
      <4>1. GptLocation(cfg) \in Nat
        BY <1>2, FitsConfig, SMT
      <4>2. "gpt" \in TableType(cfg) => FirstFree(cfg) = GptLocation(cfg) + 16384
        BY <1>2, FirstFreeRange, SMT
      <4>. QED  BY <4>1, <4>2, AreaSizes, SMT DEF FirstFree
    <3>. QED  BY <1>2, <2>1, <3>1, FirstFreeRange, AreaSizes, SMT
  <2>3. now > 0
    BY <1>1, <1>2, <2>2 DEF SpaceInv
  <2>4. Minus(Offset, hd.align) = Offset - hd.align
    <3>1. hd.align <= Offset /\ Offset < ULL
      BY <1>2, <1>3, <1>5, <2>1, ULLAssumption
    <3>. QED  BY <1>2, <1>3, <3>1, MinusExact
  <2>5. ExtendedLba = IF hd.extLba = 0 THEN Offset - hd.align ELSE hd.extLba
    BY <1>5, <2>4, Zenon DEF ExtendedLba
  <2>6. now <= Offset - hd.align /\ Offset <= NowAfter
    BY <1>2, <1>3, <1>5, <2>1
  <2>7. Offset - hd.align \in Nat
    BY <1>2, <1>3, <2>6
  <2>. QED  BY <1>2, <1>3, <1>5, <2>3, <2>5, <2>6, <2>7
<1>. QED  BY <1>4, <1>5

\* Every step keeps the boot records in order.
LEMMA BootStep ==
  ASSUME NEW M \in Nat, Fits(M), HdInv(M), BootInv, [Next]_vars PROVE BootInv'
<1>1. CASE PlacePartition
  <2>1. /\ pc = "place" /\ idx \in 1 .. Len(parts) /\ idx <= Len(parts) /\ TypeInv
        /\ now' = NowAfter /\ hd'.align = hd.align /\ hd'.extLba = ExtendedLba
        /\ parts'[idx] = Placed /\ \A i \in 1 .. Len(parts) : i # idx => parts'[i] = parts[i]
        /\ Done' = Done \cup {idx} /\ Done \subseteq 1 .. Len(parts)
    BY <1>1, PlacedList
  <2>2. Placed.offset = Offset /\ Placed.extended = IsExtended /\ Offset \in Nat
    BY <2>1, PlacedType, Zenon
  <2>3. hd.align \in Nat /\ now \in Nat
    BY <2>1 DEF TypeInv, TypeOK
  <2>4. /\ ExtendedLba \in Nat /\ ExtendedLba <= NowAfter
        /\ ~IsExtended => ExtendedLba = hd.extLba
        /\ IsExtended => /\ ExtendedLba # 0 /\ ExtendedLba <= Offset - hd.align
                         /\ now <= Offset - hd.align
        /\ hd.extLba # 0 => ExtendedLba = hd.extLba
    BY <1>1, PlacedBootRecord DEF BootInv
  <2>5. \A j \in Done : End(parts[j]) \in Nat /\ End(parts[j]) <= now
    BY <2>1, PlacedBelowNow, Zenon
  <2>6. ExtendedLba = 0 => \A i \in Done' : ~parts'[i].extended
    <3>1. ASSUME ExtendedLba = 0, NEW i \in Done' PROVE ~parts'[i].extended
      <4>1. ~IsExtended /\ hd.extLba = 0
        BY <2>4, <3>1
      <4>2. CASE i = idx
        BY <2>1, <2>2, <4>1, <4>2
      <4>3. CASE i # idx
        BY <2>1, <3>1, <4>1, <4>3 DEF BootInv
      <4>. QED  BY <4>2, <4>3
    <3>. QED  BY <3>1
  <2>7. ASSUME NEW i \in Done', parts'[i].extended
        PROVE  /\ ExtendedLba <= parts'[i].offset - hd.align
               /\ \A j \in 1 .. i - 1 : End(parts'[j]) <= parts'[i].offset - hd.align
    <3>1. CASE i = idx
      <4>1. IsExtended
        BY <2>1, <2>2, <2>7, <3>1
      <4>2. \A j \in 1 .. idx - 1 : parts'[j] = parts[j] /\ j \in Done
        BY <2>1 DEF Done
      <4>3. \A j \in 1 .. idx - 1 : End(parts'[j]) <= Offset - hd.align
        BY <2>2, <2>3, <2>4, <2>5, <4>1, <4>2
      <4>. QED  BY <2>1, <2>2, <2>4, <3>1, <4>1, <4>3
    <3>2. CASE i # idx
      <4>1. i \in Done /\ parts'[i] = parts[i] /\ \A j \in 1 .. i - 1 : parts'[j] = parts[j]
        BY <2>1, <3>2 DEF Done
      <4>2. ExtendedLba = hd.extLba
        BY <2>4, <2>7, <4>1 DEF BootInv
      <4>. QED  BY <2>7, <4>1, <4>2 DEF BootInv, BootRecordRoom
    <3>. QED  BY <3>1, <3>2
  <2>. QED  BY <2>1, <2>4, <2>6, <2>7 DEF BootInv, BootRecordRoom
<1>2. CASE SetupOptions
  <2>1. idx' = 1 /\ hd'.extLba = 0 /\ now' \in Nat
    BY <1>2, SetupOptionsTypes DEF SetupOptions, HdInv, TypeInv, TypeOK
  <2>2. Done' = {}
    BY <2>1 DEF Done
  <2>. QED  BY <2>1, <2>2 DEF BootInv, BootRecordRoom
<1>3. CASE FinishSetup \/ (pc # "done" /\ Refuse) \/ UNCHANGED vars
  <2>1. UNCHANGED <<parts, idx, now>>
    BY <1>3 DEF FinishSetup, Refuse, vars
  <2>2. hd'.extLba = hd.extLba /\ hd'.align = hd.align
    BY <1>3 DEF FinishSetup, Refuse, vars, HdInv, TypeInv, TypeOK
  <2>. QED  BY <2>1, <2>2 DEF BootInv, BootRecordRoom, Done
<1>. QED  BY <1>1, <1>2, <1>3, StepCases

\* In front of every logical partition there is room for its boot record, and
\* none lies before the start of the extended partition.
THEOREM BootRecordsHaveRoom == ASSUME NEW M \in Nat, Fits(M) PROVE Spec => []BootRecordRoom
<1>1. Init => BootInv
  BY DEF Init, BootInv, BootRecordRoom, Done
<1>2. HdInv(M) /\ BootInv /\ [Next]_vars => BootInv'
  BY BootStep
<1>3. BootInv => BootRecordRoom
  BY DEF BootInv
<1>. QED  BY <1>1, <1>2, <1>3, HdInvariant, PTL DEF Spec

-----------------------------------------------------------------------------
(***************************************************************************)
(* The size of the output file.                                            *)
(***************************************************************************)
\* The announced file size reaches to the end of what is copied and of every
\* boot record so far, and no further than the used space.
Covers(p) ==
  /\ p.image # NoImage => p.offset + ImageSize[p.image] <= hd.fileSize
  /\ p.extended => p.offset - hd.align + Sector <= hd.fileSize

FileInv ==
  /\ hd.fileSize <= IF ret = "ok" THEN size ELSE now
  /\ \A i \in Done : Covers(parts[i])

\* An accepted turn moves it forward to the end of what it copies.
LEMMA PlacedFileSize ==
  ASSUME NEW M \in Nat, Fits(M), HdInv(M), PlacePartition, hd.fileSize <= now
  PROVE  /\ FileSize \in Nat /\ hd.fileSize <= FileSize /\ FileSize <= NowAfter
         /\ cur.image # NoImage =>
              ImageSize[cur.image] \in Nat /\ Offset + ImageSize[cur.image] <= FileSize
         /\ IsExtended => Offset - hd.align + Sector <= FileSize
<1>1. /\ pc = "place" /\ idx \in 1 .. Len(parts) /\ idx <= Len(parts) /\ ~PartitionRefused
      /\ Settled /\ TypeInv /\ ListInv /\ SpaceInv(M)
  BY PlacedList
<1>2. hd.fileSize \in Nat /\ hd.align \in Nat
  BY <1>1 DEF TypeInv, TypeOK
<1>3. /\ now \in Nat /\ Offset \in Nat /\ FinalSize \in Nat /\ NowBefore \in Nat
      /\ now <= NowBefore /\ NowAfter \in Nat /\ NowBefore <= NowAfter /\ NowAfter < ULL
      /\ IsExtended => now + hd.align <= NowBefore /\ NowBefore <= Offset
      /\ ~Wrapped(idx) => Offset + FinalSize <= NowAfter
  BY <1>1, PlacedRange, Zenon
<1>4. cur.image # NoImage =>
        /\ ~Wrapped(idx) /\ ImageSize[cur.image] \in Nat
        /\ Offset + ImageSize[cur.image] <= NowAfter
  <2>1. cur.image # NoImage => ImageSize[cur.image] \in Nat /\ ImageSize[cur.image] <= FinalSize
    BY <1>1, FinalRange, Zenon
  <2>2. cur.image # NoImage => ~Wrapped(idx)
    BY <1>1, WrappedIsPlain, Zenon
  <2>. QED  BY <1>3, <2>1, <2>2
<1>5. IsExtended =>
        /\ Minus(Offset, hd.align) = Offset - hd.align
        /\ Plus(Minus(Offset, hd.align), Sector) = Offset - hd.align + Sector
        /\ now <= Offset - hd.align + Sector /\ Offset - hd.align + Sector <= Offset
        /\ Offset <= NowAfter
  <2>1. SUFFICES ASSUME IsExtended
                 PROVE  /\ Minus(Offset, hd.align) = Offset - hd.align
                        /\ Plus(Minus(Offset, hd.align), Sector) = Offset - hd.align + Sector
                        /\ now <= Offset - hd.align + Sector
                        /\ Offset - hd.align + Sector <= Offset
                        /\ Offset <= NowAfter
    OBVIOUS
  <2>2. ~Wrapped(idx) /\ hd.align >= Sector
    BY <1>1, <2>1, WrappedIsPlain, ExtendedInTable, Zenon
  <2>3. PICK o \in Nat : o = Offset - hd.align
    BY <1>2, <1>3, <2>1
  <2>4. Offset < ULL /\ Offset <= NowAfter /\ hd.align <= Offset
    BY <1>2, <1>3, <2>1, <2>2, ULLAssumption
  <2>5. Minus(Offset, hd.align) = o
    BY <1>2, <1>3, <2>3, <2>4, MinusExact
  <2>6. Sector \in Nat
    BY AreaSizes, SMT
  <2>7. o + Sector <= Offset /\ o + Sector < ULL
    BY <1>2, <1>3, <2>2, <2>3, <2>4, <2>6, ULLAssumption
  <2>8. Plus(o, Sector) = o + Sector
    BY <2>6, <2>7, PlusExact
  <2>. QED  BY <1>2, <1>3, <2>1, <2>3, <2>4, <2>5, <2>6, <2>7, <2>8
<1>6. CASE cur.image # NoImage
  <2>1. PICK e \in Nat : e = Offset + ImageSize[cur.image]
    BY <1>3, <1>4, <1>6
  <2>2. Plus(Offset, ImageSize[cur.image]) = e
    <3>1. Offset + ImageSize[cur.image] < ULL
      BY <1>3, <1>4, <1>6, ULLAssumption
    <3>. QED  BY <1>3, <1>4, <1>6, <2>1, <3>1, PlusExact
  <2>3. FileSize = MaxOf(hd.fileSize, e)
    BY <1>6, <2>2 DEF FileSize
  <2>4. FileSize \in {hd.fileSize, e} /\ FileSize >= hd.fileSize /\ FileSize >= e
    BY <1>2, <2>1, <2>3, MaxOfBounds
  <2>5. Sector \in Nat /\ (IsExtended => Offset - hd.align + Sector <= e)
    <3>1. Sector \in Nat
      BY AreaSizes, SMT
    <3>. QED  BY <1>2, <1>3, <1>4, <1>5, <1>6, <2>1, <3>1
  <2>. QED  BY <1>2, <1>3, <1>4, <1>6, <2>1, <2>4, <2>5
<1>7. CASE cur.image = NoImage /\ IsExtended
  <2>1. FileSize = Offset - hd.align + Sector
    BY <1>5, <1>7 DEF FileSize
  <2>2. Sector \in Nat
    BY AreaSizes, SMT
  <2>. QED  BY <1>2, <1>3, <1>5, <1>7, <2>1, <2>2
<1>8. CASE cur.image = NoImage /\ ~IsExtended
  BY <1>2, <1>3, <1>8 DEF FileSize
<1>. QED  BY <1>6, <1>7, <1>8

\* Every step keeps the file size in step with the layout.
LEMMA FileStep ==
  ASSUME NEW M \in Nat, Fits(M), HdInv(M), FileInv, [Next]_vars PROVE FileInv'
<1>1. CASE PlacePartition
  <2>1. /\ pc = "place" /\ idx \in 1 .. Len(parts) /\ idx <= Len(parts) /\ ~PartitionRefused
        /\ TypeInv /\ ListInv /\ SpaceInv(M)
        /\ now' = NowAfter /\ hd'.align = hd.align /\ hd'.fileSize = FileSize
        /\ ret' = ret /\ ret = "none"
        /\ parts'[idx] = Placed /\ \A i \in 1 .. Len(parts) : i # idx => parts'[i] = parts[i]
        /\ Done' = Done \cup {idx} /\ Done \subseteq 1 .. Len(parts)
    BY <1>1, PlacedList
  <2>2. /\ Placed.offset = Offset /\ Placed.extended = IsExtended /\ Placed.image = cur.image
        /\ Offset \in Nat
    BY <2>1, PlacedType, Zenon
  <2>3. hd.fileSize <= now
    BY <2>1 DEF FileInv
  <2>4. /\ FileSize \in Nat /\ hd.fileSize <= FileSize /\ FileSize <= NowAfter
        /\ cur.image # NoImage =>
             ImageSize[cur.image] \in Nat /\ Offset + ImageSize[cur.image] <= FileSize
        /\ IsExtended => Offset - hd.align + Sector <= FileSize
    BY <1>1, <2>3, PlacedFileSize
  <2>5. ASSUME NEW i \in Done' PROVE Covers(parts[i])'
    <3>1. CASE i = idx
      BY <2>1, <2>2, <2>4, <3>1 DEF Covers
    <3>2. CASE i # idx
      <4>1. i \in Done /\ parts'[i] = parts[i] /\ parts[i] \in Partition /\ Covers(parts[i])
        BY <2>1, <3>2 DEF FileInv, TypeInv, TypeOK
      <4>2. PICK p \in Partition : p = parts[i]
        BY <4>1
      <4>3. /\ p.offset \in Nat /\ hd.align \in Nat /\ hd.fileSize \in Nat /\ Sector \in Nat
            /\ p.image # NoImage => ImageSize[p.image] \in Nat
        <5>1. Sector \in Nat
          BY AreaSizes, SMT
        <5>2. p.offset \in Nat /\ p.image \in Images \cup {NoImage}
          BY DEF Partition
        <5>3. hd.align \in Nat /\ hd.fileSize \in Nat
          BY <2>1 DEF TypeInv, TypeOK
        <5>. QED  BY <5>1, <5>2, <5>3, ImagesAssumption, ULLAssumption
      <4>4. /\ p.image # NoImage => p.offset + ImageSize[p.image] <= FileSize
            /\ p.extended => p.offset - hd.align + Sector <= FileSize
        BY <2>4, <4>1, <4>2, <4>3 DEF Covers
      <4>. QED  BY <2>1, <4>1, <4>2, <4>4 DEF Covers
    <3>. QED  BY <3>1, <3>2
  <2>. QED  BY <2>1, <2>4, <2>5 DEF FileInv
<1>2. CASE SetupOptions
  <2>1. idx' = 1 /\ hd'.fileSize = 0 /\ now' \in Nat /\ ret' = "none"
    BY <1>2, SetupOptionsTypes DEF SetupOptions, HdInv, TypeInv, TypeOK, ListInv
  <2>2. Done' = {}
    BY <2>1 DEF Done
  <2>. QED  BY <2>1, <2>2 DEF FileInv
<1>3. CASE FinishSetup
  <2>1. /\ HdInv(M)' /\ pc = "place" /\ idx > Len(parts) /\ Settled /\ ret' = "ok"
        /\ now <= size' /\ TypeInv /\ ListInv /\ TypeInv' /\ ret # "ok"
    BY <1>3, FinishSetupHd DEF HdInv, ListInv
  <2>2. /\ hd.fileSize <= now /\ now \in Nat /\ size' \in Nat /\ hd.fileSize \in Nat
        /\ hd'.fileSize \in Nat /\ hd.align \in Nat
    BY <2>1 DEF FileInv, TypeInv, TypeOK
  <2>3. UNCHANGED <<parts, idx, now>> /\ hd'.align = hd.align
        /\ (hd'.fileSize = size' \/ hd'.fileSize = hd.fileSize)
    BY <1>3, <2>1 DEF FinishSetup, TypeInv, TypeOK
  <2>4. hd.fileSize <= hd'.fileSize /\ hd'.fileSize <= size'
    BY <2>1, <2>2, <2>3
  <2>5. ASSUME NEW i \in Done' PROVE Covers(parts[i])'
    <3>1. i \in Done /\ parts'[i] = parts[i] /\ parts[i] \in Partition /\ Covers(parts[i])
      BY <2>1, <2>3, SMTT(30) DEF FileInv, TypeInv, TypeOK, Done
    <3>2. PICK p \in Partition : p = parts[i]
      BY <3>1
    <3>3. /\ p.offset \in Nat /\ Sector \in Nat
          /\ p.image # NoImage => ImageSize[p.image] \in Nat
      <4>1. Sector \in Nat
        BY AreaSizes, SMT
      <4>2. p.offset \in Nat /\ p.image \in Images \cup {NoImage}
        BY DEF Partition
      <4>. QED  BY <4>1, <4>2, ImagesAssumption, ULLAssumption
    <3>4. /\ p.image # NoImage => p.offset + ImageSize[p.image] <= hd'.fileSize
          /\ p.extended => p.offset - hd.align + Sector <= hd'.fileSize
      BY <2>2, <2>4, <3>1, <3>2, <3>3 DEF Covers
    <3>. QED  BY <2>3, <3>1, <3>2, <3>4 DEF Covers
  <2>. QED  BY <2>1, <2>4, <2>5 DEF FileInv
<1>4. CASE (pc # "done" /\ Refuse) \/ UNCHANGED vars
  <2>1. UNCHANGED <<hd, size, parts, idx, now>> /\ (ret' = ret \/ (ret = "none" /\ ret' = "einval"))
    BY <1>4 DEF Refuse, vars, HdInv, ListInv
  <2>. QED  BY <2>1 DEF FileInv, Covers, Done
<1>. QED  BY <1>1, <1>2, <1>3, <1>4, StepCases

\* The file size is in step with the layout in every execution.
LEMMA FileInvariant == ASSUME NEW M \in Nat, Fits(M) PROVE Spec => []FileInv
<1>1. Init => FileInv
  BY DEF Init, FileInv, Done
<1>2. HdInv(M) /\ FileInv /\ [Next]_vars => FileInv'
  BY FileStep
<1>. QED  BY <1>1, <1>2, HdInvariant, PTL DEF Spec

\* When setup succeeds, the announced file size reaches to the end of all data
\* and boot records, and no further than the image.
THEOREM FileSizeSuffices == ASSUME NEW M \in Nat, Fits(M) PROVE Spec => []FileSizeCoversData
<1>1. HdInv(M) /\ FileInv => FileSizeCoversData
  <2> SUFFICES ASSUME HdInv(M), FileInv, ret = "ok"
               PROVE  hd.fileSize <= size /\ \A i \in DOMAIN parts : Covers(parts[i])
    BY DEF FileSizeCoversData, Covers
  <2>1. TypeInv /\ ListInv /\ SpaceInv(M) /\ parts \in Seq(Partition) /\ idx \in Nat
    BY DEF HdInv, TypeInv, TypeOK
  <2>2. idx > Len(parts)
    BY <2>1 DEF ListInv, SpaceInv
  <2>3. DOMAIN parts \subseteq Done
    BY <2>1, <2>2 DEF Done
  <2>. QED  BY <2>3 DEF FileInv
<1>. QED  BY <1>1, HdInvariant, FileInvariant, PTL

\* The end of the used space and of the output file only move forward.
THEOREM SpaceGrows == ASSUME NEW M \in Nat, Fits(M) PROVE Spec => SpaceOnlyGrows
<1> DEFINE Grows == pc = "place" => now' >= now /\ hd'.fileSize >= hd.fileSize
<1>1. HdInv(M) /\ FileInv /\ [Next]_vars => Grows
  <2> SUFFICES ASSUME HdInv(M), FileInv, [Next]_vars, pc = "place"
               PROVE  now' >= now /\ hd'.fileSize >= hd.fileSize
    OBVIOUS
  <2>1. TypeInv /\ ListInv /\ now \in Nat /\ hd.fileSize \in Nat /\ ret = "none" /\ hd.fileSize <= now
    BY DEF HdInv, TypeInv, TypeOK, ListInv, FileInv
  <2>2. CASE PlacePartition
    <3>1. now' = NowAfter /\ hd'.fileSize = FileSize /\ TypeInv /\ ListInv /\ SpaceInv(M)
          /\ idx <= Len(parts) /\ ~PartitionRefused
      BY <2>2, PlacedList
    <3>2. FileSize \in Nat /\ hd.fileSize <= FileSize
      BY <2>1, <2>2, PlacedFileSize
    <3>3. now <= NowBefore /\ NowBefore <= NowAfter /\ NowBefore \in Nat /\ NowAfter \in Nat
      BY <3>1, PlacedRange, Zenon
    <3>. QED  BY <2>1, <3>1, <3>2, <3>3
  <2>3. CASE FinishSetup
    <3>1. now <= size' /\ now' = now /\ size' \in Nat
          /\ (hd'.fileSize = size' \/ hd'.fileSize = hd.fileSize)
      BY <2>1, <2>3, FinishSetupHd DEF FinishSetup, HdInv, TypeInv, TypeOK
    <3>. QED  BY <2>1, <3>1
  <2>4. CASE SetupOptions
    BY <2>4 DEF SetupOptions
  <2>5. CASE (pc # "done" /\ Refuse) \/ UNCHANGED vars
    <3>1. UNCHANGED <<hd, now>>
      BY <2>5 DEF Refuse, vars
    <3>. QED  BY <2>1, <3>1
  <2>. QED  BY <2>2, <2>3, <2>4, <2>5, StepCases
<1>. QED  BY <1>1, HdInvariant, FileInvariant, PTL DEF Spec, SpaceOnlyGrows

-----------------------------------------------------------------------------
(***************************************************************************)
(* hdimage_setup implements DiskAreas: each accepted turn gives out one    *)
(* area, compatible with all earlier ones, and never moves an old one.     *)
(***************************************************************************)
GivenAreas == [i \in Done |-> Area(parts[i])]
Verdict == IF pc # "done" THEN "open" ELSE IF ret = "ok" THEN "accepted" ELSE "refused"

\* A function on 1 .. n is a sequence of length n; it is empty when n is zero.
LEMMA FunctionAsSequence ==
  ASSUME NEW n \in Nat, NEW f, f = [i \in 1 .. n |-> f[i]]
  PROVE  Len(f) = n /\ (n = 0 => f = << >>) /\ f \in Seq({f[i] : i \in 1 .. n})
<1> DEFINE S == {f[i] : i \in 1 .. n}
<1>1. f \in [1 .. n -> S]
  <2>1. \A i \in 1 .. n : f[i] \in S
    OBVIOUS
  <2> HIDE DEF S
  <2>2. [i \in 1 .. n |-> f[i]] \in [1 .. n -> S]
    BY <2>1
  <2>. QED  BY <2>2, Zenon
<1> HIDE DEF S
<1>2. f \in Seq(S) /\ Len(f) = n
  BY <1>1
<1>3. n = 0 => f = << >>
  BY <1>2
<1>. QED  BY <1>2, <1>3 DEF S

\* The areas given out are a sequence, one for each turn.
LEMMA GivenSequence ==
  ASSUME idx \in Nat, idx > 0
  PROVE  /\ Len(GivenAreas) = idx - 1 /\ (idx = 1 => GivenAreas = << >>)
         /\ GivenAreas \in Seq({GivenAreas[i] : i \in Done})
         /\ \A i \in Done : GivenAreas[i] = Area(parts[i])
<1>1. PICK n \in Nat : n = idx - 1
  OBVIOUS
<1>2. Done = 1 .. n
  BY <1>1 DEF Done
<1>3. GivenAreas = [i \in 1 .. n |-> GivenAreas[i]]
  BY <1>2 DEF GivenAreas
<1>4. /\ Len(GivenAreas) = n /\ (n = 0 => GivenAreas = << >>)
      /\ GivenAreas \in Seq({GivenAreas[i] : i \in 1 .. n})
  BY <1>3, FunctionAsSequence
<1>5. \A i \in Done : GivenAreas[i] = Area(parts[i])
  BY DEF GivenAreas
<1>. QED  BY <1>1, <1>2, <1>4, <1>5

\* An accepted turn gives out one area.
LEMMA PlaceGives ==
  ASSUME NEW M \in Nat, Fits(M), HdInv(M), PlacePartition PROVE Disk!Give
<1>1. /\ pc = "place" /\ pc' = pc /\ idx \in 1 .. Len(parts) /\ parts \in Seq(Partition)
      /\ idx' = idx + 1 /\ size' = size /\ parts'[idx] = Placed
      /\ \A i \in 1 .. Len(parts) : i # idx => parts'[i] = parts[i]
      /\ Done' = Done \cup {idx} /\ idx \notin Done /\ Done \subseteq 1 .. Len(parts)
  BY PlacedList DEF TypeInv, TypeOK
<1>2. idx \in Nat /\ idx > 0 /\ idx' \in Nat /\ idx' > 0
  BY <1>1
<1>3. /\ Len(GivenAreas) = idx - 1 /\ GivenAreas \in Seq({GivenAreas[i] : i \in Done})
      /\ \A i \in Done : GivenAreas[i] = Area(parts[i])
  BY <1>2, GivenSequence
<1>4. /\ Len(GivenAreas') = idx /\ GivenAreas' \in Seq({GivenAreas'[i] : i \in Done'})
      /\ \A i \in Done' : GivenAreas'[i] = Area(parts'[i])
  <2>1. Done' = 1 .. idx
    BY <1>1 DEF Done
  <2>2. GivenAreas' = [i \in Done' |-> Area(parts'[i])]
    BY Zenon DEF GivenAreas
  <2>3. PICK h : h = GivenAreas'
    OBVIOUS
  <2>4. h = [i \in 1 .. idx |-> h[i]] /\ \A i \in Done' : h[i] = Area(parts'[i])
    BY <2>1, <2>2, <2>3
  <2>5. Len(h) = idx /\ h \in Seq({h[i] : i \in 1 .. idx})
    BY <1>2, <2>4, FunctionAsSequence
  <2>. QED  BY <2>1, <2>3, <2>4, <2>5
<1>5. SubSeq(GivenAreas', 1, Len(GivenAreas)) = GivenAreas
  <2> DEFINE g == GivenAreas
             h == GivenAreas'
             n == idx - 1
             S == {h[i] : i \in Done'} \cup {g[i] : i \in Done}
  <2>1. g \in Seq(S) /\ h \in Seq(S) /\ Len(g) = n /\ Len(h) = n + 1 /\ n \in Nat
    <3>1. g \in Seq({g[i] : i \in Done}) /\ h \in Seq({h[i] : i \in Done'})
      BY <1>3, <1>4
    <3>2. \A T, U : T \subseteq U => Seq(T) \subseteq Seq(U)
      OBVIOUS
    <3>. QED  BY <1>2, <1>3, <1>4, <3>1, <3>2
  <2>2. \A i \in 1 .. n : h[i] = g[i]
    <3>1. \A i \in 1 .. n : i \in Done /\ i \in Done' /\ parts'[i] = parts[i]
      BY <1>1 DEF Done
    <3>. QED  BY <1>3, <1>4, <3>1
  <2> HIDE DEF g, h, n, S
  <2>3. /\ SubSeq(h, 1, n) \in Seq(S) /\ Len(SubSeq(h, 1, n)) = n
        /\ \A i \in 1 .. n : SubSeq(h, 1, n)[i] = h[i]
    BY <2>1
  <2>4. SubSeq(h, 1, n) = g
    BY <2>1, <2>2, <2>3, SeqEqual
  <2>. QED  BY <2>1, <2>4 DEF g, h
<1>6. \A k \in 1 .. Len(GivenAreas) :
        Disk!Compatible(GivenAreas'[Len(GivenAreas')], GivenAreas[k])
  <2> SUFFICES ASSUME NEW k \in 1 .. idx - 1
               PROVE  Disk!Compatible(GivenAreas'[idx], GivenAreas[k])
    BY <1>3, <1>4
  <2>1. k \in Done
    BY <1>1 DEF Done
  <2>2. Disk!Compatible(Area(Placed), Area(parts[k]))
    BY <2>1, PlacedDisjoint
  <2>3. GivenAreas'[idx] = Area(Placed) /\ GivenAreas[k] = Area(parts[k])
    BY <1>1, <1>3, <1>4, <2>1
  <2>. QED  BY <2>2, <2>3
<1>7. Verdict = "open" /\ Verdict' = "open"
  BY <1>1 DEF Verdict
<1>8. Len(GivenAreas') = Len(GivenAreas) + 1
  BY <1>1, <1>3, <1>4
<1>. QED  BY <1>1, <1>5, <1>6, <1>7, <1>8, Zenon DEF Disk!Give, GivenAreas, Verdict

\* hdimage_setup keeps the promise of DiskAreas, step by step.
THEOREM ImplementsDiskAreas == ASSUME NEW M \in Nat, Fits(M) PROVE Spec => LaysOutDisk
<1>1. Init => Disk!Init
  <2> SUFFICES ASSUME Init PROVE Disk!Init
    OBVIOUS
  <2>1. idx = 1 /\ pc = "options" /\ TypeInv
    BY InitTypes DEF Init
  <2>2. GivenAreas = << >> /\ size \in Nat
    BY <2>1, GivenSequence DEF TypeInv, TypeOK
  <2>3. Verdict = "open"
    BY <2>1 DEF Verdict
  <2>. QED  BY <2>2, <2>3, Zenon DEF Disk!Init, GivenAreas, Verdict
<1>2. HdInv(M) /\ [Next]_vars =>
        [Disk!Next]_<<[i \in Done |-> Area(parts[i])], size,
                      IF pc # "done" THEN "open" ELSE IF ret = "ok" THEN "accepted" ELSE "refused">>
  <2> SUFFICES ASSUME HdInv(M), [Next]_vars
               PROVE  Disk!Next \/ UNCHANGED <<GivenAreas, size, Verdict>>
    BY Zenon DEF GivenAreas, Verdict
  <2>1. TypeInv /\ ListInv /\ idx \in Nat /\ idx > 0
    BY DEF HdInv, TypeInv, TypeOK
  <2>2. (UNCHANGED <<parts, idx>>) => GivenAreas' = GivenAreas
    BY DEF GivenAreas, Done, Area
  <2>3. CASE PlacePartition
    <3>1. Disk!Give
      BY <2>3, PlaceGives
    <3>. QED  BY <3>1 DEF Disk!Next
  <2>4. CASE SetupOptions
    <3>1. idx = 1 /\ idx' = 1 /\ pc # "done" /\ pc' # "done"
      BY <2>1, <2>4 DEF SetupOptions, TypeInv
    <3>2. GivenAreas = << >>
      BY <3>1, GivenSequence
    <3>3. GivenAreas' = << >>
      <4>1. Done = {} /\ Done' = {}
        BY <3>1 DEF Done
      <4>2. GivenAreas' = [i \in {} |-> Area(parts'[i])] /\ GivenAreas = [i \in {} |-> Area(parts[i])]
        BY <4>1, Zenon DEF GivenAreas
      <4>3. GivenAreas' = GivenAreas
        BY <4>2
      <4>. QED  BY <3>2, <4>3
    <3>4. size' \in Nat
      BY <2>4, <2>1, SetupOptionsTypes DEF TypeInv, TypeOK
    <3>5. Verdict = "open" /\ Verdict' = "open"
      BY <3>1 DEF Verdict
    <3>6. Disk!LearnSize
      BY <3>2, <3>3, <3>4, <3>5, Zenon DEF Disk!LearnSize, GivenAreas, Verdict
    <3>. QED  BY <3>6 DEF Disk!Next
  <2>5. CASE FinishSetup
    <3>1. /\ UNCHANGED <<parts, idx>> /\ pc = "place" /\ pc' = "done" /\ ret' = "ok"
      BY <2>5 DEF FinishSetup
    <3>2. /\ \A i \in Done : End(parts[i]) <= now
          /\ now <= size' /\ (size # 0 => size' = size) /\ HdInv(M)'
      BY <2>5, FinishSetupHd
    <3>3. GivenAreas' = GivenAreas
      BY <2>2, <3>1
    <3>4. ASSUME NEW k \in 1 .. Len(GivenAreas) PROVE GivenAreas[k].to <= size'
      <4>1. k \in Done /\ GivenAreas[k] = Area(parts[k])
        BY <2>1, GivenSequence DEF Done
      <4>2. k \in 1 .. Len(parts) /\ parts \in Seq(Partition)
        BY <2>1, <4>1 DEF Done, TypeInv, TypeOK
      <4>3. End(parts[k]) \in Nat
        <5>1. parts[k] \in Partition
          BY <4>2
        <5>. QED  BY <5>1 DEF End, Partition
      <4>4. Area(parts[k]).to = End(parts[k])
        BY DEF Area
      <4>5. now \in Nat /\ size' \in Nat
        BY <2>1, <3>2 DEF TypeInv, TypeOK, HdInv
      <4>. QED  BY <3>2, <4>1, <4>3, <4>4, <4>5
    <3>5. Verdict = "open" /\ Verdict' = "accepted"
      BY <3>1 DEF Verdict
    <3>6. Disk!Accept
      BY <3>2, <3>3, <3>4, <3>5, Zenon DEF Disk!Accept, GivenAreas, Verdict
    <3>. QED  BY <3>6 DEF Disk!Next
  <2>6. CASE pc # "done" /\ Refuse
    <3>1. UNCHANGED <<parts, idx, size>> /\ pc' = "done" /\ ret' = "einval"
      BY <2>6 DEF Refuse
    <3>2. Verdict = "open" /\ Verdict' = "refused"
      BY <2>6, <3>1 DEF Verdict
    <3>3. Disk!Refuse
      BY <2>2, <3>1, <3>2, Zenon DEF Disk!Refuse, GivenAreas, Verdict
    <3>. QED  BY <3>3 DEF Disk!Next
  <2>7. CASE UNCHANGED vars
    BY <2>2, <2>7 DEF vars, Verdict
  <2>. QED  BY <2>3, <2>4, <2>5, <2>6, <2>7, StepCases
<1>. QED  BY <1>1, <1>2, HdInvariant, PTL DEF Spec, LaysOutDisk, Disk!Spec

-----------------------------------------------------------------------------
(***************************************************************************)
(* An image whose size and offsets are left to the program.                *)
(***************************************************************************)
\* The name decides what floats.
LEMMA FloatingName == IsFloatingBackup <=> cur.name = BackupName /\ cur.offset = 0
BY Zenon DEF IsFloatingBackup, BackupName

\* Preparing a partition keeps its name.
LEMMA PreparedName == \A c \in Config : \A p \in Partition : Prepared(p, c).name = p.name
BY DEF Prepared, Partition

\* In a layout that leaves every offset to the program no accepted turn finds a
\* partition in its way: declared ones lie behind the used space, the areas of
\* the table in front of all of them.
LEMMA AutoLayoutRoom ==
  ASSUME NEW M \in Nat, Fits(M), NamesApart, HdInv(M), AutoPlacedAfter PROVE AutoLayoutFits
<1> SUFFICES ASSUME pc = "place", idx <= Len(parts), size = 0,
                    \A i \in DOMAIN cfg.parts : cfg.parts[i].offset = 0 /\ parts[i].inTable,
                    GptLocation(cfg) >= 2 * Sector
             PROVE  ~SpaceRefused
  BY DEF AutoLayoutFits
<1> DEFINE n == Len(cfg.parts)
           areas == TableAreas(cfg, ImageSizeOf(cfg))
<1>1. TypeInv /\ ListInv /\ SpaceInv(M) /\ Settled
  BY DEF HdInv, TypeInv, TypeOK, Settled
<1>2. /\ cfg \in Configs /\ cfg \in Config /\ n \in Nat /\ DOMAIN cfg.parts = 1 .. n
      /\ GptLocation(cfg) \in Nat
  <2>1. cfg \in Configs /\ cfg \in Config
    BY <1>1 DEF TypeInv, TypeOK
  <2>2. cfg.parts \in Seq(Partition)
    BY <2>1 DEF Config
  <2>. QED  BY <2>1, <2>2, FitsConfig, SMT
<1>3. /\ idx \in 1 .. Len(parts) /\ now \in Nat /\ cur = Listed(cfg)[idx] /\ ListedAt(M, cfg, idx, cur)
      /\ size = ImageSizeOf(cfg) /\ hd.table = TableType(cfg) /\ ~OptionsRefused(cfg) /\ cur \in Partition
  BY <1>1, TurnNumbers, SMT
<1>4. /\ Offset \in Nat /\ Reserved \in Nat /\ NowBefore \in Nat /\ now <= Reserved
      /\ cur.offset = 0 /\ cur.inTable => Reserved <= Offset
      /\ cur.offset = 0 /\ cur.inTable /\ ~IsFloatingBackup => NowBefore <= Offset
      /\ IsFloatingBackup => Reserved <= Offset
      /\ cur.offset # 0 => Offset = cur.offset
  BY <1>1, OffsetRange, ReservedRange, SMT
<1>5. \A j \in Done : parts[j] \in Partition /\ End(parts[j]) \in Nat /\ End(parts[j]) <= now
  BY PlacedBelowNow, Zenon
<1>6. now < ULL
  BY NowBelowWidth
<1>7. \A j \in Done : PartitionEnd(parts[j]) = End(parts[j])
  <2> SUFFICES ASSUME NEW j \in Done PROVE PartitionEnd(parts[j]) = End(parts[j])
    OBVIOUS
  <2>1. PICK p \in Partition : p = parts[j]
    BY <1>5
  <2>2. p.offset \in Nat /\ p.size \in Nat /\ p.offset + p.size < ULL
    BY <1>3, <1>5, <1>6, <2>1, ULLAssumption DEF Partition, End
  <2>3. Plus(p.offset, p.size) = p.offset + p.size
    BY <2>2, PlusExact
  <2>. QED  BY <2>1, <2>3 DEF PartitionEnd, End
<1>8. Placed.offset = Offset /\ Placed.size = FinalSize
  BY <1>1, PlacedType, Zenon
<1>9. CASE idx <= n
  <2>1. cur.offset = 0 /\ cur.inTable
    <3>1. cfg.parts[idx].offset = 0 /\ parts[idx].inTable
      BY <1>2, <1>3, <1>9
    <3>. QED  BY <1>3, <1>9, <3>1 DEF ListedAt, cur
  <2>2. ~IsFloatingBackup
    <3>1. cur = Prepared(cfg.parts[idx], cfg)
      BY <1>1, <1>2, <1>3, <1>9, ListedElements DEF ListInv
    <3>2. cfg.parts[idx] \in Partition
      BY <1>2, <1>3, <1>9 DEF Config
    <3>3. cur.name = cfg.parts[idx].name
      BY <1>2, <3>1, <3>2, PreparedName
    <3>4. idx \in DOMAIN cfg.parts
      BY <1>2, <1>3, <1>9
    <3>5. cfg.parts[idx].name # BackupName
      BY <1>2, <3>4, Zenon DEF NamesApart, BackupName
    <3>. QED  BY <3>3, <3>5, FloatingName, Zenon
  <2>3. NowBefore <= Offset /\ now <= Offset
    BY <1>3, <1>4, <2>1, <2>2
  <2>4. ~(NowBefore > Offset)
    BY <1>4, <2>3
  <2>5. \A j \in 1 .. idx - 1 : ~Overlaps(Placed, parts[j])
    <3> SUFFICES ASSUME NEW j \in Done PROVE ~(Offset < PartitionEnd(parts[j]))
      BY <1>8, Zenon DEF Overlaps, Done
    <3>. QED  BY <1>3, <1>4, <1>5, <1>7, <2>3
  <2>. QED  BY <2>4, <2>5, Zenon DEF SpaceRefused
<1>10. CASE idx > n
  <2>1. cur.inTable = FALSE /\ TableType(cfg) # {} /\ AreaAt(M, cfg, idx - n, cur)
    BY <1>2, <1>3, <1>10 DEF ListedAt, AreaAt
  <2>2. ~IsExtended /\ cur.image = NoImage /\ cur.autoresize = FALSE
    BY <2>1 DEF IsExtended, AreaAt
  <2>3. FinalSize = cur.size
    BY <2>2, Zenon DEF FinalSize
  <2>4. ASSUME NEW j \in Done, j <= n PROVE FirstFree(cfg) <= parts[j].offset
    <3>1. cfg.parts[j].offset = 0 /\ parts[j].inTable
      BY <1>2, <2>4 DEF Done
    <3>. QED  BY <3>1 DEF AutoPlacedAfter
  <2>5. /\ "gpt" \in TableType(cfg) => Len(parts) = n + 4
        /\ "gpt" \notin TableType(cfg) => Len(parts) = n + 1
        /\ AreaIs(Listed(cfg)[n + 1], 440, 72)
        /\ "gpt" \in TableType(cfg) =>
             /\ AreaIs(Listed(cfg)[n + 2], 512, 512)
             /\ AreaIs(Listed(cfg)[n + 3], GptLocation(cfg), 16384)
             /\ Listed(cfg)[n + 4].offset = 0 /\ Listed(cfg)[n + 4].name = BackupName
        /\ GptLocation(cfg) >= 1024
    <3>1. Len(parts) = Len(Listed(cfg))
      BY <1>1 DEF ListInv
    <3>2. Sector = 512 /\ MbrTail = 72 /\ Sector - MbrTail = 440
      BY AreaSizes, SMT DEF MbrTail
    <3>3. AreasListed(cfg, n)
      BY <1>2, <2>1, ListedAreas
    <3>. QED  BY <1>2, <1>3, <3>1, <3>2, <3>3, SMT DEF AreasListed, AreaIs, BackupStart
  <2>6. /\ FirstFree(cfg) \in Nat /\ FirstFree(cfg) >= 512
        /\ "gpt" \in TableType(cfg) => FirstFree(cfg) = GptLocation(cfg) + 16384
    BY <1>2, <2>1, <2>5, FirstFreeRange, AreaSizes, SMTT(30) DEF FirstFree
  <2>7. ASSUME NEW j \in Done,
               Offset >= End(parts[j]) \/ parts[j].offset >= Offset + FinalSize, Offset + FinalSize < ULL
        PROVE  ~Overlaps(Placed, parts[j])
    <3>1. PartitionEnd(Placed) = Offset + FinalSize
      <4>1. FinalSize \in Nat
        BY <1>3, <2>3 DEF Partition
      <4>. QED  BY <1>4, <1>8, <2>7, <4>1, PlusExact DEF PartitionEnd
    <3>2. ~(Offset < PartitionEnd(parts[j])) \/ ~(parts[j].offset < PartitionEnd(Placed))
      <4>1. parts[j].offset \in Nat /\ FinalSize \in Nat
        BY <1>3, <1>5, <2>3 DEF Partition
      <4>. QED  BY <1>4, <1>5, <1>7, <2>7, <3>1, <4>1
    <3>. QED  BY <1>8, <3>2, Zenon DEF Overlaps
  <2>8. AreaIs(cur, cur.offset, cur.size) /\ cur.size \in Nat
    BY <1>3, <2>2 DEF AreaIs, Partition
  <2>9. now + 2 * Step(M) <= ULL \div 2 /\ cur.size <= M /\ M \in Nat
    BY <1>1, TurnNumbers, SMT
  <2>10. \A i \in Done : \A o, z \in Nat :
           o # 0 /\ z # 0 /\ AreaIs(Listed(cfg)[i], o, z) =>
             parts[i].offset = o /\ parts[i].size = z
    BY <1>1, KeptArea, Zenon
  <2>11. n + 1 \in Done => End(parts[n + 1]) = 512
    <3>1. n + 1 \in Done => parts[n + 1].offset = 440 /\ parts[n + 1].size = 72
      BY <2>5, <2>10, SMT
    <3>. QED  BY <3>1, SMT DEF End
  <2>12. "gpt" \in TableType(cfg) /\ n + 2 \in Done => End(parts[n + 2]) = 1024
    <3>1. "gpt" \in TableType(cfg) /\ n + 2 \in Done =>
            parts[n + 2].offset = 512 /\ parts[n + 2].size = 512
      BY <2>5, <2>10, SMT
    <3>. QED  BY <3>1, SMT DEF End
  <2>13. CASE idx = n + 4
    <3>1. "gpt" \in TableType(cfg) /\ cur.offset = 0 /\ cur.name = BackupName
      BY <1>2, <1>3, <2>5, <2>13, SMT
    <3>2. Reserved <= Offset
      BY <1>4, <3>1, FloatingName, SMT
    <3>3. ASSUME NEW j \in Done PROVE ~Overlaps(Placed, parts[j])
      <4>1. ~(Offset < PartitionEnd(parts[j]))
        BY <1>3, <1>4, <1>5, <1>7, <3>2
      <4>. QED  BY <1>8, <4>1, Zenon DEF Overlaps
    <3>. QED  BY <2>2, <3>3, Zenon DEF SpaceRefused, Done
  <2>14. CASE idx = n + 1 \/ idx = n + 2 \/ idx = n + 3
    <3>1. /\ cur.offset # 0
          /\ idx = n + 1 => cur.offset = 440 /\ cur.size = 72
          /\ idx = n + 2 => "gpt" \in TableType(cfg) /\ cur.offset = 512 /\ cur.size = 512
          /\ idx = n + 3 => "gpt" \in TableType(cfg) /\ cur.offset = GptLocation(cfg)
                            /\ cur.size = 16384
      <4>1. idx \in Nat /\ idx <= Len(parts) /\ ("gpt" \notin TableType(cfg) => idx <= n + 1)
        BY <1>3, <2>5
      <4>2. CASE idx = n + 1
        BY <1>2, <1>3, <2>5, <4>2, SMTT(30) DEF AreaIs
      <4>3. CASE idx = n + 2
        BY <1>2, <1>3, <2>5, <4>1, <4>3, SMT DEF AreaIs
      <4>4. CASE idx = n + 3
        BY <1>2, <1>3, <2>5, <4>1, <4>4, SMT DEF AreaIs
      <4>. QED  BY <2>14, <4>2, <4>3, <4>4
    <3>2. Offset = cur.offset
      BY <1>4, <3>1
    <3>3. Offset + FinalSize <= FirstFree(cfg)
      BY <1>2, <2>3, <2>5, <2>6, <2>14, <3>1, <3>2, SMT
    <3>4. FirstFree(cfg) <= now
      BY <1>1 DEF SpaceInv
    <3>5. Offset + FinalSize < ULL
      BY <1>3, <1>4, <1>6, <2>3, <2>6, <2>8, <3>3, <3>4, ULLAssumption, SMT
    <3>6. ASSUME NEW j \in Done PROVE ~Overlaps(Placed, parts[j])
      <4>1. j \in Nat /\ j < idx
        BY <1>3 DEF Done
      <4>2. CASE j <= n
        <5>1. FirstFree(cfg) <= parts[j].offset /\ parts[j].offset \in Nat
          BY <1>5, <2>4, <4>2 DEF Partition
        <5>2. parts[j].offset >= Offset + FinalSize
          BY <1>4, <2>3, <2>6, <2>8, <3>3, <5>1
        <5>. QED  BY <2>7, <3>5, <5>2
      <4>3. CASE j = n + 1 \/ j = n + 2
        <5>1. Offset >= End(parts[j])
          <6>1. idx = n + 2 \/ idx = n + 3
            BY <1>2, <2>14, <4>1, <4>3
          <6>2. CASE j = n + 1
            BY <1>2, <2>5, <2>11, <3>1, <3>2, <6>1, <6>2, SMT
          <6>3. CASE j = n + 2
            BY <1>2, <2>5, <2>12, <3>1, <3>2, <4>1, <6>1, <6>3, SMT
          <6>. QED  BY <4>3, <6>2, <6>3
        <5>. QED  BY <2>7, <3>5, <5>1
      <4>. QED  BY <1>2, <2>14, <4>1, <4>2, <4>3, SMTT(30)
    <3>. QED  BY <2>2, <3>6, Zenon DEF SpaceRefused, Done
  <2>15. idx = n + 1 \/ idx = n + 2 \/ idx = n + 3 \/ idx = n + 4
    BY <1>2, <1>3, <1>10, <2>5, SMTT(30)
  <2>. QED  BY <2>13, <2>14, <2>15
<1>. QED  BY <1>2, <1>3, <1>9, <1>10

\* Where every declared partition leaves its offset to the program and the image
\* has no size, setup refuses none for lack of space.
THEOREM AutoLayoutHasRoom ==
  ASSUME NEW M \in Nat, Fits(M), NamesApart PROVE Spec => []AutoLayoutFits
<1>1. HdInv(M) /\ AutoPlacedAfter => AutoLayoutFits
  BY AutoLayoutRoom
<1>. QED  BY <1>1, HdInvariant, AutoPlacement, PTL
=============================================================================
