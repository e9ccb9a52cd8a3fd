------------------------- MODULE HdGenerate_proofs -------------------------
(***************************************************************************)
(* Properties of HdGenerate, for every set of configurations whose numbers *)
(* fit (HdLayout!Fits): its types; no write destroys what an earlier one   *)
(* put into the image; generation fails by itself only for the two reasons *)
(* FailuresExplained gives; and, where the data kept is what was written   *)
(* (OnGrid, SolidInTable, NoExtendedType), the tables written describe the *)
(* layout and the chain of boot records leads to every logical partition.  *)
(*                                                                         *)
(* Setup is HdLayout's, so its theorems hold here too.  What they say of   *)
(* an accepted layout is carried over to the writes by GenInv: each write  *)
(* lies in the area of the partition or table it belongs to, in the order  *)
(* the areas were placed in.                                               *)
(***************************************************************************)
EXTENDS HdGenerate, HdLayout_proofs, FiniteSetTheorems

-----------------------------------------------------------------------------
(***************************************************************************)
(* The accepted layout, as hdimage_generate finds it.                      *)
(***************************************************************************)
\* The output file is announced to be as long as the image.
WholeImage == cfg.fill \/ ("gpt" \in hd.table /\ ~cfg.noBackup)

\* What the main loop leaves to hdimage_generate beside the areas: no image is
\* larger than its partition, and a backup table without an offset ends the image.
LayInv ==
  Settled =>
    /\ hd.gptLoc = GptLocation(cfg)
    /\ \A i \in Done : parts[i].image # NoImage => ImageSize[parts[i].image] <= parts[i].size
    /\ "gpt" \in hd.table /\ BackupStart(cfg) = 0 /\ idx > Len(parts)
         => End(parts[Len(parts)]) = now
    /\ ret = "ok" =>
         /\ size = IF ImageSizeOf(cfg) = 0 THEN now ELSE ImageSizeOf(cfg)
         /\ WholeImage => hd.fileSize = size

AreaPlaced(k, o, z) ==
  /\ k \in DOMAIN parts /\ parts[k].image = NoImage
  /\ parts[k].offset = o /\ parts[k].size = z

\* The areas of the partition table end the list.
MbrAt == Len(parts) - (IF "gpt" \in hd.table THEN 3 ELSE 0)

TablesPlaced ==
  /\ hd.table # {} => AreaPlaced(MbrAt, Sector - MbrTail, MbrTail)
  /\ "gpt" \in hd.table =>
       /\ AreaPlaced(MbrAt + 1, Sector, Sector)
       /\ AreaPlaced(MbrAt + 2, hd.gptLoc, ArraySize)
       /\ AreaPlaced(MbrAt + 3, size - BackupSize, BackupSize)

\* All that generation needs to know of the layout.
Accepted ==
  /\ TypeInv /\ TablesPlaced /\ AreasInImage /\ BootRecordRoom /\ FileSizeCoversData
  /\ ret = "ok" /\ Done = 1 .. Len(parts) /\ AreasDisjoint
  /\ \A i \in DOMAIN parts : parts[i].image # NoImage => ImageSize[parts[i].image] <= parts[i].size
  /\ WholeImage => hd.fileSize = size
  /\ cfg.block => size = IF cfg.device = 0 THEN now ELSE cfg.device

\* The backup table without an offset floats, and ends the used space.
LEMMA BackupEndsSpace ==
  ASSUME NEW M \in Nat, Fits(M), HdInv(M), PlacePartition,
         "gpt" \in hd.table, BackupStart(cfg) = 0, idx + 1 > Len(parts)
  PROVE  Offset + FinalSize = NowAfter
<1>1. /\ pc = "place" /\ idx \in 1 .. Len(parts) /\ idx <= Len(parts) /\ ~PartitionRefused
      /\ TypeInv /\ ListInv /\ SpaceInv(M)
  BY PlacedList
<1>2. /\ cur = Listed(cfg)[idx] /\ cur \in Partition /\ hd.table = TableType(cfg)
      /\ cfg \in Configs /\ cfg \in Config /\ Len(parts) = Len(Listed(cfg))
      /\ parts \in Seq(Partition)
  BY <1>1, TurnNumbers, SMT DEF TypeInv, TypeOK, ListInv
<1>3. PICK n \in Nat : n = Len(cfg.parts)
  BY <1>2, FitsConfig
<1>4. AreasListed(cfg, n)
  BY <1>2, <1>3, ListedAreas
<1>5. idx = n + 4 /\ cur.name = BackupName /\ AreaIs(cur, 0, BackupSize)
  BY <1>1, <1>2, <1>4, SMT DEF AreasListed
<1>6. /\ IsFloatingBackup /\ cur.offset = 0 /\ cur.size # 0 /\ cur.autoresize = FALSE
      /\ cur.image = NoImage /\ cur.size \in Nat
  BY <1>2, <1>5, FloatingName, AreaSizes, SMT DEF AreaIs, Partition
<1>7. FinalSize = cur.size
  BY <1>6, Zenon DEF FinalSize
<1>8. ~Wrapped(idx)
  BY <1>1, <1>6, WrappedIsPlain, Zenon
<1>9. /\ Offset \in Nat /\ NowBefore \in Nat /\ NowAfter \in Nat /\ NowAfter < ULL
      /\ Offset + FinalSize <= NowAfter /\ NowBefore <= Offset + cur.size
  BY <1>1, <1>6, <1>8, PlacedRange, OffsetRange, Zenon
<1>10. Placed.offset = Offset /\ Placed.size = FinalSize
  BY <1>1, PlacedType, Zenon
<1>11. PartitionEnd(Placed) = Offset + FinalSize
  <2>1. PICK o \in Nat, z \in Nat : o = Offset /\ z = FinalSize
    BY <1>6, <1>7, <1>9
  <2>2. Plus(o, z) = o + z
    BY <1>9, <2>1, PlusExact, ULLAssumption
  <2>. QED  BY <1>10, <2>1, <2>2 DEF PartitionEnd
<1>12. PICK e \in Nat : e = Offset + FinalSize
  BY <1>6, <1>7, <1>9
<1>13. NowAfter = MaxOf(NowBefore, e)
  BY <1>11, <1>12 DEF NowAfter
<1>. QED  BY <1>7, <1>9, <1>12, <1>13, MaxOfBounds

\* Every step of setup keeps LayInv.
LEMMA LayStep ==
  ASSUME NEW M \in Nat, Fits(M), HdInv(M), LayInv, [Next]_vars PROVE LayInv'
<1>1. TypeInv /\ ListInv /\ SpaceInv(M) /\ parts \in Seq(Partition) /\ idx \in Nat
  BY DEF HdInv, TypeInv, TypeOK
<1>2. CASE PlacePartition
  <2>1. /\ pc = "place" /\ idx \in 1 .. Len(parts) /\ idx <= Len(parts) /\ ~PartitionRefused
        /\ Settled /\ Settled' /\ cfg' = cfg /\ ret' = ret /\ ret = "none"
        /\ idx' = idx + 1 /\ now' = NowAfter /\ hd'.table = hd.table
        /\ Len(parts') = Len(parts) /\ parts'[idx] = Placed
        /\ \A i \in 1 .. Len(parts) : i # idx => parts'[i] = parts[i]
        /\ Done' = Done \cup {idx} /\ Done \subseteq 1 .. Len(parts)
    BY <1>2, PlacedList
  <2>2. hd'.gptLoc = hd.gptLoc
    BY <1>1, <1>2 DEF PlacePartition, TypeInv, TypeOK
  <2>3. /\ Placed.image = cur.image /\ Placed.size = FinalSize /\ Placed.offset = Offset
        /\ cur.image # NoImage => ImageSize[cur.image] <= FinalSize
    BY <1>1, <2>1, PlacedType, FinalRange, Zenon
  <2>4. ASSUME NEW i \in Done', parts'[i].image # NoImage
        PROVE  ImageSize[parts'[i].image] <= parts'[i].size
    <3>1. CASE i = idx
      BY <2>1, <2>3, <2>4, <3>1
    <3>2. CASE i # idx
      <4>1. i \in Done /\ parts'[i] = parts[i]
        BY <2>1, <3>2
      <4>. QED  BY <2>1, <2>4, <4>1 DEF LayInv
    <3>. QED  BY <3>1, <3>2
  <2>5. ASSUME "gpt" \in hd.table, BackupStart(cfg) = 0, idx' > Len(parts')
        PROVE  End(parts'[Len(parts')]) = now'
    <3>1. Offset + FinalSize = NowAfter
      BY <1>2, <2>1, <2>5, BackupEndsSpace
    <3>2. Len(parts') = idx
      BY <2>1, <2>5
    <3>. QED  BY <2>1, <2>3, <3>1, <3>2 DEF End
  <2>6. GptLocation(cfg)' = GptLocation(cfg) /\ BackupStart(cfg)' = BackupStart(cfg)
    BY <2>1, Zenon
  <2>. QED  BY <2>1, <2>2, <2>4, <2>5, <2>6 DEF LayInv
<1>3. CASE SetupOptions
  <2>1. idx' = 1 /\ ret' # "ok" /\ cfg' = cfg /\ cfg \in Configs /\ cfg \in Config
    BY <1>1, <1>3 DEF SetupOptions, TypeInv, TypeOK, ListInv
  <2>2. Done' = {}
    BY <2>1 DEF Done
  <2>3. hd'.gptLoc = GptLocation(cfg) /\ hd'.table = TableType(cfg) /\ parts' = Listed(cfg)
    BY <1>3, Zenon DEF SetupOptions, Listed, ImageSizeOf
  <2>4. "gpt" \in hd'.table => ~(idx' > Len(parts'))
    <3>1. "gpt" \in TableType(cfg) => Len(cfg.parts) \in Nat /\ Len(Listed(cfg)) = Len(cfg.parts) + 4
      BY <2>1, ListedAreas DEF AreasListed
    <3>. QED  BY <2>1, <2>3, <3>1
  <2>5. GptLocation(cfg)' = GptLocation(cfg)
    BY <2>1, Zenon
  <2>. QED  BY <2>1, <2>2, <2>3, <2>4, <2>5 DEF LayInv
<1>4. CASE FinishSetup
  <2>1. /\ Settled /\ Settled' /\ idx > Len(parts) /\ ret # "ok"
        /\ UNCHANGED <<cfg, parts, idx, now>> /\ size = ImageSizeOf(cfg)
        /\ size' = IF size = 0 THEN now ELSE size
    BY <1>1, <1>4, FinishSetupHd DEF FinishSetup, ListInv
  <2>2. /\ hd'.gptLoc = hd.gptLoc /\ hd'.table = hd.table
        /\ WholeImage => hd'.fileSize = size'
    BY <1>1, <1>4 DEF FinishSetup, TypeInv, TypeOK, WholeImage
  <2>3. /\ GptLocation(cfg)' = GptLocation(cfg) /\ BackupStart(cfg)' = BackupStart(cfg)
        /\ ImageSizeOf(cfg)' = ImageSizeOf(cfg) /\ Done' = Done
    BY <2>1, Zenon DEF Done
  <2>. QED  BY <2>1, <2>2, <2>3 DEF LayInv, WholeImage
<1>5. CASE (pc # "done" /\ Refuse) \/ UNCHANGED vars
  <2>1. UNCHANGED <<cfg, hd, size, parts, idx, now>> /\ (ret' = ret \/ (ret # "ok" /\ ret' # "ok"))
    BY <1>1, <1>5 DEF Refuse, vars, ListInv
  <2>2. /\ GptLocation(cfg)' = GptLocation(cfg) /\ BackupStart(cfg)' = BackupStart(cfg)
        /\ ImageSizeOf(cfg)' = ImageSizeOf(cfg) /\ Done' = Done /\ (Settled' <=> Settled)
    BY <2>1, Zenon DEF Done, Settled
  <2>. QED  BY <2>1, <2>2 DEF LayInv, WholeImage
<1>. QED  BY <1>2, <1>3, <1>4, <1>5, StepCases

\* LayInv holds in every execution of setup.
LEMMA LayInvariant == ASSUME NEW M \in Nat, Fits(M) PROVE Spec => []LayInv
<1>1. Init => LayInv
  BY DEF Init, LayInv, Settled
<1>2. HdInv(M) /\ LayInv /\ [Next]_vars => LayInv'
  BY LayStep
<1>. QED  BY <1>1, <1>2, HdInvariant, PTL DEF Spec

-----------------------------------------------------------------------------
\* The areas of the partition table lie where hdimage_generate writes it.
LEMMA TablesKnown ==
  ASSUME NEW M \in Nat, Fits(M), HdInv(M), LayInv, ret = "ok" PROVE TablesPlaced
<1>1. /\ TypeInv /\ ListInv /\ SpaceInv(M) /\ cfg \in Configs /\ cfg \in Config
      /\ parts \in Seq(Partition) /\ idx \in Nat /\ size \in Nat /\ now \in Nat
  BY FitsConfig DEF HdInv, TypeInv, TypeOK
<1>2. Settled
  BY <1>1 DEF ListInv
<1>3. /\ idx > Len(parts) /\ now <= size /\ \A k \in Done : End(parts[k]) <= now
      /\ hd.table = TableType(cfg) /\ Len(parts) = Len(Listed(cfg))
      /\ hd.gptLoc = GptLocation(cfg)
      /\ size = IF ImageSizeOf(cfg) = 0 THEN now ELSE ImageSizeOf(cfg)
  BY <1>1, <1>2 DEF SpaceInv, ListInv, LayInv
<1>4. Done = 1 .. Len(parts) \/ Done = 1 .. idx - 1
  BY DEF Done
<1>5. DOMAIN parts \subseteq Done /\ DOMAIN parts = 1 .. Len(parts)
  BY <1>1, <1>3 DEF Done
<1>6. PICK n \in Nat : n = Len(cfg.parts)
  BY <1>1, FitsConfig
<1>7. hd.table # {} => AreasListed(cfg, n)
  BY <1>1, <1>3, <1>6, ListedAreas
<1>8. /\ Sector = 512 /\ MbrTail = 72 /\ Sector - MbrTail = 440 /\ ArraySize = 16384
      /\ BackupSize = 16896
  BY AreaSizes, SMT DEF MbrTail, ArraySize
<1>9. ASSUME NEW k \in DOMAIN parts, NEW o \in Nat, NEW z \in Nat, o # 0, z # 0,
             AreaIs(Listed(cfg)[k], o, z)
      PROVE  AreaPlaced(k, o, z)
  BY <1>2, <1>5, <1>9, KeptArea, Zenon DEF AreaPlaced
<1>10. "gpt" \in hd.table => MbrAt = n + 1 /\ n + 4 = Len(parts)
  BY <1>3, <1>7, SMT DEF MbrAt, AreasListed
<1>11. hd.table # {} /\ "gpt" \notin hd.table => MbrAt = n + 1 /\ n + 1 = Len(parts)
  BY <1>3, <1>7, SMT DEF MbrAt, AreasListed
<1>12. hd.table # {} => AreaPlaced(MbrAt, Sector - MbrTail, MbrTail)
  <2> SUFFICES ASSUME hd.table # {} PROVE AreaPlaced(MbrAt, 440, 72)
    BY <1>8
  <2>1. MbrAt = n + 1 /\ n + 1 \in DOMAIN parts
    BY <1>1, <1>10, <1>11
  <2>2. AreaIs(Listed(cfg)[n + 1], 440, 72)
    BY <1>7, <1>8, SMT DEF AreasListed
  <2>. QED  BY <1>9, <2>1, <2>2, SMT
<1>13. ASSUME "gpt" \in hd.table
       PROVE  /\ AreaPlaced(MbrAt + 1, Sector, Sector)
              /\ AreaPlaced(MbrAt + 2, hd.gptLoc, ArraySize)
              /\ AreaPlaced(MbrAt + 3, size - BackupSize, BackupSize)
  <2>1. /\ MbrAt = n + 1 /\ n + 4 = Len(parts) /\ n + 2 \in DOMAIN parts /\ n + 3 \in DOMAIN parts
        /\ n + 4 \in DOMAIN parts /\ n + 1 + 1 = n + 2 /\ n + 1 + 2 = n + 3 /\ n + 1 + 3 = n + 4
    BY <1>1, <1>10, <1>13
  <2>2. /\ AreaIs(Listed(cfg)[n + 2], 512, 512) /\ AreaIs(Listed(cfg)[n + 3], GptLocation(cfg), 16384)
        /\ AreaIs(Listed(cfg)[n + 4], BackupStart(cfg), 16896)
    BY <1>3, <1>7, <1>8, <1>13, SMT DEF AreasListed
  <2>3. GptLocation(cfg) \in Nat /\ GptLocation(cfg) # 0
    BY <1>1, FitsConfig, AreaSizes, SMT DEF GptLocation
  <2>4. AreaPlaced(n + 2, 512, 512) /\ AreaPlaced(n + 3, GptLocation(cfg), 16384)
    BY <1>9, <2>1, <2>2, <2>3, SMT
  <2> DEFINE p == parts[n + 4]
  <2>5. /\ p \in Partition /\ p.image = NoImage /\ p.size = 16896 /\ End(p) <= now
        /\ n + 4 \in Done
    <3>1. n + 4 \in Done /\ p \in Partition /\ End(p) <= now
      BY <1>1, <1>3, <1>5, <2>1
    <3>2. p.image = Listed(cfg)[n + 4].image
          /\ (Listed(cfg)[n + 4].size # 0 /\ ~Listed(cfg)[n + 4].autoresize
                => p.size = Listed(cfg)[n + 4].size)
      BY <1>1, <1>2, <3>1 DEF ListInv
    <3>. QED  BY <2>2, <3>1, <3>2 DEF AreaIs
  <2>6. p.offset \in Nat /\ End(p) = p.offset + 16896
    BY <2>5, SMT DEF End, Partition
  <2>7. BackupStart(cfg) # 0 => p.offset = BackupStart(cfg)
    <3>1. BackupStart(cfg) \in Nat
      <4>1. PICK s \in Nat : s = ImageSizeOf(cfg)
        BY <1>1, FitsConfig
      <4>2. BackupSize \in Nat
        BY <1>8
      <4>3. Minus(s, BackupSize) \in Nat
        BY <4>2, MinusType, Zenon
      <4>. QED  BY <4>1, <4>3 DEF BackupStart
    <3>2. BackupStart(cfg) # 0 => AreaPlaced(n + 4, BackupStart(cfg), 16896)
      BY <1>9, <2>1, <2>2, <3>1, SMT
    <3>. QED  BY <3>2 DEF AreaPlaced
  <2>8. p.offset = size - 16896
    <3>1. PICK s \in Nat : s = ImageSizeOf(cfg)
      BY <1>1 DEF ImageSizeOf, Config
    <3>2. CASE s = 0
      <4>1. BackupStart(cfg) = 0 /\ size = now
        BY <1>3, <3>1, <3>2 DEF BackupStart
      <4>2. End(p) = now
        BY <1>2, <1>3, <1>13, <2>1, <4>1 DEF LayInv
      <4>. QED  BY <1>1, <2>6, <4>1, <4>2
    <3>3. CASE s # 0
      <4>1. size = s /\ BackupStart(cfg) = Minus(s, 16896) /\ s <= M /\ M \in Nat /\ M < ULL /\ M >= 65536
        <5>1. s <= M /\ M >= 65536 /\ M < ULL
          <6>1. s <= M /\ M >= 65536
            BY <1>1, <3>1, FitsConfig
          <6>2. 2 * (ULL \div 2) <= ULL /\ 6 * Step(M) <= ULL \div 2 /\ Step(M) = 6 * M
                /\ ULL \div 2 \in Nat
            BY <1>1, WidthIsAmple
          <6>. QED  BY <6>1, <6>2, ULLAssumption
        <5>. QED  BY <1>3, <1>8, <3>1, <3>3, <5>1 DEF BackupStart
      <4>2. CASE s < 16896
        <5>1. BackupStart(cfg) = ULL + s - 16896
          BY <3>3, <4>1, <4>2, MinusBelowZero, ULLAssumption, SMT
        <5>. QED  BY <1>1, <1>3, <2>5, <2>6, <2>7, <4>1, <5>1, ULLAssumption, SMTT(30)
      <4>3. CASE s >= 16896
        <5>1. BackupStart(cfg) = s - 16896
          BY <4>1, <4>3, MinusExact, ULLAssumption, SMT
        <5>. QED  BY <1>1, <1>3, <2>5, <2>6, <2>7, <4>1, <4>3, <5>1, SMT
      <4>. QED  BY <4>2, <4>3
    <3>. QED  BY <3>2, <3>3
  <2>9. AreaPlaced(n + 4, size - 16896, 16896)
    BY <2>1, <2>5, <2>8 DEF AreaPlaced
  <2>. QED  BY <1>3, <1>8, <2>1, <2>4, <2>9
<1>. QED  BY <1>12, <1>13 DEF TablesPlaced

\* What setup proves of a layout it accepts.
LEMMA AcceptedLayout ==
  ASSUME NEW M \in Nat, Fits(M), HdInv(M), LayInv, BootRecordRoom, FileSizeCoversData,
         AreasInImage, ret = "ok"
  PROVE  Accepted
<1>1. TypeInv /\ ListInv /\ SpaceInv(M) /\ AreasDisjoint /\ parts \in Seq(Partition)
      /\ idx \in 1 .. Len(parts) + 1
  BY DEF HdInv, TypeInv, TypeOK
<1>2. Settled
  BY <1>1 DEF ListInv
<1>3. idx > Len(parts)
  BY <1>1, <1>2 DEF SpaceInv
<1>4. Done = 1 .. Len(parts)
  BY <1>1, <1>3 DEF Done
<1>5. TablesPlaced
  BY TablesKnown
<1>6. cfg.block => size = IF cfg.device = 0 THEN now ELSE cfg.device
  BY <1>2 DEF LayInv, ImageSizeOf
<1>7. \A i \in DOMAIN parts : parts[i].image # NoImage => ImageSize[parts[i].image] <= parts[i].size
  BY <1>1, <1>2, <1>4 DEF LayInv
<1>8. WholeImage => hd.fileSize = size
  BY <1>2 DEF LayInv
<1>. QED  BY <1>1, <1>4, <1>5, <1>6, <1>7, <1>8 DEF Accepted

-----------------------------------------------------------------------------
(***************************************************************************)
(* Where two writes may share bytes.                                       *)
(***************************************************************************)
Kinds  == {"wipe", "image", "ebr", "gpt", "mbr"}
Logged == [kind: Kinds, from: Int, to: Int, part: Nat]

\* v may come after w.
Clear(w, v) == Meet(w, v) /\ w.kind \notin {"wipe", "ebr"} => InHole(w, v)

AllClear(ws) == \A k \in DOMAIN ws : \A l \in k + 1 .. Len(ws) : Clear(ws[k], ws[l])

Within(w, k) == k \in DOMAIN parts /\ parts[k].offset <= w.from /\ w.to <= End(parts[k])

IsImageData(w) ==
  /\ w.part \in 1 .. Len(parts) /\ w = ImageData(w.part)
  /\ HasData(parts[w.part]) /\ ~TooSmall(parts[w.part])

IsRecord(w) ==
  \E j \in DOMAIN parts :
    parts[j].extended /\ w = Put("ebr", parts[j].offset - hd.align + 446, 66)

\* The numbers of an accepted layout.
LEMMA AcceptedNumbers ==
  ASSUME Accepted
  PROVE  /\ parts \in Seq(Partition) /\ DOMAIN parts = 1 .. Len(parts) /\ Len(parts) \in Nat
         /\ \A i \in DOMAIN parts :
              /\ parts[i] \in Partition /\ parts[i].offset \in Nat /\ parts[i].size \in Nat
              /\ End(parts[i]) \in Nat /\ End(parts[i]) = parts[i].offset + parts[i].size
              /\ End(parts[i]) <= size
         /\ hd.align \in Nat /\ size \in Nat /\ hd.fileSize \in Nat /\ hd.fileSize <= size
<1>1. parts \in Seq(Partition) /\ hd.align \in Nat /\ size \in Nat /\ hd.fileSize \in Nat
  BY DEF Accepted, TypeInv, TypeOK
<1>2. \A p \in Partition :
        /\ p.offset \in Nat /\ p.size \in Nat /\ End(p) \in Nat
        /\ End(p) = p.offset + p.size
  BY DEF Partition, End
<1>3. \A i \in DOMAIN parts : parts[i] \in Partition /\ End(parts[i]) <= size
  BY <1>1 DEF Accepted, AreasInImage
<1>4. hd.fileSize <= size
  BY DEF Accepted, FileSizeCoversData
<1>. QED  BY <1>1, <1>2, <1>3, <1>4

\* Two areas without an image share no byte.
LEMMA PlainPair ==
  ASSUME Accepted, NEW i \in DOMAIN parts, NEW j \in DOMAIN parts, i # j,
         parts[i].image = NoImage, parts[j].image = NoImage,
         NEW w \in Logged, NEW v \in Logged, Within(w, i), Within(v, j)
  PROVE  ~Meet(w, v)
<1>1. /\ i \in Nat /\ j \in Nat /\ parts[i].offset \in Nat /\ parts[j].offset \in Nat
      /\ End(parts[i]) \in Nat /\ End(parts[j]) \in Nat
  BY AcceptedNumbers
<1>2. \A k \in {i, j} : Area(parts[k]).from = parts[k].offset /\ Area(parts[k]).to = End(parts[k])
                        /\ Area(parts[k]).holes = {}
  BY DEF Area
<1>3. Disk!Compatible(Area(parts[j]), Area(parts[i])) \/ Disk!Compatible(Area(parts[i]), Area(parts[j]))
  BY <1>1, AcceptedNumbers DEF Accepted, AreasDisjoint
<1>4. End(parts[j]) <= parts[i].offset \/ End(parts[i]) <= parts[j].offset
  BY <1>2, <1>3 DEF Disk!Compatible, Disk!Apart, Disk!SharesOnlyHole
<1>. QED  BY <1>1, <1>4 DEF Meet, Within, Logged

\* A write within a later area shares at most a hole with the data of an image.
LEMMA HolePair ==
  ASSUME Accepted, NEW w \in Logged, IsImageData(w), NEW j \in DOMAIN parts, w.part < j,
         NEW v \in Logged, Within(v, j)
  PROVE  Clear(w, v)
<1> DEFINE i == w.part
           p == parts[i]
           q == parts[j]
<1>1. i \in DOMAIN parts /\ j \in 1 .. Len(parts) /\ i < j
  BY AcceptedNumbers DEF IsImageData
<1>2. /\ p.offset \in Nat /\ q.offset \in Nat /\ End(p) \in Nat /\ End(q) \in Nat
      /\ p \in Partition /\ End(p) = p.offset + p.size /\ p.size \in Nat
  BY <1>1, AcceptedNumbers
<1>3. p.image # NoImage /\ p.image \in Images /\ BuiltSize[p.image] \in Nat
      /\ BuiltSize[p.image] <= p.size
  <2>1. p.image # NoImage /\ p.image \in Images
    BY <1>2 DEF IsImageData, HasData, Partition
  <2>2. BuiltSize[p.image] \in Nat
    BY <2>1, BuiltSizeAssumption, ULLAssumption
  <2>. QED  BY <1>2, <2>1, <2>2 DEF IsImageData, TooSmall
<1>4. w.from = p.offset /\ w.to = p.offset + BuiltSize[p.image] /\ w.kind = "image" /\ w.to <= End(p)
  <2>1. w = ImageData(i)
    BY DEF IsImageData
  <2>2. w.from = p.offset /\ w.to = p.offset + BuiltSize[p.image] /\ w.kind = "image"
    BY <2>1 DEF ImageData
  <2>. QED  BY <1>2, <1>3, <2>2
<1>5. q.offset <= v.from /\ v.to <= End(q) /\ v.from \in Int /\ v.to \in Int
  BY DEF Within, Logged
<1>6. Disk!Compatible(Area(q), Area(p))
  BY <1>1, AcceptedNumbers DEF Accepted, AreasDisjoint
<1>7. /\ Area(q).from = q.offset /\ Area(q).to = End(q)
      /\ Area(p).from = p.offset /\ Area(p).to = End(p)
      /\ Area(p).holes = {[from |-> p.offset + e.start, to |-> p.offset + e.end] : e \in ImageHoles[p.image]}
  BY <1>3 DEF Area
<1> HIDE DEF i, p, q
<1> SUFFICES ASSUME Meet(w, v) PROVE InHole(w, v)
  BY DEF Clear
<1>8. w.from < v.to /\ v.from < w.to
  BY DEF Meet
<1>9. ~Disk!Apart(Area(q), Area(p))
  BY <1>2, <1>3, <1>4, <1>5, <1>7, <1>8 DEF Disk!Apart
<1>10. PICK h \in Area(p).holes :
         /\ h.from <= q.offset \/ h.from <= p.offset
         /\ End(q) <= h.to \/ End(p) <= h.to
  BY <1>6, <1>7, <1>9 DEF Disk!Compatible, Disk!SharesOnlyHole
<1>11. PICK e \in ImageHoles[p.image] : h = [from |-> p.offset + e.start, to |-> p.offset + e.end]
  BY <1>7, <1>10
<1>12. e.start \in Nat /\ e.end \in Nat /\ h.from = p.offset + e.start /\ h.to = p.offset + e.end
  BY <1>3, <1>11, ImagesAssumption
<1>13. e.start <= MaxOf(w.from, v.from) - w.from
  BY <1>2, <1>4, <1>5, <1>10, <1>12 DEF MaxOf
<1>14. MinOf(w.to, v.to) - w.from <= e.end
  BY <1>2, <1>3, <1>4, <1>5, <1>10, <1>12 DEF MinOf
<1>15. HoleCovering(p.image, MaxOf(w.from, v.from) - w.from, MinOf(w.to, v.to) - w.from)
  BY <1>3, <1>11, <1>13, <1>14 DEF HoleCovering
<1>. QED  BY <1>4, <1>15 DEF InHole, i, p

\* A boot record lies behind everything placed before its partition.
LEMMA RecordPair ==
  ASSUME Accepted, NEW w \in Logged, IsImageData(w), NEW j \in DOMAIN parts, w.part < j,
         parts[j].extended, NEW v, v = Put("ebr", parts[j].offset - hd.align + 446, 66)
  PROVE  Clear(w, v)
<1> DEFINE p == parts[w.part]
<1>1. w.part \in DOMAIN parts /\ j \in 1 .. Len(parts) /\ w.part \in 1 .. j - 1
  BY AcceptedNumbers DEF IsImageData
<1>2. /\ p \in Partition /\ p.offset \in Nat /\ p.size \in Nat /\ parts[j].offset \in Nat
      /\ hd.align \in Nat /\ End(p) = p.offset + p.size
  BY <1>1, AcceptedNumbers
<1>3. w.to <= End(p)
  <2>1. w.to = p.offset + BuiltSize[p.image]
    BY DEF IsImageData, ImageData
  <2>2. BuiltSize[p.image] \in Nat /\ BuiltSize[p.image] <= p.size
    <3>1. p.image \in Images
      BY <1>2 DEF IsImageData, HasData, Partition
    <3>2. BuiltSize[p.image] \in Nat
      BY <3>1, BuiltSizeAssumption, ULLAssumption
    <3>. QED  BY <1>2, <3>1, <3>2 DEF IsImageData, TooSmall
  <2>. QED  BY <1>2, <2>1, <2>2
<1>4. End(p) <= parts[j].offset - hd.align
  BY <1>1 DEF Accepted, BootRecordRoom
<1>5. v.from = parts[j].offset - hd.align + 446
  BY DEF Put
<1>. QED  BY <1>2, <1>3, <1>4, <1>5 DEF Clear, Meet, Logged

\* A log of writes goes on with another.
LEMMA ConcatClear ==
  ASSUME NEW a \in Seq(Logged), NEW b \in Seq(Logged), AllClear(a), AllClear(b),
         \A k \in DOMAIN a : \A l \in DOMAIN b : Clear(a[k], b[l])
  PROVE  /\ a \o b \in Seq(Logged) /\ AllClear(a \o b)
         /\ \A k \in DOMAIN (a \o b) :
              (\E j \in DOMAIN a : (a \o b)[k] = a[j]) \/ (\E j \in DOMAIN b : (a \o b)[k] = b[j])
<1> DEFINE c == a \o b
           n == Len(a)
           m == Len(b)
<1>1. /\ n \in Nat /\ m \in Nat /\ DOMAIN a = 1 .. n /\ DOMAIN b = 1 .. m
      /\ c \in Seq(Logged) /\ Len(c) = n + m /\ DOMAIN c = 1 .. n + m
      /\ \A k \in 1 .. n + m : c[k] = IF k <= n THEN a[k] ELSE b[k - n]
  OBVIOUS
<1> HIDE DEF c, n, m
<1>2. ASSUME NEW k \in 1 .. n + m, NEW l \in k + 1 .. n + m PROVE Clear(c[k], c[l])
  <2>1. CASE l <= n
    <3>1. k \in DOMAIN a /\ l \in k + 1 .. Len(a) /\ c[k] = a[k] /\ c[l] = a[l]
      BY <1>1, <2>1 DEF n
    <3>. QED  BY <3>1 DEF AllClear
  <2>2. CASE k > n
    <3>1. k - n \in DOMAIN b /\ l - n \in (k - n) + 1 .. Len(b) /\ c[k] = b[k - n] /\ c[l] = b[l - n]
      BY <1>1, <2>2 DEF m
    <3>. QED  BY <3>1 DEF AllClear
  <2>3. CASE k <= n /\ l > n
    <3>1. k \in DOMAIN a /\ l - n \in DOMAIN b /\ c[k] = a[k] /\ c[l] = b[l - n]
      BY <1>1, <2>3
    <3>. QED  BY <3>1
  <2>. QED  BY <1>1, <2>1, <2>2, <2>3
<1>3. AllClear(c)
  BY <1>1, <1>2 DEF AllClear
<1>4. ASSUME NEW k \in 1 .. n + m
      PROVE  (\E j \in DOMAIN a : c[k] = a[j]) \/ (\E j \in DOMAIN b : c[k] = b[j])
  <2>1. CASE k <= n
    <3>1. k \in DOMAIN a /\ c[k] = a[k]
      BY <1>1, <2>1
    <3>. QED  BY <3>1
  <2>2. CASE k > n
    <3>1. k - n \in DOMAIN b /\ c[k] = b[k - n]
      BY <1>1, <2>2
    <3>. QED  BY <3>1
  <2>. QED  BY <1>1, <2>1, <2>2
<1>. QED  BY <1>1, <1>3, <1>4 DEF c

\* A log of at most one write.
LEMMA SingleClear ==
  ASSUME NEW w \in Logged PROVE <<w>> \in Seq(Logged) /\ AllClear(<<w>>) /\ AllClear(<< >>)
BY DEF AllClear

-----------------------------------------------------------------------------
(***************************************************************************)
(* No write destroys what an earlier one put into the image.               *)
(***************************************************************************)
\* What a write on the log is, by the phase that made it.
Known(w) ==
  \/ w.kind = "wipe"
  \/ w.kind = "ebr"
  \/ w.kind = "image" /\ IsImageData(w) /\ w.part < at
  \/ /\ w.kind = "gpt" /\ gpc \notin {"wait", "parts", "gpt"}
     /\ \E k \in MbrAt + 1 .. MbrAt + 3 : Within(w, k) /\ parts[k].image = NoImage
  \/ w.kind = "mbr" /\ gpc \in {"end", "done"}

OnLog(w, ws) == \E k \in DOMAIN ws : ws[k] = w

GenInv ==
  /\ IF gpc = "wait" THEN writes = << >> ELSE ret = "ok"
  /\ at \in Nat \ {0}
  /\ gpc = "gpt" => "gpt" \in hd.table
  /\ gpc = "mbr" => hd.table # {}
  /\ writes \in Seq(Logged) /\ AllClear(writes)
  /\ \A w \in Logged : OnLog(w, writes) => Known(w)

\* What each call of Put and ImageData logs.
LEMMA PutLogged ==
  ASSUME NEW kind \in Kinds, NEW from \in Int, NEW len \in Int
  PROVE  /\ Put(kind, from, len) \in Logged /\ Put(kind, from, len).kind = kind
         /\ Put(kind, from, len).from = from /\ Put(kind, from, len).to = from + len
BY DEF Put, Logged

LEMMA ImageDataLogged ==
  ASSUME Accepted, NEW i \in DOMAIN parts, HasData(parts[i]), ~TooSmall(parts[i])
  PROVE  /\ ImageData(i) \in Logged /\ ImageData(i).kind = "image" /\ ImageData(i).part = i
         /\ IsImageData(ImageData(i)) /\ Within(ImageData(i), i)
         /\ ImageData(i).to \in Nat /\ ImageData(i).to <= size
<1> DEFINE p == parts[i]
<1>1. /\ p \in Partition /\ p.offset \in Nat /\ p.size \in Nat /\ End(p) = p.offset + p.size
      /\ i \in 1 .. Len(parts) /\ i \in Nat /\ End(p) <= size /\ size \in Nat
  BY AcceptedNumbers
<1>2. p.image \in Images
  BY <1>1 DEF HasData, Partition
<1>3. BuiltSize[p.image] \in Nat /\ BuiltSize[p.image] <= p.size
  <2>1. BuiltSize[p.image] \in Nat
    BY <1>2, BuiltSizeAssumption, ULLAssumption
  <2>. QED  BY <1>1, <2>1 DEF TooSmall
<1>4. /\ ImageData(i).kind = "image" /\ ImageData(i).part = i /\ ImageData(i).from = p.offset
      /\ ImageData(i).to = p.offset + BuiltSize[p.image]
  BY DEF ImageData
<1>5. ImageData(i) \in Logged
  <2>1. PICK o \in Int, t \in Int : o = p.offset /\ t = p.offset + BuiltSize[p.image]
    BY <1>1, <1>3
  <2>2. ImageData(i) = [kind |-> "image", from |-> o, to |-> t, part |-> i]
    BY <2>1 DEF ImageData
  <2>. QED  BY <1>1, <2>1, <2>2 DEF Logged, Kinds
<1>. QED  BY <1>1, <1>3, <1>4, <1>5 DEF IsImageData, Within

\* What the writes of one partition are, and that they do not clash.
LEMMA PartitionLog ==
  ASSUME Accepted, NEW i \in DOMAIN parts
  PROVE  /\ PartitionWrites(i) \in Seq(Logged) /\ AllClear(PartitionWrites(i))
         /\ \A l \in DOMAIN PartitionWrites(i) :
              \/ /\ parts[i].extended
                 /\ PartitionWrites(i)[l] = Put("ebr", parts[i].offset - hd.align + 446, 66)
              \/ /\ HasData(parts[i]) /\ ~TooSmall(parts[i])
                 /\ PartitionWrites(i)[l] = ImageData(i)
<1> DEFINE e == Put("ebr", parts[i].offset - hd.align + 446, 66)
           d == IF HasData(parts[i]) /\ ~TooSmall(parts[i]) THEN <<ImageData(i)>> ELSE << >>
<1>1. parts[i].offset - hd.align + 446 \in Int
  BY AcceptedNumbers
<1>2. e \in Logged /\ e.kind = "ebr"
  <2>1. PICK o \in Int : o = parts[i].offset - hd.align + 446
    BY <1>1
  <2>2. Put("ebr", o, 66) \in Logged /\ Put("ebr", o, 66).kind = "ebr"
    BY <2>1 DEF Put, Logged, Kinds
  <2>. QED  BY <2>1, <2>2
<1>3. PartitionWrites(i) = Records(i) \o d
  BY DEF PartitionWrites
<1>4. Records(i) = IF parts[i].extended THEN <<e>> ELSE << >>
  BY DEF Records
<1> HIDE DEF e
<1>5. /\ Records(i) \in Seq(Logged) /\ AllClear(Records(i))
      /\ \A k \in DOMAIN Records(i) : Records(i)[k] = e /\ parts[i].extended
  <2>1. <<e>> \in Seq(Logged) /\ AllClear(<<e>>) /\ AllClear(<< >>)
    BY <1>2, SingleClear
  <2>. QED  BY <1>4, <2>1
<1>6. /\ d \in Seq(Logged) /\ AllClear(d)
      /\ \A k \in DOMAIN d : d[k] = ImageData(i) /\ HasData(parts[i]) /\ ~TooSmall(parts[i])
  <2>1. CASE HasData(parts[i]) /\ ~TooSmall(parts[i])
    <3>1. ImageData(i) \in Logged
      BY <2>1, ImageDataLogged
    <3>2. <<ImageData(i)>> \in Seq(Logged) /\ AllClear(<<ImageData(i)>>)
      BY <3>1, SingleClear
    <3>3. d = <<ImageData(i)>>
      BY <2>1
    <3> HIDE DEF d
    <3>. QED  BY <2>1, <3>2, <3>3
  <2>2. CASE ~(HasData(parts[i]) /\ ~TooSmall(parts[i]))
    <3>1. AllClear(<< >>)
      BY <1>2, SingleClear
    <3>2. << >> \in Seq(Logged)
      OBVIOUS
    <3>3. d = << >>
      BY <2>2
    <3> HIDE DEF d
    <3>. QED  BY <3>1, <3>2, <3>3
  <2>. QED  BY <2>1, <2>2
<1> HIDE DEF d
<1>7. \A k \in DOMAIN Records(i) : \A l \in DOMAIN d : Clear(Records(i)[k], d[l])
  BY <1>2, <1>5 DEF Clear
<1>8. /\ Records(i) \o d \in Seq(Logged) /\ AllClear(Records(i) \o d)
      /\ \A k \in DOMAIN (Records(i) \o d) :
              (\E j \in DOMAIN Records(i) : (Records(i) \o d)[k] = Records(i)[j])
              \/ (\E j \in DOMAIN d : (Records(i) \o d)[k] = d[j])
  BY <1>5, <1>6, <1>7, ConcatClear
<1>. QED  BY <1>3, <1>5, <1>6, <1>8 DEF e

\* Nothing moves while the writes go on.
LEMMA SameLayout ==
  ASSUME UNCHANGED vars
  PROVE  /\ \A w, v : Clear(w, v)' <=> Clear(w, v)
         /\ \A w, k : Within(w, k)' <=> Within(w, k)
         /\ \A w : IsImageData(w)' <=> IsImageData(w)
         /\ MbrAt' = MbrAt /\ parts' = parts /\ hd' = hd /\ ret' = ret /\ cfg' = cfg /\ size' = size
<1>1. UNCHANGED <<ret, cfg, hd, size, parts, idx, now>>
  BY DEF vars
<1>2. ASSUME NEW w, NEW v PROVE Clear(w, v)' <=> Clear(w, v)
  BY <1>1 DEF Clear, Meet, InHole, HoleCovering
<1>3. ASSUME NEW w, NEW k PROVE Within(w, k)' <=> Within(w, k)
  BY <1>1 DEF Within, End
<1>4. ASSUME NEW w PROVE IsImageData(w)' <=> IsImageData(w)
  BY <1>1 DEF IsImageData, ImageData, HasData, TooSmall
<1>5. MbrAt' = MbrAt
  BY <1>1 DEF MbrAt
<1>. QED  BY <1>1, <1>2, <1>3, <1>4, <1>5

\* Writes that belong where they go keep the invariant, if none of them clashes
\* with the log.
LEMMA GrowLog ==
  ASSUME GenInv, NEW ws \in Seq(Logged), AllClear(ws), UNCHANGED vars,
         writes' = writes \o ws, at' \in Nat, at' >= at,
         gpc' # "wait", ret = "ok",
         gpc' = "gpt" => "gpt" \in hd.table,
         gpc' = "mbr" => hd.table # {},
         \A w \in Logged : Known(w) => Known(w)',
         \A w \in Logged : OnLog(w, ws) => Known(w)',
         \A k \in DOMAIN writes : \A l \in DOMAIN ws : Clear(writes[k], ws[l])
  PROVE  GenInv'
<1>1. writes \in Seq(Logged) /\ AllClear(writes) /\ at \in Nat \ {0}
  BY DEF GenInv
<1>2. /\ writes \o ws \in Seq(Logged) /\ AllClear(writes \o ws)
      /\ \A k \in DOMAIN (writes \o ws) :
              (\E j \in DOMAIN writes : (writes \o ws)[k] = writes[j])
              \/ (\E j \in DOMAIN ws : (writes \o ws)[k] = ws[j])
  BY <1>1, ConcatClear
<1>3. AllClear(writes)'
  BY <1>2, SameLayout DEF AllClear
<1>4. ASSUME NEW w \in Logged, OnLog(w, writes') PROVE Known(w)'
  <2>1. OnLog(w, writes) \/ OnLog(w, ws)
    BY <1>2, <1>4 DEF OnLog
  <2>. QED  BY <2>1 DEF GenInv
<1>5. hd' = hd /\ ret' = ret
  BY SameLayout
<1>. QED  BY <1>1, <1>2, <1>3, <1>4, <1>5 DEF GenInv

\* A step that leaves the log alone keeps what is known of its writes, as long as
\* it does not go back.
LEMMA StillKnown ==
  ASSUME GenInv, UNCHANGED vars, at' \in Nat, at' >= at,
         gpc \in {"wait", "parts"} \/ gpc' \notin {"wait", "parts", "gpt"},
         gpc \in {"end", "done"} => gpc' \in {"end", "done"}
  PROVE  \A w \in Logged : Known(w) => Known(w)'
<1> SUFFICES ASSUME NEW w \in Logged, Known(w) PROVE Known(w)'
  OBVIOUS
<1>1. /\ \A k : Within(w, k)' <=> Within(w, k)
      /\ IsImageData(w)' <=> IsImageData(w)
      /\ MbrAt' = MbrAt /\ parts' = parts
  BY SameLayout
<1>2. w.part \in Nat
  BY DEF Logged
<1>3. CASE w.kind = "image" /\ IsImageData(w) /\ w.part < at
  <2>1. w.part < at'
    BY <1>2, <1>3 DEF GenInv
  <2>. QED  BY <1>1, <1>3, <2>1 DEF Known
<1>4. CASE /\ w.kind = "gpt" /\ gpc \notin {"wait", "parts", "gpt"}
           /\ \E k \in MbrAt + 1 .. MbrAt + 3 : Within(w, k) /\ parts[k].image = NoImage
  BY <1>1, <1>4, Zenon DEF Known
<1>5. CASE w.kind = "mbr" /\ gpc \in {"end", "done"}
  BY <1>5 DEF Known
<1>6. CASE w.kind = "wipe" \/ w.kind = "ebr"
  BY <1>6 DEF Known
<1>. QED  BY <1>3, <1>4, <1>5, <1>6 DEF Known

\* A step that leaves the log alone.
LEMMA KeepLog ==
  ASSUME GenInv, UNCHANGED vars, writes' = writes, at' = at, gpc' # "wait", ret = "ok",
         gpc' = "gpt" => "gpt" \in hd.table,
         gpc' = "mbr" => hd.table # {},
         gpc \in {"wait", "parts"} \/ gpc' \notin {"wait", "parts", "gpt"},
         gpc \in {"end", "done"} => gpc' \in {"end", "done"}
  PROVE  GenInv'
<1>1. at \in Nat \ {0} /\ writes \in Seq(Logged) /\ AllClear(writes)
  BY DEF GenInv
<1>2. \A w \in Logged : Known(w) => Known(w)'
  BY <1>1, StillKnown
<1>3. AllClear(writes)'
  BY <1>1, SameLayout DEF AllClear
<1>4. \A w \in Logged : OnLog(w, writes') => Known(w)'
  BY <1>2 DEF GenInv
<1>5. hd' = hd /\ ret' = ret
  BY SameLayout
<1>. QED  BY <1>1, <1>3, <1>4, <1>5 DEF GenInv

\* prepare_image starts the log.
LEMMA PrepareStep == ASSUME GenInv, PrepareImage, UNCHANGED vars PROVE GenInv'
<1>1. PICK w : w = Put("wipe", 0, 2048)
  OBVIOUS
<1>2. w \in Logged /\ w.kind = "wipe"
  BY <1>1 DEF Put, Logged, Kinds
<1>3. <<w>> \in Seq(Logged) /\ << >> \in Seq(Logged)
  BY <1>2
<1>4. /\ gpc = "wait" /\ gpc' = "parts" /\ ret = "ok" /\ at' = at
      /\ writes' = IF cfg.block THEN <<w>> ELSE << >>
  BY <1>1 DEF PrepareImage
<1>5. at \in Nat \ {0} /\ ret' = ret
  BY SameLayout DEF GenInv
<1>6. AllClear(writes)'
  <2>1. CASE cfg.block
    <3>1. writes' = <<w>>
      BY <1>4, <2>1
    <3>2. \A k \in DOMAIN writes' : \A l \in k + 1 .. Len(writes') : FALSE
      BY <3>1
    <3>. QED  BY <3>2 DEF AllClear
  <2>2. CASE ~cfg.block
    <3>1. writes' = << >>
      BY <1>4, <2>2
    <3>2. \A k \in DOMAIN writes' : FALSE
      BY <3>1
    <3>. QED  BY <3>2 DEF AllClear
  <2>. QED  BY <2>1, <2>2
<1>7. ASSUME NEW v \in Logged, OnLog(v, writes') PROVE Known(v)'
  <2>1. v.kind = "wipe"
    BY <1>2, <1>4, <1>7 DEF OnLog
  <2>. QED  BY <2>1 DEF Known
<1>8. writes' \in Seq(Logged)
  BY <1>3, <1>4
<1>. QED  BY <1>4, <1>5, <1>6, <1>7, <1>8 DEF GenInv

\* Adding a partition: its boot record lies behind all that was copied, and its
\* image at most in holes of it.
LEMMA AddStep == ASSUME Accepted, GenInv, AddPartition, UNCHANGED vars PROVE GenInv'
<1>1. /\ gpc = "parts" /\ at <= Len(parts) /\ ret = "ok" /\ writes' = writes \o PartitionWrites(at)
      /\ at \in Nat \ {0} /\ writes \in Seq(Logged)
      /\ \A w \in Logged : OnLog(w, writes) => Known(w)
  BY DEF AddPartition, GenInv
<1>2. at \in DOMAIN parts
  BY <1>1, AcceptedNumbers
<1>3. IF TooSmall(parts[at]) THEN gpc' = "done" /\ at' = at ELSE at' = at + 1 /\ gpc' = gpc
  BY DEF AddPartition, Return
<1>4. at' \in Nat /\ at' >= at /\ gpc' \in {"parts", "done"}
  BY <1>1, <1>3
<1>5. PICK ws : ws = PartitionWrites(at)
  OBVIOUS
<1>6. /\ ws \in Seq(Logged) /\ AllClear(ws)
      /\ \A l \in DOMAIN ws :
           \/ parts[at].extended /\ ws[l] = Put("ebr", parts[at].offset - hd.align + 446, 66)
           \/ HasData(parts[at]) /\ ~TooSmall(parts[at]) /\ ws[l] = ImageData(at)
  BY <1>2, <1>5, PartitionLog
<1>7. ASSUME NEW w \in Logged, OnLog(w, writes)
      PROVE  w.kind \in {"wipe", "ebr"} \/ (w.kind = "image" /\ IsImageData(w) /\ w.part < at)
  <2>1. Known(w)
    BY <1>1, <1>7
  <2>. QED  BY <1>1, <2>1 DEF Known
<1>8. \A w \in Logged : Known(w) => Known(w)'
  BY <1>1, <1>4, StillKnown
<1>9. ASSUME NEW w \in Logged, OnLog(w, ws) PROVE Known(w)'
  <2>1. PICK l \in DOMAIN ws : ws[l] = w
    BY <1>9 DEF OnLog
  <2>2. CASE w = Put("ebr", parts[at].offset - hd.align + 446, 66)
    BY <2>2 DEF Known, Put
  <2>3. CASE HasData(parts[at]) /\ ~TooSmall(parts[at]) /\ w = ImageData(at)
    <3>1. w.kind = "image" /\ w.part = at /\ IsImageData(w)
      BY <1>2, <2>3, ImageDataLogged
    <3>2. at' = at + 1 /\ w.part < at'
      BY <1>1, <1>3, <2>3, <3>1
    <3>3. IsImageData(w)'
      BY <3>1, SameLayout
    <3>. QED  BY <3>1, <3>2, <3>3 DEF Known
  <2>. QED  BY <1>6, <2>1, <2>2, <2>3
<1>10. ASSUME NEW k \in DOMAIN writes, NEW l \in DOMAIN ws PROVE Clear(writes[k], ws[l])
  <2>1. PICK w \in Logged : w = writes[k]
    BY <1>1
  <2>2. PICK v \in Logged : v = ws[l]
    BY <1>6
  <2>3. OnLog(w, writes)
    BY <2>1 DEF OnLog
  <2>4. CASE w.kind \in {"wipe", "ebr"}
    BY <2>1, <2>4 DEF Clear
  <2>5. CASE IsImageData(w) /\ w.part < at
    <3>1. CASE parts[at].extended /\ v = Put("ebr", parts[at].offset - hd.align + 446, 66)
      BY <1>2, <2>1, <2>2, <2>5, <3>1, RecordPair
    <3>2. CASE HasData(parts[at]) /\ ~TooSmall(parts[at]) /\ v = ImageData(at)
      <4>1. Within(v, at)
        BY <1>2, <3>2, ImageDataLogged
      <4>. QED  BY <1>2, <2>1, <2>2, <2>5, <4>1, HolePair
    <3>. QED  BY <1>6, <2>2, <3>1, <3>2
  <2>. QED  BY <1>7, <2>3, <2>4, <2>5
<1>. QED  BY <1>1, <1>4, <1>5, <1>6, <1>8, <1>9, <1>10, GrowLog

-----------------------------------------------------------------------------
\* The images of the declared partitions come before the areas of the tables.
LEMMA ImagesFirst ==
  ASSUME Accepted, hd.table # {}, NEW i \in DOMAIN parts, parts[i].image # NoImage
  PROVE  i < MbrAt
<1>1. parts \in Seq(Partition) /\ i \in 1 .. Len(parts) /\ Len(parts) \in Nat
  BY AcceptedNumbers
<1>2. parts[MbrAt].image = NoImage
  BY DEF Accepted, TablesPlaced, AreaPlaced
<1>3. CASE "gpt" \in hd.table
  <2>1. MbrAt = Len(parts) - 3
    BY <1>3 DEF MbrAt
  <2>2. parts[MbrAt + 1].image = NoImage /\ parts[MbrAt + 2].image = NoImage
        /\ parts[MbrAt + 3].image = NoImage
    BY <1>3 DEF Accepted, TablesPlaced, AreaPlaced
  <2>3. i # MbrAt /\ i # MbrAt + 1 /\ i # MbrAt + 2 /\ i # MbrAt + 3
    BY <1>2, <2>2
  <2>. QED  BY <1>1, <2>1, <2>3
<1>4. CASE "gpt" \notin hd.table
  <2>1. MbrAt = Len(parts)
    BY <1>1, <1>4 DEF MbrAt
  <2>2. i # MbrAt
    BY <1>2
  <2>. QED  BY <1>1, <2>1, <2>2
<1>. QED  BY <1>3, <1>4

\* A write that fills no more than the area of a table.
InTableArea(w, k) == w.kind = "gpt" /\ Within(w, k) /\ parts[k].image = NoImage

\* The pieces of the GPT lie in the areas set aside for it.
LEMMA GptInAreas ==
  ASSUME Accepted, "gpt" \in hd.table
  PROVE  /\ MbrAt \in Nat /\ {MbrAt + 1, MbrAt + 2, MbrAt + 3} \subseteq DOMAIN parts
         /\ \E h, a, ba, bh \in Logged :
              /\ GptWrites = <<h, a>> /\ BackupWrites = <<ba, bh>>
              /\ InTableArea(h, MbrAt + 1) /\ InTableArea(a, MbrAt + 2)
              /\ InTableArea(ba, MbrAt + 3) /\ InTableArea(bh, MbrAt + 3) /\ ~Meet(ba, bh)
              /\ h.to = 604 /\ a.to = hd.gptLoc + ArraySize
<1>1. /\ AreaPlaced(MbrAt + 1, Sector, Sector) /\ AreaPlaced(MbrAt + 2, hd.gptLoc, ArraySize)
      /\ AreaPlaced(MbrAt + 3, size - BackupSize, BackupSize) /\ AreaPlaced(MbrAt, Sector - MbrTail, MbrTail)
  BY DEF Accepted, TablesPlaced
<1>2. /\ Sector = 512 /\ ArraySize = 16384 /\ BackupSize = 16896 /\ HeaderSize = 92
  BY AreaSizes, SMT DEF ArraySize, HeaderSize
<1>3. {MbrAt + 1, MbrAt + 2, MbrAt + 3} \subseteq DOMAIN parts /\ MbrAt \in Nat
  BY <1>1, AcceptedNumbers DEF AreaPlaced
<1>4. size \in Nat /\ hd.gptLoc \in Nat
  BY <1>1, AcceptedNumbers DEF AreaPlaced
<1>5. PICK h : h = Put("gpt", Sector, HeaderSize)
  OBVIOUS
<1>6. PICK a : a = Put("gpt", hd.gptLoc, ArraySize)
  OBVIOUS
<1>7. PICK ba : ba = Put("gpt", size - BackupSize, ArraySize)
  OBVIOUS
<1>8. PICK bh : bh = Put("gpt", size - Sector, HeaderSize)
  OBVIOUS
<1>9. PICK g \in Kinds : g = "gpt"
  BY DEF Kinds
<1>10. /\ h \in Logged /\ h.kind = "gpt" /\ h.from = 512 /\ h.to = 604
  BY <1>2, <1>5, <1>9 DEF Put, Logged
<1>11. /\ a \in Logged /\ a.kind = "gpt" /\ a.from = hd.gptLoc /\ a.to = hd.gptLoc + ArraySize
  <2>1. PICK o \in Int, t \in Int : o = hd.gptLoc /\ t = hd.gptLoc + ArraySize
    BY <1>2, <1>4
  <2>. QED  BY <1>6, <1>9, <2>1 DEF Put, Logged
<1>12. /\ ba \in Logged /\ ba.kind = "gpt" /\ ba.from = size - 16896 /\ ba.to = size - 512
  <2>1. PICK o \in Int, t \in Int : o = size - BackupSize /\ t = size - BackupSize + ArraySize
    BY <1>2, <1>4
  <2>2. ba \in Logged /\ ba.kind = "gpt" /\ ba.from = o /\ ba.to = t
    BY <1>7, <1>9, <2>1 DEF Put, Logged
  <2>. QED  BY <1>2, <1>4, <2>1, <2>2
<1>13. /\ bh \in Logged /\ bh.kind = "gpt" /\ bh.from = size - 512 /\ bh.to = size - 420
  <2>1. PICK o \in Int, t \in Int : o = size - Sector /\ t = size - Sector + HeaderSize
    BY <1>2, <1>4
  <2>2. bh \in Logged /\ bh.kind = "gpt" /\ bh.from = o /\ bh.to = t
    BY <1>8, <1>9, <2>1 DEF Put, Logged
  <2>. QED  BY <1>2, <1>4, <2>1, <2>2
<1>14. GptWrites = <<h, a>> /\ BackupWrites = <<ba, bh>>
  BY <1>5, <1>6, <1>7, <1>8 DEF GptWrites, BackupWrites
<1>15. /\ parts[MbrAt + 1].image = NoImage /\ parts[MbrAt + 1].offset = 512 /\ End(parts[MbrAt + 1]) = 1024
       /\ parts[MbrAt + 2].image = NoImage /\ parts[MbrAt + 2].offset = hd.gptLoc
       /\ End(parts[MbrAt + 2]) = hd.gptLoc + ArraySize
       /\ parts[MbrAt + 3].image = NoImage /\ parts[MbrAt + 3].offset = size - 16896
       /\ End(parts[MbrAt + 3]) = size
  BY <1>1, <1>2, <1>4 DEF AreaPlaced, End
<1>16. InTableArea(h, MbrAt + 1)
  BY <1>3, <1>10, <1>15 DEF InTableArea, Within
<1>17. InTableArea(a, MbrAt + 2)
  BY <1>3, <1>4, <1>2, <1>11, <1>15 DEF InTableArea, Within
<1>18. InTableArea(ba, MbrAt + 3) /\ InTableArea(bh, MbrAt + 3)
  BY <1>3, <1>4, <1>12, <1>13, <1>15 DEF InTableArea, Within
<1>19. ~Meet(ba, bh)
  BY <1>4, <1>12, <1>13 DEF Meet
<1>. QED  BY <1>3, <1>10, <1>11, <1>12, <1>13, <1>14, <1>16, <1>17, <1>18, <1>19

\* A log of two writes.
LEMMA PairClear ==
  ASSUME NEW w \in Logged, NEW v \in Logged, ~Meet(w, v)
  PROVE  <<w, v>> \in Seq(Logged) /\ AllClear(<<w, v>>) /\ \A x : OnLog(x, <<w, v>>) => x \in {w, v}
<1>1. <<w, v>> \in Seq(Logged)
  OBVIOUS
<1>2. \A k \in DOMAIN <<w, v>> : \A l \in k + 1 .. Len(<<w, v>>) : k = 1 /\ l = 2
  OBVIOUS
<1>3. Clear(w, v)
  BY DEF Clear
<1>4. AllClear(<<w, v>>)
  BY <1>2, <1>3 DEF AllClear
<1>. QED  BY <1>1, <1>4 DEF OnLog

\* Both halves of the GPT go on the log without a clash.
LEMMA GptLog ==
  ASSUME Accepted, "gpt" \in hd.table, NEW b, b = BackupWrites \/ b = << >>
  PROVE  /\ GptWrites \in Seq(Logged) /\ b \in Seq(Logged)
         /\ GptWrites \o b \in Seq(Logged) /\ AllClear(GptWrites \o b)
         /\ \A w \in Logged : OnLog(w, GptWrites \o b) =>
              \E k \in MbrAt + 1 .. MbrAt + 3 : InTableArea(w, k)
<1>1. MbrAt \in Nat /\ {MbrAt + 1, MbrAt + 2, MbrAt + 3} \subseteq DOMAIN parts
  BY GptInAreas
<1>2. PICK h, a, ba, bh \in Logged :
        /\ GptWrites = <<h, a>> /\ BackupWrites = <<ba, bh>>
        /\ InTableArea(h, MbrAt + 1) /\ InTableArea(a, MbrAt + 2)
        /\ InTableArea(ba, MbrAt + 3) /\ InTableArea(bh, MbrAt + 3) /\ ~Meet(ba, bh)
  BY GptInAreas
<1>3. ASSUME NEW i \in {MbrAt + 1, MbrAt + 2, MbrAt + 3}, NEW j \in {MbrAt + 1, MbrAt + 2, MbrAt + 3},
             i # j, NEW w \in Logged, NEW v \in Logged, InTableArea(w, i), InTableArea(v, j)
      PROVE  ~Meet(w, v)
  BY <1>1, <1>3, PlainPair DEF InTableArea
<1>4. /\ MbrAt + 1 # MbrAt + 2 /\ MbrAt + 1 # MbrAt + 3 /\ MbrAt + 2 # MbrAt + 3
      /\ MbrAt + 1 \in MbrAt + 1 .. MbrAt + 3 /\ MbrAt + 2 \in MbrAt + 1 .. MbrAt + 3
      /\ MbrAt + 3 \in MbrAt + 1 .. MbrAt + 3
  BY <1>1
<1>5. ~Meet(h, a) /\ ~Meet(h, ba) /\ ~Meet(h, bh) /\ ~Meet(a, ba) /\ ~Meet(a, bh)
  BY <1>2, <1>3, <1>4
<1>6. /\ GptWrites \in Seq(Logged) /\ AllClear(GptWrites)
      /\ \A x : OnLog(x, GptWrites) => x \in {h, a}
  BY <1>2, <1>5, PairClear
<1>7. /\ b \in Seq(Logged) /\ AllClear(b) /\ \A x : OnLog(x, b) => x \in {ba, bh}
  <2>1. CASE b = BackupWrites
    BY <1>2, <2>1, PairClear
  <2>2. CASE b = << >>
    <3>1. AllClear(<< >>)
      BY <1>2, SingleClear
    <3>2. << >> \in Seq(Logged)
      OBVIOUS
    <3>3. \A x : ~OnLog(x, << >>)
      BY DEF OnLog
    <3>. QED  BY <2>2, <3>1, <3>2, <3>3
  <2>. QED  BY <2>1, <2>2
<1>8. ASSUME NEW k \in DOMAIN GptWrites, NEW l \in DOMAIN b PROVE Clear(GptWrites[k], b[l])
  <2>1. GptWrites[k] \in {h, a} /\ b[l] \in {ba, bh}
    BY <1>6, <1>7 DEF OnLog
  <2>. QED  BY <1>5, <2>1 DEF Clear
<1>9. /\ GptWrites \o b \in Seq(Logged) /\ AllClear(GptWrites \o b)
      /\ \A k \in DOMAIN (GptWrites \o b) :
              (\E j \in DOMAIN GptWrites : (GptWrites \o b)[k] = GptWrites[j])
              \/ (\E j \in DOMAIN b : (GptWrites \o b)[k] = b[j])
  BY <1>6, <1>7, <1>8, ConcatClear
<1>10. ASSUME NEW w \in Logged, OnLog(w, GptWrites \o b)
       PROVE  \E k \in MbrAt + 1 .. MbrAt + 3 : InTableArea(w, k)
  <2>1. OnLog(w, GptWrites) \/ OnLog(w, b)
    BY <1>9, <1>10 DEF OnLog
  <2>2. w \in {h, a, ba, bh}
    BY <1>6, <1>7, <2>1
  <2>. QED  BY <1>2, <1>4, <2>2
<1>. QED  BY <1>6, <1>7, <1>9, <1>10

\* Writing the GPT: behind all images in the list, and nothing else is on the log.
LEMMA GptStep == ASSUME Accepted, GenInv, InsertGpt, UNCHANGED vars PROVE GenInv'
<1> DEFINE len == Extended(flen, GptWrites)
           tooLong == ~cfg.noBackup /\ len > size
           ok == ~cfg.noBackup /\ ~tooLong
<1>1. /\ gpc = "gpt" /\ "gpt" \in hd.table /\ ret = "ok" /\ at' = at /\ at \in Nat \ {0}
      /\ writes \in Seq(Logged) /\ \A w \in Logged : OnLog(w, writes) => Known(w)
  BY DEF InsertGpt, GenInv
<1>2. PICK b : b = IF ok THEN BackupWrites ELSE << >>
  OBVIOUS
<1>3. writes' = writes \o GptWrites \o b
  BY <1>2, Zenon DEF InsertGpt
<1>4. gpc' = IF tooLong THEN "done" ELSE "mbr"
  BY DEF InsertGpt, Return
<1>5. b = BackupWrites \/ b = << >>
  BY <1>2
<1> HIDE DEF len, tooLong, ok
<1>6. /\ GptWrites \in Seq(Logged) /\ b \in Seq(Logged)
      /\ GptWrites \o b \in Seq(Logged) /\ AllClear(GptWrites \o b)
      /\ \A w \in Logged : OnLog(w, GptWrites \o b) =>
           \E k \in MbrAt + 1 .. MbrAt + 3 : InTableArea(w, k)
  BY <1>1, <1>5, GptLog
<1>7. writes \o GptWrites \o b = writes \o (GptWrites \o b)
  BY <1>1, <1>6, ConcatAssociative
<1>8. PICK ws : ws = GptWrites \o b
  OBVIOUS
<1>9. gpc' \in {"mbr", "done"}
  BY <1>4
<1>10. \A w \in Logged : Known(w) => Known(w)'
  BY <1>1, <1>9, StillKnown
<1>11. ASSUME NEW w \in Logged, OnLog(w, ws) PROVE Known(w)'
  <2>1. PICK k \in MbrAt + 1 .. MbrAt + 3 : InTableArea(w, k)
    BY <1>6, <1>8, <1>11
  <2>2. Within(w, k)' /\ MbrAt' = MbrAt /\ parts' = parts
    BY <2>1, SameLayout DEF InTableArea
  <2>. QED  BY <1>9, <2>1, <2>2 DEF Known, InTableArea
<1>12. ASSUME NEW k \in DOMAIN writes, NEW l \in DOMAIN ws PROVE Clear(writes[k], ws[l])
  <2>1. PICK w \in Logged : w = writes[k]
    BY <1>1
  <2>2. PICK v \in Logged : v = ws[l]
    BY <1>6, <1>8
  <2>3. Known(w)
    BY <1>1, <2>1 DEF OnLog
  <2>4. CASE w.kind \in {"wipe", "ebr"}
    BY <2>1, <2>4 DEF Clear
  <2>5. CASE IsImageData(w)
    <3>1. PICK j \in MbrAt + 1 .. MbrAt + 3 : InTableArea(v, j)
      BY <1>6, <1>8, <2>2 DEF OnLog
    <3>2. w.part \in DOMAIN parts /\ parts[w.part].image # NoImage
      BY <2>5, AcceptedNumbers DEF IsImageData, HasData
    <3>3. w.part < MbrAt /\ MbrAt \in Nat /\ w.part \in Nat
      <4>1. MbrAt \in Nat
        BY <1>1, GptInAreas
      <4>2. hd.table # {}
        BY <1>1
      <4>3. PICK i \in DOMAIN parts : i = w.part
        BY <3>2
      <4>4. i < MbrAt
        BY <3>2, <4>2, <4>3, ImagesFirst
      <4>5. i \in Nat
        BY AcceptedNumbers
      <4>. QED  BY <4>1, <4>3, <4>4, <4>5
    <3>4. w.part < j /\ j \in DOMAIN parts /\ Within(v, j)
      BY <3>1, <3>3 DEF InTableArea, Within
    <3>. QED  BY <2>1, <2>2, <2>5, <3>4, HolePair
  <2>. QED  BY <1>1, <2>3, <2>4, <2>5 DEF Known
<1>13. ws \in Seq(Logged) /\ AllClear(ws)
  BY <1>6, <1>8
<1>14. writes' = writes \o ws
  BY <1>3, <1>7, <1>8, Zenon
<1>15. /\ at' \in Nat /\ at' >= at /\ gpc' # "wait" /\ ret = "ok"
       /\ gpc' = "gpt" => "gpt" \in hd.table
       /\ gpc' = "mbr" => hd.table # {}
  BY <1>1, <1>9
<1>. QED  BY <1>10, <1>11, <1>12, <1>13, <1>14, <1>15, GrowLog

\* Writing the MBR, last of all: apart from the GPT, and behind all images.
LEMMA MbrStep == ASSUME Accepted, GenInv, InsertMbr, UNCHANGED vars PROVE GenInv'
<1>1. /\ gpc = "mbr" /\ hd.table # {} /\ ret = "ok" /\ at' = at /\ at \in Nat \ {0} /\ gpc' = "end"
      /\ writes \in Seq(Logged) /\ \A w \in Logged : OnLog(w, writes) => Known(w)
  BY DEF InsertMbr, GenInv
<1>2. PICK v : v = Put("mbr", Sector - MbrTail, MbrTail)
  OBVIOUS
<1>3. Sector = 512 /\ MbrTail = 72
  BY AreaSizes, SMT DEF MbrTail
<1>4. v \in Logged /\ v.kind = "mbr" /\ v.from = 440 /\ v.to = 512
  BY <1>2, <1>3 DEF Put, Logged, Kinds
<1>5. /\ MbrAt \in DOMAIN parts /\ parts[MbrAt].image = NoImage /\ Within(v, MbrAt) /\ MbrAt \in Nat
  <2>1. AreaPlaced(MbrAt, Sector - MbrTail, MbrTail)
    BY <1>1 DEF Accepted, TablesPlaced
  <2>. QED  BY <1>3, <1>4, <2>1, AcceptedNumbers DEF AreaPlaced, Within, End
<1>6. PICK ws : ws = <<v>>
  OBVIOUS
<1>7. ws \in Seq(Logged) /\ AllClear(ws) /\ \A l \in DOMAIN ws : ws[l] = v
  BY <1>4, <1>6, SingleClear
<1>8. writes' = writes \o ws
  <2>1. writes' = Append(writes, v)
    BY <1>2 DEF InsertMbr
  <2>. QED  BY <1>1, <1>4, <1>6, <2>1, AppendIsConcat
<1>9. \A w \in Logged : Known(w) => Known(w)'
  BY <1>1, StillKnown
<1>10. \A w \in Logged : OnLog(w, ws) => Known(w)'
  BY <1>1, <1>4, <1>7 DEF OnLog, Known
<1>11. ASSUME NEW k \in DOMAIN writes, NEW l \in DOMAIN ws PROVE Clear(writes[k], ws[l])
  <2>1. PICK w \in Logged : w = writes[k]
    BY <1>1
  <2>2. Known(w) /\ ws[l] = v
    BY <1>1, <1>7, <2>1 DEF OnLog
  <2>3. CASE w.kind \in {"wipe", "ebr"}
    BY <2>1, <2>3 DEF Clear
  <2>4. CASE IsImageData(w)
    <3>1. w.part \in DOMAIN parts /\ parts[w.part].image # NoImage
      BY <2>4, AcceptedNumbers DEF IsImageData, HasData
    <3>2. w.part < MbrAt
      BY <1>1, <3>1, ImagesFirst
    <3>. QED  BY <1>4, <1>5, <2>1, <2>2, <2>4, <3>2, HolePair
  <2>5. CASE \E j \in MbrAt + 1 .. MbrAt + 3 : Within(w, j) /\ parts[j].image = NoImage
    <3>1. PICK j \in MbrAt + 1 .. MbrAt + 3 : Within(w, j) /\ parts[j].image = NoImage
      BY <2>5
    <3>2. j \in DOMAIN parts /\ j # MbrAt
      BY <1>5, <3>1 DEF Within
    <3>3. ~Meet(w, v)
      BY <1>4, <1>5, <3>1, <3>2, PlainPair
    <3>. QED  BY <2>1, <2>2, <3>3 DEF Clear
  <2>. QED  BY <1>1, <2>2, <2>3, <2>4, <2>5 DEF Known
<1>. QED  BY <1>1, <1>7, <1>8, <1>9, <1>10, <1>11, GrowLog

\* The steps of GSpec, by the invariants of setup.
LEMMA GenCases ==
  ASSUME [GNext]_<<vars, gvars>>
  PROVE  \/ Setup /\ UNCHANGED gvars
         \/ Generate /\ UNCHANGED vars
         \/ UNCHANGED <<vars, gvars>>
BY Zenon DEF GNext, Over

\* Every step keeps the invariant.
LEMMA GenStep ==
  ASSUME NEW M \in Nat, HdInv(M), ret = "ok" => Accepted, GenInv, [GNext]_<<vars, gvars>>
  PROVE  GenInv'
<1>1. CASE Setup /\ UNCHANGED gvars
  <2>1. pc # "done" /\ ret # "ok"
    <3>1. pc # "done"
      BY <1>1 DEF Setup, SetupOptions, RefuseOptions, BlockDeviceError, PlacePartition,
                  RefusePartition, FinishSetup, RefuseFinish
    <3>. QED  BY <3>1 DEF HdInv, ListInv
  <2>2. gpc' = gpc /\ writes' = writes /\ at' = at
    BY <1>1 DEF gvars
  <2>3. gpc = "wait" /\ writes = << >> /\ at \in Nat \ {0}
    BY <2>1 DEF GenInv
  <2>4. AllClear(writes)' /\ \A w : ~OnLog(w, writes')
    <3>1. \A k \in DOMAIN writes' : FALSE
      BY <2>2, <2>3
    <3>. QED  BY <3>1 DEF AllClear, OnLog
  <2>5. writes' \in Seq(Logged)
    BY <2>2, <2>3
  <2>. QED  BY <2>2, <2>3, <2>4, <2>5 DEF GenInv
<1>2. CASE UNCHANGED <<vars, gvars>>
  <2>1. gpc' = gpc /\ writes' = writes /\ at' = at /\ UNCHANGED vars /\ ret' = ret
    BY <1>2 DEF gvars, vars
  <2>2. CASE gpc = "wait"
    <3>1. writes = << >> /\ at \in Nat \ {0}
      BY <2>2 DEF GenInv
    <3>2. AllClear(writes)' /\ \A w : ~OnLog(w, writes')
      <4>1. \A k \in DOMAIN writes' : FALSE
        BY <2>1, <3>1
      <4>. QED  BY <4>1 DEF AllClear, OnLog
    <3>3. writes' \in Seq(Logged)
      BY <2>1, <3>1
    <3>. QED  BY <2>1, <2>2, <3>1, <3>2, <3>3 DEF GenInv
  <2>3. CASE gpc # "wait"
    <3>1. ret = "ok" /\ (gpc = "gpt" => "gpt" \in hd.table) /\ (gpc = "mbr" => hd.table # {})
          /\ at \in Nat \ {0} /\ writes \in Seq(Logged) /\ AllClear(writes)
      BY <2>3 DEF GenInv
    <3>2. \A w \in Logged : Known(w) => Known(w)'
      <4> SUFFICES ASSUME NEW w \in Logged, Known(w) PROVE Known(w)'
        OBVIOUS
      <4>1. /\ \A k : Within(w, k)' <=> Within(w, k)
            /\ IsImageData(w)' <=> IsImageData(w)
            /\ MbrAt' = MbrAt /\ parts' = parts
        BY <2>1, SameLayout
      <4>. QED  BY <2>1, <4>1, Zenon DEF Known
    <3>3. AllClear(writes)'
      BY <2>1, <3>1, SameLayout DEF AllClear
    <3>4. \A w \in Logged : OnLog(w, writes') => Known(w)'
      BY <2>1, <3>2 DEF GenInv
    <3>5. hd' = hd
      BY <2>1, SameLayout
    <3>. QED  BY <2>1, <2>3, <3>1, <3>3, <3>4, <3>5 DEF GenInv
  <2>. QED  BY <2>2, <2>3
<1>3. CASE Generate /\ UNCHANGED vars
  <2>1. CASE PrepareImage
    BY <1>3, <2>1, PrepareStep
  <2>2. CASE AddPartition
    <3>1. Accepted
      BY <2>2 DEF AddPartition, GenInv
    <3>. QED  BY <1>3, <2>2, <3>1, AddStep
  <2>3. CASE PartitionsAdded
    <3>1. /\ gpc = "parts" /\ writes' = writes /\ at' = at /\ ret = "ok"
          /\ gpc' = IF hd.table = {} THEN "end" ELSE IF "gpt" \in hd.table THEN "gpt" ELSE "mbr"
      BY <2>3 DEF PartitionsAdded, GenInv
    <3>. QED  BY <1>3, <3>1, KeepLog
  <2>4. CASE InsertGpt
    <3>1. Accepted
      BY <2>4 DEF InsertGpt, GenInv
    <3>. QED  BY <1>3, <2>4, <3>1, GptStep
  <2>5. CASE InsertMbr
    <3>1. Accepted
      BY <2>5 DEF InsertMbr, GenInv
    <3>. QED  BY <1>3, <2>5, <3>1, MbrStep
  <2>6. CASE CheckSize
    <3>1. gpc = "end" /\ writes' = writes /\ at' = at /\ ret = "ok" /\ gpc' = "done"
      BY <2>6 DEF CheckSize, Return, GenInv
    <3>. QED  BY <1>3, <3>1, KeepLog
  <2>7. CASE IoError
    <3>1. writes' = writes /\ at' = at /\ ret = "ok" /\ gpc' = "done"
      BY <2>7 DEF IoError, Return
    <3>. QED  BY <1>3, <3>1, KeepLog
  <2>8. CASE GptOverflow
    <3>1. writes' = writes /\ at' = at /\ ret = "ok" /\ gpc' = "done"
      BY <2>8 DEF GptOverflow, Return, GenInv
    <3>. QED  BY <1>3, <3>1, KeepLog
  <2>. QED  BY <1>3, <2>1, <2>2, <2>3, <2>4, <2>5, <2>6, <2>7, <2>8 DEF Generate
<1>. QED  BY <1>1, <1>2, <1>3, GenCases

\* What setup guarantees holds while the image is generated.
LEMMA SetupHolds ==
  ASSUME NEW M \in Nat, Fits(M)
  PROVE  GSpec => [](HdInv(M) /\ (ret = "ok" => Accepted))
<1>1. GInit => Init
  BY DEF GInit
<1>2. [GNext]_<<vars, gvars>> => [Next]_vars
  BY GenCases DEF Next
<1>3. HdInv(M) /\ LayInv /\ BootRecordRoom /\ FileSizeCoversData /\ AreasInImage
        => (ret = "ok" => Accepted)
  BY AcceptedLayout
<1>. QED  BY <1>1, <1>2, <1>3, HdInvariant, LayInvariant, BootRecordsHaveRoom, FileSizeSuffices,
             LayoutInImage, PTL DEF GSpec, Spec

\* GenInv holds in every execution.
LEMMA GenInvariant == ASSUME NEW M \in Nat, Fits(M) PROVE GSpec => []GenInv
<1>1. GInit => GenInv
  <2> SUFFICES ASSUME GInit PROVE GenInv
    OBVIOUS
  <2>1. gpc = "wait" /\ at = 1 /\ writes = << >>
    BY DEF GInit
  <2>2. \A k \in DOMAIN writes : FALSE
    BY <2>1
  <2>3. writes \in Seq(Logged)
    BY <2>1
  <2>. QED  BY <2>1, <2>2, <2>3 DEF GenInv, AllClear, OnLog
<1>2. HdInv(M) /\ (ret = "ok" => Accepted) /\ GenInv /\ [GNext]_<<vars, gvars>> => GenInv'
  BY GenStep
<1>. QED  BY <1>1, <1>2, SetupHolds, PTL DEF GSpec

\* No write destroys what an earlier one put into the image: the data of a
\* partition is hidden only where its image declares a hole, the partition tables
\* nowhere.
THEOREM NothingOverwritten == ASSUME NEW M \in Nat, Fits(M) PROVE GSpec => []DataSurvives
<1>1. GenInv => DataSurvives
  BY DEF GenInv, AllClear, Clear, DataSurvives
<1>. QED  BY <1>1, GenInvariant, PTL

-----------------------------------------------------------------------------
(***************************************************************************)
(* Why generation may fail.                                                *)
(***************************************************************************)
\* The two reasons of FailuresExplained.
Explained ==
  \/ \E i \in DOMAIN parts :
       /\ parts[i].image # NoImage
       /\ ImageSize[parts[i].image] = 0 /\ BuiltSize[parts[i].image] # 0
  \/ hd.table # {} /\ hd.fileSize < TableEnd

\* The output file is never longer than the image, and longer than setup
\* announced only for one of them.
LengthInv ==
  /\ gpc = "wait" => gret = "none"
  /\ gret \in {"e2big", "einval", "badsize"} => Explained
  /\ gpc \notin {"wait", "done"} =>
       /\ flen \in Nat /\ flen <= size
       /\ ~cfg.block => hd.fileSize <= flen /\ (hd.fileSize < flen => Explained)

\* The greatest of three numbers.
LEMMA GreatestOfThree ==
  \A a, b, c \in Int :
    Max({a, b, c}) \in {a, b, c} /\ \A x \in {a, b, c} : Max({a, b, c}) >= x
<1> SUFFICES ASSUME NEW a \in Int, NEW b \in Int, NEW c \in Int
             PROVE  Max({a, b, c}) \in {a, b, c} /\ \A x \in {a, b, c} : Max({a, b, c}) >= x
  OBVIOUS
<1>1. \E m \in {a, b, c} : \A x \in {a, b, c} : m >= x
  OBVIOUS
<1>. QED  BY <1>1 DEF Max

\* What some writes make of the length of the file: its end, or that of a write.
LEMMA ExtendedLength ==
  ASSUME NEW len \in Int, NEW ws \in Seq(Logged), Len(ws) <= 2, ~cfg.block
  PROVE  /\ Extended(len, ws) \in Int /\ Extended(len, ws) >= len
         /\ Extended(len, ws) = len \/ \E w \in Logged : OnLog(w, ws) /\ Extended(len, ws) = w.to
<1> DEFINE S == {len} \cup {ws[k].to : k \in DOMAIN ws}
<1>1. Extended(len, ws) = Max(S)
  BY DEF Extended
<1>2. \A k \in DOMAIN ws : ws[k] \in Logged /\ ws[k].to \in Int
  <2>1. \A k \in DOMAIN ws : ws[k] \in Logged
    OBVIOUS
  <2>2. \A w \in Logged : w.to \in Int
    BY DEF Logged
  <2>. QED  BY <2>1, <2>2
<1>3. DOMAIN ws = 1 .. Len(ws) /\ Len(ws) \in Nat
  OBVIOUS
<1>4. \E a, b \in Int : S = {len, a, b}
  <2>1. CASE Len(ws) = 0
    <3>1. S = {len, len, len}
      BY <1>3, <2>1
    <3>. QED  BY <3>1
  <2>2. CASE Len(ws) = 1
    <3>1. S = {len, ws[1].to, ws[1].to} /\ ws[1].to \in Int
      BY <1>2, <1>3, <2>2
    <3>. QED  BY <3>1
  <2>3. CASE Len(ws) = 2
    <3>1. S = {len, ws[1].to, ws[2].to} /\ ws[1].to \in Int /\ ws[2].to \in Int
      BY <1>2, <1>3, <2>3
    <3>. QED  BY <3>1
  <2>4. Len(ws) = 0 \/ Len(ws) = 1 \/ Len(ws) = 2
    BY <1>3
  <2>. QED  BY <2>1, <2>2, <2>3, <2>4
<1>5. PICK a, b \in Int : S = {len, a, b}
  BY <1>4
<1>6. Max(S) \in S /\ Max(S) >= len /\ Max(S) \in Int
  BY <1>5, GreatestOfThree
<1>7. Max(S) = len \/ \E k \in DOMAIN ws : Max(S) = ws[k].to
  BY <1>6
<1>. QED  BY <1>1, <1>2, <1>6, <1>7 DEF OnLog

\* An image larger than it was at setup had no size then.
LEMMA GrownImage ==
  ASSUME Accepted, NEW i \in DOMAIN parts, HasData(parts[i]),
         BuiltSize[parts[i].image] > ImageSize[parts[i].image]
  PROVE  Explained
<1>1. parts[i].image \in Images /\ parts[i].image # NoImage /\ BuiltSize[parts[i].image] # 0
  BY AcceptedNumbers DEF HasData, Partition
<1>2. BuiltSize[parts[i].image] \in Nat /\ ImageSize[parts[i].image] \in Nat
  BY <1>1, BuiltSizeAssumption, ImagesAssumption, ULLAssumption
<1>3. ImageSize[parts[i].image] = 0
  BY <1>1, <1>2, BuiltSizeAssumption
<1>. QED  BY <1>1, <1>3 DEF Explained

\* How far a write of partition i reaches.
LEMMA PartitionReach ==
  ASSUME Accepted, NEW i \in DOMAIN parts, NEW w \in Logged, OnLog(w, PartitionWrites(i))
  PROVE  w.to <= size /\ (w.to > hd.fileSize => Explained)
<1>1. /\ hd.fileSize \in Nat /\ size \in Nat /\ hd.fileSize <= size /\ hd.align \in Nat
      /\ parts[i].offset \in Nat
  BY AcceptedNumbers
<1>2. CASE parts[i].extended /\ w = Put("ebr", parts[i].offset - hd.align + 446, 66)
  <2>1. w.to = parts[i].offset - hd.align + 446 + 66
    BY <1>2 DEF Put
  <2>2. parts[i].offset - hd.align + Sector <= hd.fileSize
    BY <1>2 DEF Accepted, FileSizeCoversData
  <2>. QED  BY <1>1, <2>1, <2>2, AreaSizes, SMT
<1>3. CASE HasData(parts[i]) /\ ~TooSmall(parts[i]) /\ w = ImageData(i)
  <2>1. w.to <= size /\ w.to = parts[i].offset + BuiltSize[parts[i].image]
    BY <1>3, ImageDataLogged DEF ImageData
  <2>2. parts[i].image # NoImage /\ parts[i].image \in Images
    BY <1>3, AcceptedNumbers DEF HasData, Partition
  <2>3. BuiltSize[parts[i].image] \in Nat /\ ImageSize[parts[i].image] \in Nat
    BY <2>2, BuiltSizeAssumption, ImagesAssumption, ULLAssumption
  <2>4. parts[i].offset + ImageSize[parts[i].image] <= hd.fileSize
    BY <2>2 DEF Accepted, FileSizeCoversData
  <2>5. w.to > hd.fileSize => BuiltSize[parts[i].image] > ImageSize[parts[i].image]
    BY <1>1, <2>1, <2>3, <2>4
  <2>. QED  BY <1>3, <2>1, <2>5, GrownImage
<1>. QED  BY <1>2, <1>3, PartitionLog DEF OnLog

\* At most a boot record and an image.
LEMMA TwoWrites == ASSUME Accepted, NEW i \in DOMAIN parts PROVE Len(PartitionWrites(i)) <= 2
<1> DEFINE d == IF HasData(parts[i]) /\ ~TooSmall(parts[i]) THEN <<ImageData(i)>> ELSE << >>
<1>1. Records(i) \in Seq(Logged) /\ Len(Records(i)) <= 1 /\ Len(Records(i)) \in Nat
  <2>1. PICK e \in Logged : e = Put("ebr", parts[i].offset - hd.align + 446, 66)
    <3>1. PICK o \in Int : o = parts[i].offset - hd.align + 446
      BY AcceptedNumbers
    <3>2. Put("ebr", o, 66) \in Logged
      BY <3>1 DEF Put, Logged, Kinds
    <3>. QED  BY <3>1, <3>2
  <2>2. Records(i) = IF parts[i].extended THEN <<e>> ELSE << >>
    BY <2>1 DEF Records
  <2>. QED  BY <2>2
<1>2. d \in Seq(Logged) /\ Len(d) <= 1 /\ Len(d) \in Nat
  <2>1. CASE HasData(parts[i]) /\ ~TooSmall(parts[i])
    <3>1. PICK v \in Logged : v = ImageData(i)
      BY <2>1, ImageDataLogged
    <3>2. d = <<v>>
      BY <2>1, <3>1
    <3> HIDE DEF d
    <3>. QED  BY <3>2
  <2>2. CASE ~(HasData(parts[i]) /\ ~TooSmall(parts[i]))
    <3>1. d = << >>
      BY <2>2
    <3> HIDE DEF d
    <3>. QED  BY <3>1
  <2>. QED  BY <2>1, <2>2
<1>3. PartitionWrites(i) = Records(i) \o d
  BY DEF PartitionWrites
<1> HIDE DEF d
<1>4. Len(Records(i) \o d) = Len(Records(i)) + Len(d)
  BY <1>1, <1>2
<1>. QED  BY <1>1, <1>2, <1>3, <1>4

\* Nothing that explains a failure changes any more.
LEMMA SameReasons == ASSUME UNCHANGED vars PROVE Explained' <=> Explained
BY DEF Explained, TableEnd, vars

\* The table writes reach no further than the image, and than the end of the table.
LEMMA TableReach ==
  ASSUME Accepted, hd.table # {}
  PROVE  /\ 512 <= size /\ 512 <= TableEnd /\ TableEnd \in Nat
         /\ "gpt" \in hd.table =>
              \A w \in Logged : OnLog(w, GptWrites) => w.to <= size /\ w.to <= TableEnd
<1>1. size \in Nat
  BY AcceptedNumbers
<1>2. 512 <= size
  <2>1. AreaPlaced(MbrAt, Sector - MbrTail, MbrTail)
    BY DEF Accepted, TablesPlaced
  <2>2. MbrAt \in DOMAIN parts /\ End(parts[MbrAt]) = 512
    BY <2>1, AreaSizes, SMT DEF AreaPlaced, End, MbrTail
  <2>. QED  BY <2>2, AcceptedNumbers
<1>3. ArraySize = 16384 /\ Sector = 512
  BY AreaSizes, SMT DEF ArraySize
<1>4. CASE "gpt" \in hd.table
  <2>1. TableEnd = hd.gptLoc + ArraySize /\ hd.gptLoc \in Nat
    BY <1>4 DEF TableEnd, Accepted, TypeInv, TypeOK
  <2>2. PICK h, a, ba, bh \in Logged :
          /\ GptWrites = <<h, a>>
          /\ InTableArea(h, MbrAt + 1) /\ InTableArea(a, MbrAt + 2)
          /\ h.to = 604 /\ a.to = hd.gptLoc + ArraySize
    BY <1>4, GptInAreas
  <2>3. h.to <= size /\ a.to <= size
    BY <1>3, <2>1, <2>2, AcceptedNumbers, SMTT(30) DEF InTableArea, Within
  <2>4. \A w \in Logged : OnLog(w, GptWrites) => w = h \/ w = a
    BY <2>2 DEF OnLog
  <2>. QED  BY <1>2, <1>3, <2>1, <2>2, <2>3, <2>4
<1>5. CASE "gpt" \notin hd.table
  BY <1>2, <1>3, <1>5 DEF TableEnd
<1>. QED  BY <1>4, <1>5

\* A longer file is explained by what made it longer.
LEMMA LongerFile ==
  ASSUME Accepted, flen \in Nat, flen <= size,
         ~cfg.block => hd.fileSize <= flen /\ (hd.fileSize < flen => Explained),
         NEW ws \in Seq(Logged), Len(ws) <= 2,
         \A w \in Logged : OnLog(w, ws) => w.to <= size /\ (w.to > hd.fileSize => Explained)
  PROVE  /\ Extended(flen, ws) \in Nat /\ Extended(flen, ws) <= size
         /\ ~cfg.block => /\ hd.fileSize <= Extended(flen, ws)
                          /\ hd.fileSize < Extended(flen, ws) => Explained
<1>1. CASE cfg.block
  BY <1>1 DEF Extended
<1>2. CASE ~cfg.block
  <2>1. hd.fileSize \in Nat /\ size \in Nat
    BY AcceptedNumbers
  <2>2. /\ Extended(flen, ws) \in Int /\ Extended(flen, ws) >= flen
        /\ Extended(flen, ws) = flen \/ \E w \in Logged : OnLog(w, ws) /\ Extended(flen, ws) = w.to
    BY <1>2, ExtendedLength
  <2>3. Extended(flen, ws) <= size /\ (hd.fileSize < Extended(flen, ws) => Explained)
    BY <1>2, <2>2
  <2>. QED  BY <1>2, <2>1, <2>2, <2>3
<1>. QED  BY <1>1, <1>2

\* Every step keeps it.
LEMMA LengthStep ==
  ASSUME NEW M \in Nat, HdInv(M), ret = "ok" => Accepted, GenInv, LengthInv,
         [GNext]_<<vars, gvars>>
  PROVE  LengthInv'
<1>1. CASE Setup /\ UNCHANGED gvars
  <2>1. pc # "done" /\ ret # "ok"
    <3>1. pc # "done"
      BY <1>1 DEF Setup, SetupOptions, RefuseOptions, BlockDeviceError, PlacePartition,
                  RefusePartition, FinishSetup, RefuseFinish
    <3>. QED  BY <3>1 DEF HdInv, ListInv
  <2>2. gpc = "wait" /\ gpc' = gpc /\ gret' = gret
    BY <1>1, <2>1 DEF GenInv, gvars
  <2>. QED  BY <2>2 DEF LengthInv
<1>2. CASE UNCHANGED <<vars, gvars>>
  <2>1. gpc' = gpc /\ gret' = gret /\ flen' = flen /\ cfg' = cfg /\ hd' = hd /\ size' = size
    BY <1>2 DEF gvars, vars
  <2>2. Explained' <=> Explained
    BY <1>2, SameReasons
  <2>. QED  BY <2>1, <2>2 DEF LengthInv
<1>3. CASE Generate /\ UNCHANGED vars
  <2>1. /\ ret = "ok" /\ Accepted
    BY <1>3 DEF Generate, PrepareImage, AddPartition, PartitionsAdded, InsertGpt, GptOverflow,
                InsertMbr, CheckSize, IoError, GenInv
  <2>2. /\ size \in Nat /\ hd.fileSize \in Nat /\ hd.fileSize <= size
        /\ cfg' = cfg /\ hd' = hd /\ size' = size /\ (Explained' <=> Explained)
    BY <1>3, <2>1, AcceptedNumbers, SameLayout, SameReasons
  <2>3. cfg.block => cfg.device \in Nat /\ cfg.device <= size
    <3>1. cfg \in Configs /\ now \in Nat
      BY <2>1 DEF Accepted, TypeInv, TypeOK
    <3>2. cfg.device \in Nat
      BY <3>1, ConfigsAssumption DEF Config
    <3>. QED  BY <2>1, <2>2, <3>1, <3>2 DEF Accepted
  <2>4. CASE PrepareImage
    <3>1. gpc' = "parts" /\ gret' = gret /\ flen' = IF cfg.block THEN cfg.device ELSE hd.fileSize
      BY <2>4 DEF PrepareImage
    <3>. QED  BY <2>2, <2>3, <3>1 DEF LengthInv
  <2>5. CASE AddPartition
    <3>1. /\ gpc = "parts" /\ at \in DOMAIN parts /\ flen' = Extended(flen, PartitionWrites(at))
      BY <2>1, <2>5, AcceptedNumbers DEF AddPartition, GenInv
    <3>2. PICK ws \in Seq(Logged) : ws = PartitionWrites(at)
      BY <2>1, <3>1, PartitionLog
    <3>3. Len(ws) <= 2
      BY <2>1, <3>1, <3>2, TwoWrites
    <3>4. \A w \in Logged : OnLog(w, ws) => w.to <= size /\ (w.to > hd.fileSize => Explained)
      BY <2>1, <3>1, <3>2, PartitionReach
    <3>5. flen \in Nat /\ flen <= size
          /\ (~cfg.block => hd.fileSize <= flen /\ (hd.fileSize < flen => Explained))
      BY <3>1 DEF LengthInv
    <3>6. /\ flen' \in Nat /\ flen' <= size
          /\ ~cfg.block => hd.fileSize <= flen' /\ (hd.fileSize < flen' => Explained)
      BY <2>1, <3>1, <3>2, <3>3, <3>4, <3>5, LongerFile
    <3>7. CASE TooSmall(parts[at])
      <4>1. gpc' = "done" /\ gret' = "e2big"
        BY <2>5, <3>7 DEF AddPartition, Return
      <4>2. /\ HasData(parts[at]) /\ BuiltSize[parts[at].image] > parts[at].size
            /\ parts[at].image # NoImage
        BY <3>7 DEF TooSmall, HasData
      <4>3. ImageSize[parts[at].image] <= parts[at].size
        BY <2>1, <3>1, <4>2 DEF Accepted
      <4>4. /\ parts[at].image \in Images /\ parts[at].size \in Nat
        BY <2>1, <3>1, <4>2, AcceptedNumbers DEF Partition
      <4>5. BuiltSize[parts[at].image] \in Nat /\ ImageSize[parts[at].image] \in Nat
        BY <4>4, BuiltSizeAssumption, ImagesAssumption, ULLAssumption
      <4>6. BuiltSize[parts[at].image] > ImageSize[parts[at].image]
        BY <4>2, <4>3, <4>4, <4>5
      <4>7. Explained
        BY <2>1, <3>1, <4>2, <4>6, GrownImage
      <4>. QED  BY <2>2, <4>1, <4>7 DEF LengthInv
    <3>8. CASE ~TooSmall(parts[at])
      <4>1. gpc' = gpc /\ gret' = gret
        BY <2>5, <3>8 DEF AddPartition
      <4>. QED  BY <2>2, <3>1, <3>6, <4>1 DEF LengthInv
    <3>. QED  BY <3>7, <3>8
  <2>6. CASE PartitionsAdded
    <3>1. gpc = "parts" /\ gret' = gret /\ flen' = flen /\ gpc' # "wait"
      BY <2>6 DEF PartitionsAdded
    <3>. QED  BY <2>2, <3>1 DEF LengthInv
  <2>7. CASE InsertGpt
    <3> DEFINE len == Extended(flen, GptWrites)
    <3>1. /\ gpc = "gpt" /\ "gpt" \in hd.table /\ hd.table # {}
          /\ flen \in Nat /\ flen <= size
          /\ ~cfg.block => hd.fileSize <= flen /\ (hd.fileSize < flen => Explained)
      BY <2>7 DEF InsertGpt, GenInv, LengthInv
    <3>2. PICK ws \in Seq(Logged) : ws = GptWrites /\ Len(ws) <= 2
      <4>1. PICK h, a \in Logged : GptWrites = <<h, a>>
        BY <2>1, <3>1, GptInAreas
      <4>2. <<h, a>> \in Seq(Logged) /\ Len(<<h, a>>) <= 2
        OBVIOUS
      <4>. QED  BY <4>1, <4>2
    <3>3. ASSUME NEW w \in Logged, OnLog(w, ws)
          PROVE  w.to <= size /\ (w.to > hd.fileSize => Explained)
      <4>1. w.to <= size /\ w.to <= TableEnd /\ TableEnd \in Nat
        BY <2>1, <3>1, <3>2, <3>3, TableReach
      <4>2. w.to \in Int
        BY DEF Logged
      <4>. QED  BY <2>2, <3>1, <4>1, <4>2 DEF Explained
    <3>4. /\ len \in Nat /\ len <= size
          /\ ~cfg.block => hd.fileSize <= len /\ (hd.fileSize < len => Explained)
      BY <2>1, <3>1, <3>2, <3>3, LongerFile
    <3> HIDE DEF len
    <3>5. ~(len > size)
      BY <2>2, <3>4
    <3>6. gpc' = "mbr" /\ gret' = gret /\ flen' = IF ~cfg.noBackup THEN size ELSE len
      BY <2>7, <3>5 DEF InsertGpt, len
    <3>7. ~cfg.noBackup => hd.fileSize = size
      BY <2>1, <3>1 DEF Accepted, WholeImage
    <3>8. /\ flen' \in Nat /\ flen' <= size
          /\ ~cfg.block => hd.fileSize <= flen' /\ (hd.fileSize < flen' => Explained)
      BY <2>2, <3>4, <3>6, <3>7
    <3>. QED  BY <2>2, <3>1, <3>6, <3>8 DEF LengthInv
  <2>8. CASE InsertMbr
    <3>1. /\ gpc = "mbr" /\ hd.table # {} /\ gret' = gret /\ gpc' = "end"
          /\ flen \in Nat /\ flen <= size
          /\ ~cfg.block => hd.fileSize <= flen /\ (hd.fileSize < flen => Explained)
      BY <2>8 DEF InsertMbr, GenInv, LengthInv
    <3>2. PICK v : v = Put("mbr", Sector - MbrTail, MbrTail)
      OBVIOUS
    <3>3. Sector = 512 /\ MbrTail = 72
      BY AreaSizes, SMT DEF MbrTail
    <3>4. v \in Logged /\ v.to = 512
      BY <3>2, <3>3 DEF Put, Logged, Kinds
    <3>5. PICK ws : ws = <<v>>
      OBVIOUS
    <3>6. ws \in Seq(Logged) /\ Len(ws) <= 2 /\ \A w : OnLog(w, ws) => w = v
      BY <3>4, <3>5 DEF OnLog
    <3>7. 512 <= size /\ (512 > hd.fileSize => Explained)
      <4>1. 512 <= size /\ 512 <= TableEnd /\ TableEnd \in Nat
        BY <2>1, <3>1, TableReach
      <4>. QED  BY <2>2, <3>1, <4>1 DEF Explained
    <3>8. flen' = Extended(flen, ws)
      BY <2>8, <3>2, <3>5, Zenon DEF InsertMbr
    <3>9. \A w \in Logged : OnLog(w, ws) => w.to <= size /\ (w.to > hd.fileSize => Explained)
      BY <3>4, <3>6, <3>7
    <3>10. /\ flen' \in Nat /\ flen' <= size
           /\ ~cfg.block => hd.fileSize <= flen' /\ (hd.fileSize < flen' => Explained)
      BY <2>1, <3>1, <3>6, <3>8, <3>9, LongerFile
    <3>. QED  BY <2>2, <3>1, <3>10 DEF LengthInv
  <2>9. CASE CheckSize
    <3>1. /\ gpc = "end" /\ gpc' = "done"
          /\ flen \in Nat /\ flen <= size
          /\ ~cfg.block => hd.fileSize <= flen /\ (hd.fileSize < flen => Explained)
      BY <2>9 DEF CheckSize, Return, LengthInv
    <3>2. ~(flen > size)
      BY <2>2, <3>1
    <3>3. gret' = IF ~cfg.block /\ hd.fileSize # (IF cfg.fill THEN size ELSE flen) THEN "badsize" ELSE "ok"
      BY <2>9, <3>2 DEF CheckSize, Return
    <3>4. cfg.fill => hd.fileSize = size
      BY <2>1 DEF Accepted, WholeImage
    <3>5. gret' = "badsize" => Explained
      BY <2>2, <3>1, <3>3, <3>4
    <3>6. gret' \in {"ok", "badsize"}
      BY <3>3
    <3>. QED  BY <2>2, <3>1, <3>5, <3>6 DEF LengthInv
  <2>10. CASE IoError
    <3>1. gpc' = "done" /\ gret' = "io"
      BY <2>10 DEF IoError, Return
    <3>. QED  BY <3>1 DEF LengthInv
  <2>11. CASE GptOverflow
    <3>1. gpc' = "done" /\ gret' = "crash"
      BY <2>11 DEF GptOverflow, Return
    <3>. QED  BY <3>1 DEF LengthInv
  <2>. QED  BY <1>3, <2>4, <2>5, <2>6, <2>7, <2>8, <2>9, <2>10, <2>11 DEF Generate
<1>. QED  BY <1>1, <1>2, <1>3, GenCases

\* Once setup has accepted a layout, generation fails by itself only because an
\* image without a size at setup has one now, or because no partition holds data
\* behind the partition table.
THEOREM FailuresHaveReasons == ASSUME NEW M \in Nat, Fits(M) PROVE GSpec => []FailuresExplained
<1>1. GInit => LengthInv
  BY DEF GInit, LengthInv
<1>2. HdInv(M) /\ (ret = "ok" => Accepted) /\ GenInv /\ LengthInv /\ [GNext]_<<vars, gvars>>
        => LengthInv'
  BY LengthStep
<1>3. LengthInv => FailuresExplained
  BY DEF LengthInv, Explained, FailuresExplained
<1>. QED  BY <1>1, <1>2, <1>3, SetupHolds, GenInvariant, PTL DEF GSpec

-----------------------------------------------------------------------------
(***************************************************************************)
(* The lists the loops over the partitions make: what Picked returns.  The *)
(* induction over positions is by the least one at which a claim fails.    *)
(***************************************************************************)
\* What Picked goes through, up to n.
PickedUpTo(S, n, f) ==
  f = [m \in 0 .. n |-> IF m = 0 THEN << >> ELSE IF m \in S THEN Append(f[m - 1], m) ELSE f[m - 1]]

LEMMA PickedExists == ASSUME NEW S, NEW n \in Nat PROVE \E f : PickedUpTo(S, n, f)
<1> DEFINE Bad == {k \in Nat : ~ \E f : PickedUpTo(S, k, f)}
<1>1. SUFFICES ASSUME Bad # {} PROVE FALSE
  OBVIOUS
<1>2. PICK m \in Bad : \A k \in Bad : m <= k
  <2>1. Bad \in SUBSET Nat
    OBVIOUS
  <2>. QED  BY <1>1, <2>1, LeastOf
<1>3. m \in Nat /\ ~ \E f : PickedUpTo(S, m, f)
  OBVIOUS
<1>4. CASE m = 0
  <2>1. PICK f : f = [k \in 0 .. 0 |-> << >>]
    OBVIOUS
  <2>2. \A k \in 0 .. 0 : k = 0
    OBVIOUS
  <2>3. PickedUpTo(S, 0, f)
    BY <2>1, <2>2 DEF PickedUpTo
  <2>. QED  BY <1>3, <1>4, <2>3
<1>5. CASE m # 0
  <2>1. m - 1 \in Nat /\ m - 1 \notin Bad
    BY <1>2, <1>3, <1>5
  <2>2. PICK g : PickedUpTo(S, m - 1, g)
    BY <2>1
  <2> DEFINE Rule(h, k) == IF k = 0 THEN << >> ELSE IF k \in S THEN Append(h[k - 1], k) ELSE h[k - 1]
  <2>3. PICK f : f = [k \in 0 .. m |-> Rule(g, k)]
    OBVIOUS
  <2>4. g = [k \in 0 .. m - 1 |-> Rule(g, k)]
    BY <2>2 DEF PickedUpTo
  <2>5. ASSUME NEW k \in 0 .. m - 1 PROVE f[k] = g[k]
    <3>1. k \in 0 .. m
      BY <1>3
    <3>2. f[k] = Rule(g, k)
      BY <2>3, <3>1
    <3>3. g[k] = Rule(g, k)
      BY <2>4
    <3>. QED  BY <3>2, <3>3
  <2>6. \A k \in 0 .. m : Rule(g, k) = Rule(f, k)
    <3> SUFFICES ASSUME NEW k \in 0 .. m, k # 0 PROVE g[k - 1] = f[k - 1]
      OBVIOUS
    <3>1. k - 1 \in 0 .. m - 1
      BY <1>3
    <3>. QED  BY <2>5, <3>1
  <2>7. f = [k \in 0 .. m |-> Rule(f, k)]
    BY <2>3, <2>6
  <2>. QED  BY <1>3, <2>7 DEF PickedUpTo
<1>. QED  BY <1>4, <1>5

\* Two such functions agree where both are defined.
LEMMA PickedUnique ==
  ASSUME NEW S, NEW n \in Nat, NEW m \in Nat, m <= n, NEW f, NEW g,
         PickedUpTo(S, m, f), PickedUpTo(S, n, g)
  PROVE  \A k \in 0 .. m : f[k] = g[k]
<1> DEFINE Bad == {k \in 0 .. m : f[k] # g[k]}
           Rule(h, k) == IF k = 0 THEN << >> ELSE IF k \in S THEN Append(h[k - 1], k) ELSE h[k - 1]
<1>1. SUFFICES ASSUME Bad # {} PROVE FALSE
  OBVIOUS
<1>2. PICK b \in Bad : \A k \in Bad : b <= k
  <2>1. Bad \in SUBSET Nat
    OBVIOUS
  <2>. QED  BY <1>1, <2>1, LeastOf
<1>3. b \in 0 .. m /\ b \in 0 .. n /\ f[b] # g[b]
  OBVIOUS
<1>4. f[b] = Rule(f, b) /\ g[b] = Rule(g, b)
  <2>1. f = [k \in 0 .. m |-> Rule(f, k)] /\ g = [k \in 0 .. n |-> Rule(g, k)]
    BY DEF PickedUpTo
  <2>. QED  BY <1>3, <2>1
<1>5. b # 0 => b - 1 \in 0 .. m /\ f[b - 1] = g[b - 1]
  <2> SUFFICES ASSUME b # 0 PROVE b - 1 \in 0 .. m /\ f[b - 1] = g[b - 1]
    OBVIOUS
  <2>1. b - 1 \in 0 .. m /\ ~(b <= b - 1)
    BY <1>3
  <2>. QED  BY <1>2, <2>1
<1>. QED  BY <1>3, <1>4, <1>5

\* One position more adds it to what is picked if it is in S.
LEMMA PickedStep ==
  ASSUME NEW S, NEW n \in Nat
  PROVE  /\ Picked(S, 0) = << >>
         /\ n > 0 => Picked(S, n) = IF n \in S THEN Append(Picked(S, n - 1), n) ELSE Picked(S, n - 1)
<1> DEFINE upTo(m) == CHOOSE f : PickedUpTo(S, m, f)
<1>1. \A m \in Nat : PickedUpTo(S, m, upTo(m))
  BY PickedExists, Zenon
<1>2. \A m \in Nat : Picked(S, m) = upTo(m)[m]
  BY DEF Picked, PickedUpTo
<1> HIDE DEF upTo
<1>3. Picked(S, 0) = << >>
  <2>1. 0 \in 0 .. 0 /\ 0 \in Nat
    OBVIOUS
  <2>2. upTo(0)[0] = << >>
    BY <1>1, <2>1 DEF PickedUpTo
  <2>. QED  BY <1>2, <2>1, <2>2
<1>4. ASSUME n > 0 PROVE Picked(S, n) = IF n \in S THEN Append(Picked(S, n - 1), n) ELSE Picked(S, n - 1)
  <2>1. n - 1 \in Nat /\ n - 1 <= n /\ n - 1 \in 0 .. n - 1 /\ n \in 0 .. n
    BY <1>4
  <2>2. PickedUpTo(S, n - 1, upTo(n - 1)) /\ PickedUpTo(S, n, upTo(n))
    BY <1>1, <2>1
  <2>3. upTo(n)[n - 1] = upTo(n - 1)[n - 1]
    BY <2>1, <2>2, PickedUnique
  <2>4. upTo(n)[n] = IF n \in S THEN Append(upTo(n)[n - 1], n) ELSE upTo(n)[n - 1]
    <3>1. PICK f : f = upTo(n)
      OBVIOUS
    <3>2. f = [m \in 0 .. n |-> IF m = 0 THEN << >> ELSE IF m \in S THEN Append(f[m - 1], m) ELSE f[m - 1]]
      BY <2>2, <3>1 DEF PickedUpTo
    <3>3. f[n] = IF n \in S THEN Append(f[n - 1], n) ELSE f[n - 1]
      <4> DEFINE Rule(m) == IF m = 0 THEN << >> ELSE IF m \in S THEN Append(f[m - 1], m) ELSE f[m - 1]
      <4>1. f = [m \in 0 .. n |-> Rule(m)]
        BY <3>2
      <4>2. Rule(n) = IF n \in S THEN Append(f[n - 1], n) ELSE f[n - 1]
        BY <1>4
      <4> HIDE DEF Rule
      <4>3. f[n] = Rule(n)
        BY <2>1, <4>1
      <4>. QED  BY <4>2, <4>3
    <3>. QED  BY <3>1, <3>3
  <2>. QED  BY <1>2, <2>1, <2>3, <2>4
<1>. QED  BY <1>3, <1>4

\* What is picked, in order: the member of rank k is at k.
PickedWell(S, n) ==
  /\ Picked(S, n) \in Seq(S \cap 1 .. n)
  /\ IsFiniteSet(S \cap 1 .. n) /\ Len(Picked(S, n)) = Cardinality(S \cap 1 .. n)
  /\ \A i \in S \cap 1 .. n :
       Rank(S, i) \in 1 .. Len(Picked(S, n)) /\ Picked(S, n)[Rank(S, i)] = i
  /\ \A k \in 1 .. Len(Picked(S, n)) : Rank(S, Picked(S, n)[k]) = k
  /\ \A k, l \in 1 .. Len(Picked(S, n)) : k < l => Picked(S, n)[k] < Picked(S, n)[l]

LEMMA PickedInOrder == ASSUME NEW S, NEW n \in Nat PROVE PickedWell(S, n)
<1> DEFINE Bad == {k \in Nat : ~PickedWell(S, k)}
<1>1. SUFFICES ASSUME Bad # {} PROVE FALSE
  OBVIOUS
<1>2. PICK m \in Bad : \A k \in Bad : m <= k
  <2>1. Bad \in SUBSET Nat
    OBVIOUS
  <2>. QED  BY <1>1, <2>1, LeastOf
<1>3. m \in Nat /\ ~PickedWell(S, m)
  OBVIOUS
<1>4. CASE m = 0
  <2>1. Picked(S, 0) = << >> /\ S \cap 1 .. 0 = {}
    BY PickedStep
  <2>2. IsFiniteSet({}) /\ Cardinality({}) = 0
    BY FS_EmptySet
  <2>3. \A k \in 1 .. Len(<< >>) : FALSE
    OBVIOUS
  <2>4. Len(<< >>) = 0 /\ << >> \in Seq(S \cap 1 .. 0)
    OBVIOUS
  <2>5. PickedWell(S, 0)
    BY <2>1, <2>2, <2>3, <2>4, Zenon DEF PickedWell
  <2>. QED  BY <1>3, <1>4, <2>5
<1>5. CASE m # 0
  <2>1. m - 1 \in Nat /\ m > 0 /\ PickedWell(S, m - 1)
    BY <1>2, <1>3, <1>5
  <2> DEFINE q == Picked(S, m - 1)
             B == S \cap 1 .. m - 1
  <2>2. /\ q \in Seq(B) /\ IsFiniteSet(B) /\ Len(q) = Cardinality(B)
        /\ \A i \in B : Rank(S, i) \in 1 .. Len(q) /\ q[Rank(S, i)] = i
        /\ \A k \in 1 .. Len(q) : Rank(S, q[k]) = k
        /\ \A k, l \in 1 .. Len(q) : k < l => q[k] < q[l]
    BY <2>1 DEF PickedWell
  <2>3. Picked(S, m) = IF m \in S THEN Append(q, m) ELSE q
    BY <1>3, <2>1, PickedStep
  <2>4. 1 .. m = (1 .. m - 1) \cup {m} /\ m \notin 1 .. m - 1
    BY <1>3, <2>1
  <2>5. CASE m \notin S
    <3>1. S \cap 1 .. m = B
      BY <2>4, <2>5
    <3>. QED  BY <1>3, <2>2, <2>3, <2>5, <3>1 DEF PickedWell
  <2>6. CASE m \in S
    <3>1. S \cap 1 .. m = B \cup {m} /\ m \notin B
      BY <2>4, <2>6
    <3>2. IsFiniteSet(B \cup {m}) /\ Cardinality(B \cup {m}) = Cardinality(B) + 1
      BY <2>2, <3>1, FS_AddElement
    <3>3. Rank(S, m) = Len(q) + 1
      BY <2>2, <3>1, <3>2 DEF Rank
    <3> HIDE DEF q, B
    <3>4. PICK r : r = Append(q, m)
      OBVIOUS
    <3>5. /\ Len(q) \in Nat /\ r \in Seq(B \cup {m}) /\ Len(r) = Len(q) + 1 /\ r[Len(q) + 1] = m
          /\ \A k \in 1 .. Len(q) : r[k] = q[k] /\ q[k] \in B
      BY <2>2, <3>4
    <3>6. \A i \in B \cup {m} : Rank(S, i) \in 1 .. Len(r) /\ r[Rank(S, i)] = i
      BY <2>2, <3>3, <3>5
    <3>7. \A k \in 1 .. Len(r) : Rank(S, r[k]) = k
      BY <2>2, <3>3, <3>5
    <3>8. ASSUME NEW k \in 1 .. Len(r), NEW l \in 1 .. Len(r), k < l PROVE r[k] < r[l]
      <4>1. k \in 1 .. Len(q) /\ r[k] = q[k] /\ q[k] \in 1 .. m - 1
        BY <3>5, <3>8 DEF B
      <4>2. CASE l = Len(q) + 1
        BY <1>3, <3>5, <4>1, <4>2
      <4>3. CASE l # Len(q) + 1
        <5>1. l \in 1 .. Len(q) /\ r[l] = q[l]
          BY <3>5, <4>3
        <5>. QED  BY <2>2, <3>8, <4>1, <5>1
      <4>. QED  BY <4>2, <4>3
    <3>9. Picked(S, m) = r
      BY <2>3, <2>6, <3>4
    <3>. QED  BY <1>3, <2>2, <3>1, <3>2, <3>5, <3>6, <3>7, <3>8, <3>9 DEF PickedWell
  <2>. QED  BY <2>5, <2>6
<1>. QED  BY <1>4, <1>5

-----------------------------------------------------------------------------
(***************************************************************************)
(* What the main loop counts, and what it checks of a table partition.     *)
(***************************************************************************)
HybridParts == {i \in TableParts : parts[i].ptype # 0}

CountInv ==
  IF Settled
  THEN /\ hd.ext = ExtendedPartition(cfg)
       /\ tableEntries = Rank(TableParts, idx - 1)
       /\ "gpt" \in hd.table => hybridEntries = Rank(HybridParts, idx - 1)
       /\ ret = "ok" => hybridEntries <= 3
       /\ \A i \in Done :
            /\ parts[i].extended <=> hd.ext > 0 /\ parts[i].inTable /\ Rank(TableParts, i) >= hd.ext
            /\ parts[i].ptype = Listed(cfg)[i].ptype
            /\ parts[i].inTable => /\ parts[i].size > 0 /\ parts[i].size % Sector = 0
                                   /\ parts[i].align = Listed(cfg)[i].align
                                   /\ parts[i].offset % parts[i].align = 0
  ELSE tableEntries = 0 /\ hybridEntries = 0

\* A rank counts one more for a member.
LEMMA RankStep ==
  ASSUME NEW S, NEW n \in Nat
  PROVE  /\ IsFiniteSet(S \cap 1 .. n) /\ Rank(S, n) \in Nat /\ Rank(S, 0) = 0
         /\ n > 0 => Rank(S, n) = Rank(S, n - 1) + (IF n \in S THEN 1 ELSE 0)
<1>1. \A m \in Nat : IsFiniteSet(S \cap 1 .. m) /\ Cardinality(S \cap 1 .. m) \in Nat
  <2> SUFFICES ASSUME NEW m \in Nat
               PROVE  IsFiniteSet(S \cap 1 .. m) /\ Cardinality(S \cap 1 .. m) \in Nat
    OBVIOUS
  <2>1. IsFiniteSet(1 .. m) /\ S \cap 1 .. m \subseteq 1 .. m
    BY FS_Interval
  <2>2. IsFiniteSet(S \cap 1 .. m)
    BY <2>1, FS_Subset
  <2>. QED  BY <2>2, FS_CardinalityType
<1>2. Rank(S, 0) = 0
  <2>1. S \cap 1 .. 0 = {}
    OBVIOUS
  <2>. QED  BY <2>1, FS_EmptySet DEF Rank
<1>3. ASSUME n > 0 PROVE Rank(S, n) = Rank(S, n - 1) + (IF n \in S THEN 1 ELSE 0)
  <2>1. n - 1 \in Nat /\ 1 .. n = (1 .. n - 1) \cup {n} /\ n \notin 1 .. n - 1
    BY <1>3
  <2> DEFINE B == S \cap 1 .. n - 1
  <2>2. IsFiniteSet(B) /\ Cardinality(B) \in Nat /\ n \notin B
    BY <1>1, <2>1
  <2>3. CASE n \in S
    <3>1. S \cap 1 .. n = B \cup {n}
      BY <2>1, <2>3
    <3>2. Cardinality(B \cup {n}) = Cardinality(B) + 1
      BY <2>2, FS_AddElement
    <3>. QED  BY <2>3, <3>1, <3>2 DEF Rank
  <2>4. CASE n \notin S
    <3>1. S \cap 1 .. n = B
      BY <2>1, <2>4
    <3>2. Rank(S, n) = Cardinality(B) /\ Rank(S, n - 1) = Cardinality(B)
      BY <3>1 DEF Rank
    <3> HIDE DEF B
    <3>. QED  BY <2>2, <2>4, <3>2
  <2>. QED  BY <2>3, <2>4
<1>. QED  BY <1>1, <1>2, <1>3 DEF Rank

\* What an accepted turn adds.
LEMMA PlacedCounts ==
  ASSUME NEW M \in Nat, Fits(M), HdInv(M), CountInv, PlacePartition
  PROVE  CountInv'
<1>1. /\ pc = "place" /\ idx \in 1 .. Len(parts) /\ idx <= Len(parts) /\ ~PartitionRefused
      /\ Settled /\ Settled' /\ TypeInv /\ ListInv /\ cfg' = cfg /\ ret' = ret /\ ret = "none"
      /\ idx' = idx + 1 /\ hd'.table = hd.table /\ Len(parts') = Len(parts) /\ parts'[idx] = Placed
      /\ \A i \in 1 .. Len(parts) : i # idx => parts'[i] = parts[i]
      /\ Done' = Done \cup {idx} /\ idx \notin Done /\ Done \subseteq 1 .. Len(parts)
  BY PlacedList
<1>2. /\ parts \in Seq(Partition) /\ hd.ext \in Nat /\ tableEntries \in Nat /\ hybridEntries \in Nat
      /\ cur \in Partition /\ cur = parts[idx]
  BY <1>1, PlacedType, SMTT(30) DEF TypeInv, TypeOK, cur
<1>3. hd'.ext = hd.ext
  BY <1>1 DEF PlacePartition, TypeInv, TypeOK
<1>4. /\ Placed.inTable = cur.inTable /\ Placed.align = cur.align /\ Placed.offset = Offset
      /\ Placed.size = FinalSize /\ Placed.extended = IsExtended /\ IsExtended \in BOOLEAN
      /\ FinalSize \in Nat /\ Placed \in Partition
  BY <1>1, PlacedType
<1>5. Placed.ptype = cur.ptype
  <2>1. PICK e \in BOOLEAN : e = IsExtended
    BY <1>4
  <2>2. Placed = [cur EXCEPT !.offset = Offset, !.size = FinalSize, !.extended = e]
    BY <2>1, Zenon DEF Placed
  <2>. QED  BY <1>2, <2>2 DEF Partition
<1>6. TypeInv' /\ parts' \in Seq(Partition) /\ DOMAIN parts' = DOMAIN parts
  <2>1. TypeInv'
    BY <1>1, PlacePartitionTypes
  <2>2. parts' \in Seq(Partition)
    BY <2>1 DEF TypeInv, TypeOK
  <2>. QED  BY <1>1, <1>2, <2>1, <2>2
<1>7. TableParts' = TableParts /\ HybridParts' = HybridParts
  <2>1. \A i \in DOMAIN parts : parts'[i].inTable = parts[i].inTable /\ parts'[i].ptype = parts[i].ptype
    BY <1>1, <1>2, <1>4, <1>5
  <2>2. TableParts' = TableParts
    BY <1>6, <2>1 DEF TableParts
  <2>3. \A i \in TableParts : i \in DOMAIN parts
    BY DEF TableParts
  <2>. QED  BY <2>1, <2>2, <2>3 DEF HybridParts
<1>8. /\ hd.ext = ExtendedPartition(cfg) /\ tableEntries = Rank(TableParts, idx - 1)
      /\ "gpt" \in hd.table => hybridEntries = Rank(HybridParts, idx - 1)
  BY <1>1 DEF CountInv
<1>9. /\ Rank(TableParts, idx) = Entries
      /\ Rank(HybridParts, idx) = Rank(HybridParts, idx - 1) + (IF cur.inTable /\ cur.ptype # 0 THEN 1 ELSE 0)
  <2>1. idx \in TableParts <=> cur.inTable
    BY <1>1, <1>2 DEF TableParts
  <2>2. idx \in HybridParts <=> cur.inTable /\ cur.ptype # 0
    BY <1>2, <2>1 DEF HybridParts
  <2>3. idx \in Nat /\ idx > 0
    BY <1>1
  <2>4. /\ Rank(TableParts, idx) = Rank(TableParts, idx - 1) + (IF idx \in TableParts THEN 1 ELSE 0)
        /\ Rank(HybridParts, idx) = Rank(HybridParts, idx - 1) + (IF idx \in HybridParts THEN 1 ELSE 0)
    BY <2>3, RankStep
  <2>. QED  BY <1>8, <2>1, <2>2, <2>4, Zenon DEF Entries
<1>10. tableEntries' = Rank(TableParts, idx)
  BY <1>9 DEF PlacePartition
<1>11. "gpt" \in hd.table => hybridEntries' = Rank(HybridParts, idx)
  BY <1>8, <1>9 DEF PlacePartition
<1>12. IsExtended <=> hd.ext > 0 /\ cur.inTable /\ Rank(TableParts, idx) >= hd.ext
  BY <1>9 DEF IsExtended
<1>13. cur.inTable => FinalSize > 0 /\ FinalSize % Sector = 0 /\ Offset % cur.align = 0
  BY <1>1, <1>4 DEF PartitionRefused
<1>14. cur = Listed(cfg)[idx]
  BY <1>1, <1>2 DEF ListInv
<1>15. idx' - 1 = idx
  BY <1>1
<1>16. ASSUME NEW i \in Done'
       PROVE  /\ parts'[i].extended <=> hd.ext > 0 /\ parts'[i].inTable /\ Rank(TableParts, i) >= hd.ext
              /\ parts'[i].ptype = Listed(cfg)[i].ptype
              /\ parts'[i].inTable => /\ parts'[i].size > 0 /\ parts'[i].size % Sector = 0
                                      /\ parts'[i].align = Listed(cfg)[i].align
                                      /\ parts'[i].offset % parts'[i].align = 0
  <2>1. CASE i = idx
    BY <1>1, <1>4, <1>5, <1>12, <1>13, <1>14, <2>1
  <2>2. CASE i # idx
    <3>1. i \in Done /\ parts'[i] = parts[i]
      BY <1>1, <2>2
    <3>. QED  BY <1>1, <3>1 DEF CountInv
  <2>. QED  BY <2>1, <2>2
<1>17. ExtendedPartition(cfg)' = ExtendedPartition(cfg) /\ Listed(cfg)' = Listed(cfg)
  BY <1>1, Zenon
<1>18. \A i : Rank(TableParts, i)' = Rank(TableParts, i)
  BY <1>7 DEF Rank
<1>19. tableEntries' = Rank(TableParts, idx - 1)' /\ ("gpt" \in hd.table => hybridEntries' = Rank(HybridParts, idx - 1)')
  BY <1>7, <1>10, <1>11, <1>15 DEF Rank
<1>. QED  BY <1>1, <1>3, <1>8, <1>16, <1>17, <1>18, <1>19 DEF CountInv

\* Every step of setup keeps the counts.
LEMMA CountStep ==
  ASSUME NEW M \in Nat, Fits(M), HdInv(M), CountInv, [Next]_vars PROVE CountInv'
<1>1. TypeInv /\ ListInv /\ parts \in Seq(Partition)
  BY DEF HdInv, TypeInv, TypeOK
<1>2. CASE PlacePartition
  BY <1>2, PlacedCounts
<1>3. CASE SetupOptions
  <2>1. /\ pc = "options" /\ hd'.ext = ExtendedPartition(cfg) /\ hd'.align = ImageAlign(cfg)
        /\ cfg' = cfg /\ cfg \in Config /\ ret' = ret /\ idx' = idx /\ idx = 1
        /\ tableEntries' = tableEntries /\ hybridEntries' = hybridEntries
    BY <1>1, <1>3 DEF SetupOptions, TypeInv, TypeOK
  <2>2. ~Settled /\ ret # "ok" /\ Settled'
    BY <1>1, <2>1, ImageAlignPositive DEF ListInv, Settled
  <2>3. tableEntries = 0 /\ hybridEntries = 0
    BY <2>2 DEF CountInv
  <2>4. \A S : Rank(S, 0) = 0
    BY RankStep
  <2>5. Rank(TableParts, idx - 1)' = 0 /\ Rank(HybridParts, idx - 1)' = 0
    <3>1. idx' - 1 = 0
      BY <2>1
    <3>2. Rank(TableParts, idx - 1)' = Cardinality(TableParts' \cap 1 .. 0)
          /\ Rank(HybridParts, idx - 1)' = Cardinality(HybridParts' \cap 1 .. 0)
      BY <3>1 DEF Rank
    <3>3. \A S : S \cap 1 .. 0 = {}
      OBVIOUS
    <3>. QED  BY <3>2, <3>3, FS_EmptySet
  <2>6. Done' = {}
    BY <2>1 DEF Done
  <2>7. ExtendedPartition(cfg)' = ExtendedPartition(cfg)
    BY <2>1, Zenon
  <2>. QED  BY <2>1, <2>2, <2>3, <2>5, <2>6, <2>7 DEF CountInv
<1>4. CASE FinishSetup \/ (pc # "done" /\ Refuse) \/ UNCHANGED vars
  <2>1. UNCHANGED <<cfg, parts, idx, tableEntries, hybridEntries>>
    BY <1>4 DEF FinishSetup, Refuse, vars
  <2>2. hd'.ext = hd.ext /\ hd'.table = hd.table /\ hd'.align = hd.align
    BY <1>1, <1>4 DEF FinishSetup, Refuse, vars, TypeInv, TypeOK
  <2>3. ret' = "ok" => ret = "ok" \/ hybridEntries <= 3
    <3>1. CASE FinishSetup
      BY <1>1, <3>1 DEF FinishSetup, FinishRefused, TypeInv, TypeOK
    <3>2. CASE (pc # "done" /\ Refuse) \/ UNCHANGED vars
      BY <3>2 DEF Refuse, vars
    <3>. QED  BY <1>4, <3>1, <3>2
  <2>4. /\ TableParts' = TableParts /\ HybridParts' = HybridParts /\ Done' = Done
        /\ (Settled' <=> Settled)
    BY <2>1, <2>2 DEF TableParts, HybridParts, Done, Settled
  <2>5. ExtendedPartition(cfg)' = ExtendedPartition(cfg) /\ Listed(cfg)' = Listed(cfg)
    BY <2>1, Zenon
  <2>6. \A i : Rank(TableParts, i)' = Rank(TableParts, i)
    BY <2>4 DEF Rank
  <2>7. Rank(TableParts, idx - 1)' = Rank(TableParts, idx - 1)
        /\ Rank(HybridParts, idx - 1)' = Rank(HybridParts, idx - 1)
    BY <2>1, <2>4 DEF Rank
  <2>. QED  BY <2>1, <2>2, <2>3, <2>4, <2>5, <2>6, <2>7 DEF CountInv
<1>. QED  BY <1>2, <1>3, <1>4, StepCases

LEMMA CountInvariant == ASSUME NEW M \in Nat, Fits(M) PROVE Spec => []CountInv
<1>1. Init => CountInv
  BY DEF Init, CountInv, Settled
<1>2. HdInv(M) /\ CountInv /\ [Next]_vars => CountInv'
  BY CountStep
<1>. QED  BY <1>1, <1>2, HdInvariant, PTL DEF Spec

-----------------------------------------------------------------------------
(***************************************************************************)
(* What the tables have to express.                                        *)
(***************************************************************************)
\* A table partition of an accepted layout is one that was declared.
DeclaredAs(i) ==
  /\ i \in DOMAIN cfg.parts /\ cfg.parts[i].inTable /\ cfg.parts[i] \in Partition
  /\ parts[i].image = cfg.parts[i].image /\ parts[i].ptype = cfg.parts[i].ptype
  /\ parts[i].align = IF cfg.parts[i].align # 0 THEN cfg.parts[i].align ELSE ImageAlign(cfg)
  /\ parts[i].size > 0 /\ parts[i].size % Sector = 0 /\ parts[i].offset % parts[i].align = 0

\* What generation needs to know of the partitions in the tables.
Tabled ==
  /\ hd.table = {"mbr"} => Len(Picked(MbrParts, Len(parts))) <= 4
  /\ hd.table = {"mbr", "gpt"} => Len(Picked(MbrParts, Len(parts))) <= 3
  /\ hd.table # {} => ImageAlign(cfg) % Sector = 0
  /\ hd.align = ImageAlign(cfg) /\ cfg \in Configs
  /\ \A i \in TableParts : hd.table # {} /\ DeclaredAs(i)
  /\ Logical \subseteq TableParts

LEMMA DeclaredTable ==
  ASSUME NEW M \in Nat, Fits(M), HdInv(M), CountInv, Accepted, NEW i \in TableParts
  PROVE  hd.table # {} /\ DeclaredAs(i)
<1>1. /\ TypeInv /\ ListInv /\ Settled /\ ret = "ok" /\ parts \in Seq(Partition)
      /\ cfg \in Configs /\ cfg \in Config /\ Done = 1 .. Len(parts)
  BY DEF HdInv, Accepted, TypeInv, TypeOK, ListInv
<1>2. i \in 1 .. Len(parts) /\ i \in Done /\ parts[i].inTable /\ parts[i] \in Partition
  BY <1>1 DEF TableParts
<1>3. /\ ~OptionsRefused(cfg) /\ hd.table = TableType(cfg) /\ Len(parts) = Len(Listed(cfg))
      /\ parts[i].image = Listed(cfg)[i].image /\ parts[i].inTable = Listed(cfg)[i].inTable
  BY <1>1, <1>2 DEF ListInv
<1>4. ListedAt(M, cfg, i, Listed(cfg)[i])
  BY <1>1, <1>2, <1>3, ListedNumbers
<1>5. TableType(cfg) # {} /\ i <= Len(cfg.parts)
  BY <1>2, <1>3, <1>4 DEF ListedAt
<1>6. Listed(cfg)[i] = Prepared(cfg.parts[i], cfg)
  BY <1>1, <1>2, <1>3, <1>5, ListedElements
<1>7. i \in DOMAIN cfg.parts /\ cfg.parts[i] \in Partition
  <2>1. cfg.parts \in Seq(Partition)
    BY <1>1 DEF Config
  <2>. QED  BY <1>2, <1>5, <2>1
<1>8. /\ Listed(cfg)[i].inTable = cfg.parts[i].inTable /\ Listed(cfg)[i].image = cfg.parts[i].image
      /\ Listed(cfg)[i].ptype = cfg.parts[i].ptype
      /\ Listed(cfg)[i].align = IF cfg.parts[i].align # 0 THEN cfg.parts[i].align
                                ELSE IF cfg.parts[i].inTable \/ TableType(cfg) = {} THEN ImageAlign(cfg) ELSE 1
  <2>1. PICK a : a = IF cfg.parts[i].align # 0 THEN cfg.parts[i].align
                     ELSE IF cfg.parts[i].inTable \/ TableType(cfg) = {} THEN ImageAlign(cfg) ELSE 1
    OBVIOUS
  <2>2. Prepared(cfg.parts[i], cfg) = [cfg.parts[i] EXCEPT !.inTable = cfg.parts[i].inTable, !.align = a]
    BY <1>5, <2>1 DEF Prepared
  <2>3. \A p \in Partition : [p EXCEPT !.inTable = p.inTable, !.align = a].inTable = p.inTable
          /\ [p EXCEPT !.inTable = p.inTable, !.align = a].image = p.image
          /\ [p EXCEPT !.inTable = p.inTable, !.align = a].ptype = p.ptype
          /\ [p EXCEPT !.inTable = p.inTable, !.align = a].align = a
    BY DEF Partition
  <2>. QED  BY <1>6, <1>7, <2>1, <2>2, <2>3
<1>9. /\ parts[i].ptype = Listed(cfg)[i].ptype
      /\ parts[i].size > 0 /\ parts[i].size % Sector = 0
      /\ parts[i].align = Listed(cfg)[i].align /\ parts[i].offset % parts[i].align = 0
  BY <1>1, <1>2 DEF CountInv
<1>10. parts[i].align = IF cfg.parts[i].align # 0 THEN cfg.parts[i].align ELSE ImageAlign(cfg)
  BY <1>2, <1>3, <1>8, <1>9
<1>. QED  BY <1>2, <1>3, <1>5, <1>7, <1>8, <1>9, <1>10 DEF DeclaredAs

\* The members of a smaller set are no more, and rank no higher.
LEMMA RankMonotone ==
  ASSUME NEW S, NEW T, NEW n \in Nat, S \cap 1 .. n \subseteq T
  PROVE  Rank(S, n) <= Rank(T, n) /\ Rank(S, n) \in Nat /\ Rank(T, n) \in Nat
<1>1. IsFiniteSet(T \cap 1 .. n) /\ S \cap 1 .. n \subseteq T \cap 1 .. n
  BY RankStep
<1>2. Cardinality(S \cap 1 .. n) <= Cardinality(T \cap 1 .. n)
  BY <1>1, FS_Subset
<1>. QED  BY <1>2, RankStep DEF Rank

\* The entries of the MBR fit its four slots, one of which a hybrid MBR needs itself.
LEMMA MbrSlots ==
  ASSUME NEW M \in Nat, Fits(M), HdInv(M), CountInv, Accepted
  PROVE  /\ hd.table = {"mbr"} => Len(Picked(MbrParts, Len(parts))) <= 4
         /\ hd.table = {"mbr", "gpt"} => Len(Picked(MbrParts, Len(parts))) <= 3
<1> DEFINE n == Len(parts)
           q == Picked(MbrParts, n)
<1>1. /\ TypeInv /\ ListInv /\ Settled /\ ret = "ok" /\ parts \in Seq(Partition) /\ n \in Nat
      /\ DOMAIN parts = 1 .. n /\ Done = 1 .. n /\ idx - 1 = n /\ hd.ext \in 0 .. 4
  <2>1. /\ TypeInv /\ ListInv /\ Settled /\ ret = "ok" /\ parts \in Seq(Partition)
        /\ idx \in 1 .. n + 1 /\ Done = 1 .. n /\ hd.ext \in 0 .. 4
    BY DEF HdInv, Accepted, TypeInv, TypeOK, ListInv
  <2>2. n \in Nat /\ DOMAIN parts = 1 .. n
    BY <2>1
  <2>3. idx - 1 = n
    <3> HIDE DEF n
    <3>1. 1 .. idx - 1 = 1 .. n /\ idx \in 1 .. n + 1
      BY <2>1 DEF Done
    <3>2. n # 0 => n \in 1 .. n
      BY <2>2
    <3>3. n # 0 => n \in 1 .. idx - 1
      BY <3>1, <3>2
    <3>. QED  BY <2>2, <3>1, <3>3
  <2>. QED  BY <2>1, <2>2, <2>3
<1>2. PickedWell(MbrParts, n)
  BY <1>1, PickedInOrder
<1> HIDE DEF n
<1>3. /\ q \in Seq(MbrParts \cap 1 .. n) /\ Len(q) = Rank(MbrParts, n) /\ Len(q) \in Nat
      /\ \A k \in 1 .. Len(q) : Rank(MbrParts, q[k]) = k /\ q[k] \in MbrParts /\ q[k] \in 1 .. n
      /\ \A k, l \in 1 .. Len(q) : k < l => q[k] < q[l]
  <2>1. /\ q \in Seq(MbrParts \cap 1 .. n) /\ Len(q) = Cardinality(MbrParts \cap 1 .. n)
        /\ \A k \in 1 .. Len(q) : Rank(MbrParts, q[k]) = k
        /\ \A k, l \in 1 .. Len(q) : k < l => q[k] < q[l]
    BY <1>2 DEF PickedWell
  <2> HIDE DEF q
  <2>2. Len(q) \in Nat /\ \A k \in 1 .. Len(q) : q[k] \in MbrParts \cap 1 .. n
    <3>1. PICK B : B = MbrParts \cap 1 .. n
      OBVIOUS
    <3>2. q \in Seq(B)
      BY <2>1, <3>1
    <3>3. Len(q) \in Nat /\ \A k \in 1 .. Len(q) : q[k] \in B
      BY <3>2
    <3>. QED  BY <3>1, <3>3
  <2>. QED  BY <2>1, <2>2 DEF Rank
<1> HIDE DEF q
<1>4. MbrParts \subseteq TableParts
  BY DEF MbrParts, TableParts, InMbr
<1>5. ASSUME hd.table = {"mbr"} PROVE Len(q) <= 4
  <2>1. \A p : InMbr(p) <=> p.inTable
    BY <1>5 DEF InMbr
  <2>2. CASE hd.ext > 0
    <3>1. SUFFICES ASSUME Len(q) > hd.ext PROVE FALSE
      <4>1. PICK l \in Nat, e \in 0 .. 4 : l = Len(q) /\ e = hd.ext
        BY <1>1, <1>3
      <4>. QED  BY <4>1
    <3>2. hd.ext \in 1 .. Len(q) /\ hd.ext + 1 \in 1 .. Len(q) /\ hd.ext < hd.ext + 1
      <4>1. PICK l \in Nat, e \in 0 .. 4 : l = Len(q) /\ e = hd.ext
        BY <1>1, <1>3
      <4>2. e \in 1 .. l /\ e + 1 \in 1 .. l /\ e < e + 1
        BY <2>2, <3>1, <4>1
      <4>. QED  BY <4>1, <4>2
    <3>3. PICK e, f \in 1 .. n : e = q[hd.ext] /\ f = q[hd.ext + 1]
      BY <1>3, <3>2
    <3>4. e < f /\ e \in MbrParts /\ f \in MbrParts /\ Rank(MbrParts, e) = hd.ext
      BY <1>3, <3>2, <3>3
    <3>5. Rank(TableParts, e) >= hd.ext
      <4>1. Rank(MbrParts, e) <= Rank(TableParts, e) /\ Rank(TableParts, e) \in Nat
        BY <1>1, <1>4, RankMonotone
      <4>. QED  BY <1>1, <3>4, <4>1
    <3>6. parts[e].inTable
      BY <1>4, <3>4 DEF TableParts
    <3>7. parts[e].extended
      BY <1>1, <2>2, <3>3, <3>5, <3>6 DEF CountInv
    <3>8. e \in 1 .. f - 1
      BY <1>1, <3>4
    <3>. QED  BY <2>1, <3>4, <3>6, <3>7, <3>8 DEF MbrParts
  <2>3. CASE hd.ext = 0
    <3>1. cfg \in Config /\ cfg \in Configs /\ ExtendedPartition(cfg) = 0 /\ TableType(cfg) = {"mbr"}
      BY <1>1, <1>5, <2>3 DEF TypeInv, TypeOK, ListInv, CountInv
    <3>2. ~(TableCount(cfg) > 4)
      BY <3>1 DEF ExtendedPartition, Config
    <3> DEFINE T == {i \in DOMAIN cfg.parts : cfg.parts[i].inTable}
    <3>3. Len(cfg.parts) \in Nat /\ DOMAIN cfg.parts = 1 .. Len(cfg.parts)
      BY <3>1 DEF Config
    <3>4. MbrParts \cap 1 .. n \subseteq T
      BY <1>4, DeclaredTable DEF DeclaredAs
    <3>5. IsFiniteSet(T)
      <4>1. IsFiniteSet(1 .. Len(cfg.parts)) /\ T \subseteq 1 .. Len(cfg.parts)
        BY <3>3, FS_Interval
      <4>. QED  BY <4>1, FS_Subset
    <3>6. Cardinality(MbrParts \cap 1 .. n) <= Cardinality(T) /\ Cardinality(T) \in Nat
      BY <3>4, <3>5, FS_Subset, FS_CardinalityType
    <3>7. TableCount(cfg) = Cardinality(T)
      BY DEF TableCount
    <3> HIDE DEF T
    <3>8. Len(q) = Cardinality(MbrParts \cap 1 .. n)
      BY <1>3 DEF Rank
    <3>. QED  BY <1>3, <3>2, <3>6, <3>7, <3>8
  <2>. QED  BY <1>1, <2>2, <2>3
<1>6. ASSUME hd.table = {"mbr", "gpt"} PROVE Len(q) <= 3
  <2>1. MbrParts \subseteq HybridParts
    BY <1>4, <1>6 DEF MbrParts, HybridParts, InMbr
  <2>2. Rank(MbrParts, n) <= Rank(HybridParts, n)
    BY <1>1, <2>1, RankMonotone
  <2>3. Rank(HybridParts, n) <= 3
    BY <1>1, <1>6 DEF CountInv
  <2>4. Rank(HybridParts, n) \in Nat
    BY <1>1, RankStep
  <2>. QED  BY <1>3, <2>2, <2>3, <2>4
<1>. QED  BY <1>5, <1>6 DEF q, n

LEMMA AcceptedTables ==
  ASSUME NEW M \in Nat, Fits(M), HdInv(M), CountInv, Accepted PROVE Tabled
<1>1. /\ TypeInv /\ ListInv /\ Settled /\ parts \in Seq(Partition) /\ cfg \in Configs
      /\ cfg \in Config /\ Done = 1 .. Len(parts)
  BY DEF HdInv, Accepted, TypeInv, TypeOK, ListInv
<1>2. ~OptionsRefused(cfg) /\ hd.align = ImageAlign(cfg) /\ hd.table = TableType(cfg)
  BY <1>1 DEF ListInv
<1>3. hd.table # {} => ImageAlign(cfg) % Sector = 0
  BY <1>1, <1>2, TableTypeKnown
<1>4. Logical \subseteq TableParts
  BY <1>1 DEF CountInv, Logical, TableParts
<1>5. \A i \in TableParts : hd.table # {} /\ DeclaredAs(i)
  BY DeclaredTable
<1>. QED  BY <1>1, <1>2, <1>3, <1>4, <1>5, MbrSlots DEF Tabled

-----------------------------------------------------------------------------
(***************************************************************************)
(* What is in the tables when.                                             *)
(***************************************************************************)
\* The boot records of the logical partitions among the first n.
Chain(n) == LET q == Picked(Logical, n) IN [k \in 1 .. Len(q) |-> BootRecord(q[k])]

NoGpt == [entries |-> << >>, firstUsable |-> 0, lastUsable |-> 0, start |-> 0, backup |-> 0]

TablesInv ==
  /\ gpc \in {"wait", "parts", "gpt", "mbr", "end", "done"}
  /\ gret \in {"none", "ok", "io", "e2big", "einval", "badsize", "crash"}
  /\ gpc # "done" => gret = "none"
  /\ gpc = "wait" => at = 1 /\ mbr = << >> /\ ebrs = << >> /\ gpt = NoGpt
  /\ gpc # "wait" =>
       /\ at \in 1 .. Len(parts) + 1
       /\ ebrs = Chain(at - 1) \/ (gret = "e2big" /\ at \in 1 .. Len(parts) /\ ebrs = Chain(at))
       /\ gpc \in {"gpt", "mbr", "end"} \/ gret = "ok" => at = Len(parts) + 1
       /\ mbr = << >> \/ (hd.table # {} /\ mbr = MbrEntries)
       /\ gpt = NoGpt \/ ("gpt" \in hd.table /\ gpt \in GptTables)
       /\ (gpc \in {"mbr", "end"} \/ gret = "ok") /\ "gpt" \in hd.table => gpt \in GptTables
       /\ (gpc = "end" \/ gret = "ok") /\ hd.table # {} => mbr = MbrEntries

\* The tables are made of what setup left behind.
LEMMA SameTables ==
  ASSUME UNCHANGED vars
  PROVE  /\ MbrEntries' = MbrEntries /\ GptTables' = GptTables /\ \A n : Chain(n)' = Chain(n)
         /\ Logical' = Logical /\ parts' = parts /\ hd' = hd
<1>1. parts' = parts /\ hd' = hd /\ size' = size /\ cfg' = cfg
  BY DEF vars
<1>2. Logical' = Logical /\ TableParts' = TableParts /\ MbrParts' = MbrParts
  BY <1>1 DEF Logical, TableParts, MbrParts, InMbr
<1>3. \A n : /\ Picked(Logical, n)' = Picked(Logical, n)
             /\ Picked(TableParts, n)' = Picked(TableParts, n)
             /\ Picked(MbrParts, n)' = Picked(MbrParts, n)
  BY <1>2, Zenon
<1>4. Picked(TableParts, Len(parts))' = Picked(TableParts, Len(parts))
      /\ Picked(MbrParts, Len(parts))' = Picked(MbrParts, Len(parts))
  BY <1>1, <1>2, Zenon
<1>5. \A i : BootRecord(i)' = BootRecord(i)
  BY <1>1, Zenon DEF BootRecord, NextLogical, Sectors32
<1>6. \A n : Chain(n)' = Chain(n)
  BY <1>3, <1>5, Zenon DEF Chain
<1>7. \A p : MbrEntry(p)' = MbrEntry(p)
  BY <1>1, Zenon DEF MbrEntry, Sectors32
<1>8. PartitionEntries' = PartitionEntries
  BY <1>1, <1>4, <1>7, Zenon DEF PartitionEntries
<1>9. MbrEntries' = MbrEntries
  BY <1>1, <1>8, Zenon DEF MbrEntries, Protective, Sectors32
<1>10. GptEntries' = GptEntries
  BY <1>1, <1>4, Zenon DEF GptEntries, GptEntry
<1>11. FirstUsable' = FirstUsable
  BY <1>1, <1>2, Zenon DEF FirstUsable
<1>12. GptTable' = GptTable
  BY <1>1, <1>10, <1>11, Zenon DEF GptTable
<1>13. SlotsExceeded' <=> SlotsExceeded
  BY <1>2, Zenon DEF SlotsExceeded
<1>14. GptTables' = GptTables
  BY <1>12, <1>13, Zenon DEF GptTables, Damaged
<1>. QED  BY <1>1, <1>2, <1>6, <1>9, <1>14

\* One partition more.
LEMMA ChainStep ==
  ASSUME NEW i \in DOMAIN parts, parts \in Seq(Partition)
  PROVE  /\ Chain(0) = << >>
         /\ Chain(i) = IF parts[i].extended THEN Append(Chain(i - 1), BootRecord(i)) ELSE Chain(i - 1)
<1>1. i \in Nat /\ i > 0 /\ i - 1 \in Nat
  OBVIOUS
<1>2. i \in Logical <=> parts[i].extended
  BY DEF Logical
<1>3. /\ Picked(Logical, 0) = << >>
      /\ Picked(Logical, i) = IF i \in Logical THEN Append(Picked(Logical, i - 1), i) ELSE Picked(Logical, i - 1)
  BY <1>1, PickedStep
<1>4. Chain(0) = << >>
  BY <1>3 DEF Chain
<1>5. ASSUME parts[i].extended PROVE Chain(i) = Append(Chain(i - 1), BootRecord(i))
  <2>1. PICK B : B = Logical \cap 1 .. i - 1
    OBVIOUS
  <2>2. PICK q : q = Picked(Logical, i - 1)
    OBVIOUS
  <2>3. q \in Seq(B)
    BY <1>1, <2>1, <2>2, PickedInOrder DEF PickedWell
  <2>4. PICK r : r = Append(q, i)
    OBVIOUS
  <2>5. Len(r) = Len(q) + 1 /\ Len(q) \in Nat /\ r[Len(q) + 1] = i /\ \A k \in 1 .. Len(q) : r[k] = q[k]
    BY <1>1, <2>3, <2>4
  <2>6. Chain(i) = [k \in 1 .. Len(r) |-> BootRecord(r[k])]
        /\ Chain(i - 1) = [k \in 1 .. Len(q) |-> BootRecord(q[k])]
    BY <1>2, <1>3, <1>5, <2>2, <2>4 DEF Chain
  <2> DEFINE S == {BootRecord(k) : k \in {q[l] : l \in 1 .. Len(q)} \cup {i}}
  <2>7. PICK c : c = [k \in 1 .. Len(q) |-> BootRecord(q[k])]
    OBVIOUS
  <2>8. PICK d : d = [k \in 1 .. Len(r) |-> BootRecord(r[k])]
    OBVIOUS
  <2>9. PICK x : x = BootRecord(i)
    OBVIOUS
  <2>10. x \in S /\ (\A k \in 1 .. Len(q) : c[k] \in S) /\ \A k \in 1 .. Len(r) : d[k] \in S
    <3>1. x \in S
      BY <2>9
    <3>2. \A k \in 1 .. Len(q) : c[k] \in S
      BY <2>7
    <3>3. ASSUME NEW k \in 1 .. Len(r) PROVE d[k] \in S
      <4>1. d[k] = BootRecord(r[k])
        BY <2>8, <3>3
      <4>2. r[k] = i \/ \E l \in 1 .. Len(q) : r[k] = q[l]
        BY <2>5, <3>3
      <4>. QED  BY <4>1, <4>2
    <3>. QED  BY <3>1, <3>2, <3>3
  <2> HIDE DEF S
  <2>11. \A n \in Nat : \A f : f = [k \in 1 .. n |-> f[k]] /\ (\A k \in 1 .. n : f[k] \in S) => f \in Seq(S) /\ Len(f) = n
    OBVIOUS
  <2>12. c \in Seq(S) /\ Len(c) = Len(q)
    BY <2>5, <2>7, <2>10, <2>11
  <2>13. d \in Seq(S) /\ Len(d) = Len(q) + 1
    BY <2>5, <2>8, <2>10, <2>11
  <2>14. /\ Append(c, x) \in Seq(S) /\ Len(Append(c, x)) = Len(c) + 1
         /\ \A k \in 1 .. Len(c) : Append(c, x)[k] = c[k]
         /\ Append(c, x)[Len(c) + 1] = x
    BY <2>10, <2>12, AppendProperties
  <2>15. \A k \in 1 .. Len(q) + 1 : d[k] = IF k = Len(q) + 1 THEN x ELSE c[k]
    BY <2>5, <2>7, <2>8, <2>9
  <2>16. \A k \in 1 .. Len(d) : d[k] = Append(c, x)[k]
    BY <2>5, <2>12, <2>13, <2>14, <2>15
  <2>17. d = Append(c, x)
    <3>1. Len(d) = Len(Append(c, x))
      BY <2>12, <2>13, <2>14
    <3>. QED  BY <2>13, <2>14, <2>16, <3>1, SeqEqual
  <2>. QED  BY <2>6, <2>7, <2>8, <2>9, <2>17
<1>6. ASSUME ~parts[i].extended PROVE Chain(i) = Chain(i - 1)
  BY <1>2, <1>3, <1>6 DEF Chain
<1>. QED  BY <1>4, <1>5, <1>6

\* Every step keeps it.
LEMMA TablesStep ==
  ASSUME NEW M \in Nat, HdInv(M), ret = "ok" => Accepted, GenInv, TablesInv,
         [GNext]_<<vars, gvars>>
  PROVE  TablesInv'
<1>1. CASE Setup /\ UNCHANGED gvars
  <2>1. pc # "done" /\ ret # "ok"
    <3>1. pc # "done"
      BY <1>1 DEF Setup, SetupOptions, RefuseOptions, BlockDeviceError, PlacePartition,
                  RefusePartition, FinishSetup, RefuseFinish
    <3>. QED  BY <3>1 DEF HdInv, ListInv
  <2>2. gpc = "wait" /\ gpc' = gpc /\ gret' = gret /\ at' = at /\ mbr' = mbr /\ ebrs' = ebrs /\ gpt' = gpt
    BY <1>1, <2>1 DEF GenInv, gvars
  <2>. QED  BY <2>2 DEF TablesInv, NoGpt
<1>2. CASE UNCHANGED <<vars, gvars>>
  <2>1. gpc' = gpc /\ gret' = gret /\ at' = at /\ mbr' = mbr /\ ebrs' = ebrs /\ gpt' = gpt
    BY <1>2 DEF gvars
  <2>2. /\ MbrEntries' = MbrEntries /\ GptTables' = GptTables /\ \A n : Chain(n)' = Chain(n)
        /\ parts' = parts /\ hd' = hd
    BY <1>2, SameTables
  <2>3. Chain(at - 1)' = Chain(at - 1) /\ Chain(at)' = Chain(at)
    BY <1>2, SameTables, Zenon DEF gvars
  <2>. QED  BY <2>1, <2>2, <2>3 DEF TablesInv, NoGpt
<1>3. CASE Generate /\ UNCHANGED vars
  <2>1. ret = "ok" /\ Accepted
    BY <1>3 DEF Generate, PrepareImage, AddPartition, PartitionsAdded, InsertGpt, GptOverflow,
                InsertMbr, CheckSize, IoError, GenInv
  <2>2. /\ parts \in Seq(Partition) /\ DOMAIN parts = 1 .. Len(parts) /\ Len(parts) \in Nat
    BY <2>1, AcceptedNumbers
  <2>3. /\ MbrEntries' = MbrEntries /\ GptTables' = GptTables
        /\ parts' = parts /\ hd' = hd
    BY <1>3, SameTables
  <2>4. \A n : Chain(n)' = Chain(n)
    BY <1>3, SameTables
  <2>5. CASE PrepareImage
    <3>1. gpc = "wait" /\ gpc' = "parts" /\ gret' = gret /\ at' = at /\ mbr' = mbr /\ ebrs' = ebrs /\ gpt' = gpt
      BY <2>5 DEF PrepareImage
    <3>2. at = 1 /\ mbr = << >> /\ ebrs = << >> /\ gpt = NoGpt /\ gret = "none"
      BY <3>1 DEF TablesInv
    <3>3. Chain(0) = << >>
      <4>1. Picked(Logical, 0) = << >>
        BY PickedStep
      <4>. QED  BY <4>1 DEF Chain
    <3>4. Chain(at - 1)' = << >>
      <4>1. Chain(at - 1)' = Chain(0)'
        BY <3>1, <3>2
      <4>. QED  BY <2>4, <3>3, <4>1
    <3>. QED  BY <2>2, <2>3, <3>1, <3>2, <3>4 DEF TablesInv, NoGpt
  <2>6. CASE AddPartition
    <3>1. /\ gpc = "parts" /\ at <= Len(parts) /\ mbr' = mbr /\ gpt' = gpt
          /\ ebrs' = IF parts[at].extended THEN Append(ebrs, BootRecord(at)) ELSE ebrs
          /\ IF TooSmall(parts[at]) THEN gpc' = "done" /\ gret' = "e2big" /\ at' = at
             ELSE at' = at + 1 /\ gpc' = gpc /\ gret' = gret
      BY <2>6 DEF AddPartition, Return
    <3>2. /\ gret = "none" /\ at \in 1 .. Len(parts) /\ ebrs = Chain(at - 1)
          /\ mbr = << >> \/ (hd.table # {} /\ mbr = MbrEntries)
          /\ gpt = NoGpt \/ ("gpt" \in hd.table /\ gpt \in GptTables)
      BY <2>2, <3>1 DEF TablesInv
    <3>3. ebrs' = Chain(at)
      BY <2>2, <3>1, <3>2, ChainStep
    <3>4. CASE TooSmall(parts[at])
      <4>1. gpc' = "done" /\ gret' = "e2big" /\ at' = at
        BY <3>1, <3>4
      <4>2. Chain(at)' = Chain(at)
        BY <2>4, <4>1
      <4>. QED  BY <2>2, <2>3, <3>1, <3>2, <3>3, <4>1, <4>2 DEF TablesInv, NoGpt
    <3>5. CASE ~TooSmall(parts[at])
      <4>1. gpc' = "parts" /\ gret' = "none" /\ at' = at + 1
        BY <3>1, <3>2, <3>5
      <4>2. Chain(at - 1)' = Chain(at)
        <5>1. at' - 1 = at
          BY <3>2, <4>1
        <5>. QED  BY <2>4, <5>1
      <4>3. at' \in 1 .. Len(parts) + 1
        BY <2>2, <3>2, <4>1
      <4>. QED  BY <2>2, <2>3, <3>1, <3>2, <3>3, <4>1, <4>2, <4>3 DEF TablesInv, NoGpt
    <3>. QED  BY <3>4, <3>5
  <2>7. CASE PartitionsAdded \/ InsertGpt \/ GptOverflow \/ InsertMbr \/ CheckSize \/ IoError
    <3>1. at' = at /\ ebrs' = ebrs
      BY <2>7 DEF PartitionsAdded, InsertGpt, GptOverflow, InsertMbr, CheckSize, IoError
    <3>2. Chain(at - 1)' = Chain(at - 1) /\ Chain(at)' = Chain(at)
      BY <2>4, <3>1
    <3>3. CASE PartitionsAdded
      <4>1. /\ gpc = "parts" /\ at > Len(parts) /\ gret' = gret /\ mbr' = mbr /\ gpt' = gpt
            /\ gpc' = IF hd.table = {} THEN "end" ELSE IF "gpt" \in hd.table THEN "gpt" ELSE "mbr"
        BY <3>3 DEF PartitionsAdded
      <4>2. gret = "none" /\ at = Len(parts) + 1
        BY <2>2, <4>1 DEF TablesInv
      <4>. QED  BY <2>2, <2>3, <3>1, <3>2, <4>1, <4>2 DEF TablesInv, NoGpt
    <3>4. CASE InsertGpt
      <4>1. /\ gpc = "gpt" /\ "gpt" \in hd.table /\ mbr' = mbr /\ gpt' \in GptTables
            /\ (gpc' = "done" /\ gret' = "einval") \/ (gpc' = "mbr" /\ gret' = gret)
        BY <3>4 DEF InsertGpt, Return, GenInv
      <4>. QED  BY <2>2, <2>3, <3>1, <3>2, <4>1 DEF TablesInv, NoGpt
    <3>5. CASE InsertMbr
      <4>1. gpc = "mbr" /\ hd.table # {} /\ mbr' = MbrEntries /\ gpt' = gpt /\ gpc' = "end" /\ gret' = gret
        BY <3>5 DEF InsertMbr, GenInv
      <4>. QED  BY <2>2, <2>3, <3>1, <3>2, <4>1 DEF TablesInv, NoGpt
    <3>6. CASE CheckSize
      <4>1. /\ gpc = "end" /\ mbr' = mbr /\ gpt' = gpt /\ gpc' = "done"
            /\ gret' \in {"einval", "badsize", "ok"}
        BY <3>6 DEF CheckSize, Return
      <4>. QED  BY <2>2, <2>3, <3>1, <3>2, <4>1 DEF TablesInv, NoGpt
    <3>7. CASE IoError
      <4>1. /\ gpc # "done" /\ mbr' = mbr /\ gpt' = gpt /\ gpc' = "done" /\ gret' = "io"
        BY <3>7 DEF IoError, Return
      <4>2. gpc = "wait" => at = 1 /\ ebrs = << >> /\ mbr = << >> /\ gpt = NoGpt
        BY DEF TablesInv
      <4>3. gpc = "wait" => Chain(at - 1) = << >>
        <5>1. Picked(Logical, 0) = << >>
          BY PickedStep
        <5>2. Chain(0) = << >>
          BY <5>1 DEF Chain
        <5>. QED  BY <4>2, <5>2
      <4>. QED  BY <2>2, <2>3, <3>1, <3>2, <4>1, <4>2, <4>3 DEF TablesInv, NoGpt
    <3>8. CASE GptOverflow
      <4>1. /\ gpc \in {"gpt", "mbr", "end"} /\ mbr' = mbr /\ gpt' = gpt
            /\ gpc' = "done" /\ gret' = "crash"
        BY <3>8 DEF GptOverflow, Return
      <4>. QED  BY <2>2, <2>3, <3>1, <3>2, <4>1 DEF TablesInv, NoGpt
    <3>. QED  BY <2>7, <3>3, <3>4, <3>5, <3>6, <3>7, <3>8
  <2>. QED  BY <1>3, <2>5, <2>6, <2>7 DEF Generate
<1>. QED  BY <1>1, <1>2, <1>3, GenCases

-----------------------------------------------------------------------------
(***************************************************************************)
(* What is written is a range of the file.                                 *)
(***************************************************************************)
WriteInv == writes \in Seq(Write) /\ flen \in Nat

LEMMA PutWrite ==
  ASSUME NEW kind \in Kinds, NEW from \in Nat, NEW len \in Nat PROVE Put(kind, from, len) \in Write
<1>1. PICK t \in Nat : t = from + len
  OBVIOUS
<1>. QED  BY <1>1 DEF Put, Write, Kinds

\* A boot record lies inside the image.
LEMMA RecordPlace ==
  ASSUME Accepted, NEW i \in DOMAIN parts, parts[i].extended
  PROVE  /\ hd.extLba \in Nat /\ hd.align \in Nat /\ parts[i].offset \in Nat
         /\ hd.extLba + hd.align <= parts[i].offset /\ parts[i].offset <= size
<1>1. /\ parts[i].offset \in Nat /\ End(parts[i]) = parts[i].offset + parts[i].size
      /\ parts[i].size \in Nat /\ End(parts[i]) <= size /\ size \in Nat /\ hd.align \in Nat /\ i \in Done
  BY AcceptedNumbers DEF Accepted
<1>2. hd.extLba \in Nat
  BY DEF Accepted, TypeInv, TypeOK
<1>3. hd.extLba <= parts[i].offset - hd.align
  BY <1>1 DEF Accepted, BootRecordRoom
<1>. QED  BY <1>1, <1>2, <1>3

LEMMA PartitionWritesType ==
  ASSUME Accepted, NEW i \in DOMAIN parts PROVE PartitionWrites(i) \in Seq(Write)
<1>1. PICK ws \in Seq(Logged) : ws = PartitionWrites(i)
  BY PartitionLog
<1>2. ASSUME NEW l \in DOMAIN ws PROVE ws[l] \in Write
  <2>1. CASE parts[i].extended /\ ws[l] = Put("ebr", parts[i].offset - hd.align + 446, 66)
    <3>1. PICK o \in Nat : o = parts[i].offset - hd.align + 446
      BY <2>1, RecordPlace
    <3>2. Put("ebr", o, 66) \in Write
      BY PutWrite DEF Kinds
    <3>. QED  BY <2>1, <3>1, <3>2
  <2>2. CASE HasData(parts[i]) /\ ~TooSmall(parts[i]) /\ ws[l] = ImageData(i)
    <3>1. PICK w \in Logged : w = ImageData(i)
      BY <2>2, ImageDataLogged
    <3>2. w.from = parts[i].offset /\ parts[i].offset \in Nat /\ w.to \in Nat
      BY <2>2, <3>1, ImageDataLogged, AcceptedNumbers DEF ImageData
    <3>3. w \in Write
      BY <3>2 DEF Logged, Write, Kinds
    <3>. QED  BY <2>2, <3>1, <3>3
  <2>. QED  BY <1>1, <2>1, <2>2, PartitionLog
<1>. QED  BY <1>1, <1>2

LEMMA GptWritesType ==
  ASSUME Accepted, "gpt" \in hd.table
  PROVE  /\ GptWrites \in Seq(Write) /\ BackupWrites \in Seq(Write)
         /\ GptWrites \in Seq(Logged) /\ Len(GptWrites) = 2
<1>1. PICK g \in Kinds : g = "gpt"
  BY DEF Kinds
<1>2. AreaPlaced(MbrAt + 3, size - BackupSize, BackupSize)
  BY DEF Accepted, TablesPlaced
<1>3. size - BackupSize \in Nat /\ size \in Nat /\ hd.gptLoc \in Nat
  BY <1>2, AcceptedNumbers DEF AreaPlaced, Accepted, TypeInv, TypeOK
<1>4. /\ Sector = 512 /\ ArraySize = 16384 /\ BackupSize = 16896 /\ HeaderSize = 92
  BY AreaSizes, SMT DEF ArraySize, HeaderSize
<1>5. size - Sector \in Nat
  BY <1>3, <1>4
<1>6. PICK h \in Write : h = Put("gpt", Sector, HeaderSize)
  BY <1>1, <1>4, PutWrite
<1>7. PICK a \in Write : a = Put("gpt", hd.gptLoc, ArraySize)
  BY <1>1, <1>3, <1>4, PutWrite
<1>8. PICK b \in Write : b = Put("gpt", size - BackupSize, ArraySize)
  BY <1>1, <1>3, <1>4, PutWrite
<1>9. PICK t \in Write : t = Put("gpt", size - Sector, HeaderSize)
  BY <1>1, <1>5, <1>4, PutWrite
<1>10. GptWrites = <<h, a>> /\ BackupWrites = <<b, t>>
  BY <1>6, <1>7, <1>8, <1>9 DEF GptWrites, BackupWrites
<1>11. h \in Logged /\ a \in Logged
  BY DEF Write, Logged, Kinds
<1>. QED  BY <1>10, <1>11

\* The file never gets a negative length.
LEMMA ExtendedType ==
  ASSUME NEW len \in Nat, NEW ws \in Seq(Logged), Len(ws) <= 2 PROVE Extended(len, ws) \in Nat
<1>1. CASE cfg.block
  BY <1>1 DEF Extended
<1>2. CASE ~cfg.block
  <2>1. Extended(len, ws) \in Int /\ Extended(len, ws) >= len
    BY <1>2, ExtendedLength
  <2>. QED  BY <2>1
<1>. QED  BY <1>1, <1>2

LEMMA MbrWriteType ==
  /\ Put("mbr", Sector - MbrTail, MbrTail) \in Write
  /\ <<Put("mbr", Sector - MbrTail, MbrTail)>> \in Seq(Logged)
  /\ Len(<<Put("mbr", Sector - MbrTail, MbrTail)>>) = 1
<1>1. Sector - MbrTail \in Nat /\ MbrTail \in Nat
  BY DEF Sector, MbrTail
<1>2. PICK w \in Write : w = Put("mbr", Sector - MbrTail, MbrTail)
  BY <1>1, PutWrite DEF Kinds
<1>3. w \in Logged
  BY DEF Write, Logged, Kinds
<1>. QED  BY <1>2, <1>3

LEMMA WriteStep ==
  ASSUME NEW M \in Nat, HdInv(M), ret = "ok" => Accepted, GenInv, WriteInv, [GNext]_<<vars, gvars>>
  PROVE  WriteInv'
<1>1. CASE (Setup /\ UNCHANGED gvars) \/ UNCHANGED <<vars, gvars>>
  BY <1>1 DEF gvars, WriteInv
<1>2. CASE Generate /\ UNCHANGED vars
  <2>1. CASE PrepareImage
    <3>1. Accepted
      BY <2>1 DEF PrepareImage
    <3>2. hd.fileSize \in Nat /\ cfg.device \in Nat
      BY <3>1, AcceptedNumbers DEF Accepted, TypeInv, TypeOK, Config
    <3>3. PICK w \in Write : w = Put("wipe", 0, 2048)
      BY PutWrite DEF Kinds
    <3>4. flen' = IF cfg.block THEN cfg.device ELSE hd.fileSize
      BY <2>1 DEF PrepareImage
    <3>5. writes' = IF cfg.block THEN <<w>> ELSE << >>
      BY <2>1, <3>3 DEF PrepareImage
    <3>. QED  BY <3>2, <3>4, <3>5 DEF WriteInv
  <2>2. CASE AddPartition
    <3>1. Accepted /\ at \in Nat \ {0} /\ at <= Len(parts)
      BY <2>2 DEF AddPartition, GenInv
    <3>2. at \in DOMAIN parts
      BY <3>1, AcceptedNumbers
    <3>3. PICK ws \in Seq(Write) : ws = PartitionWrites(at)
      BY <3>1, <3>2, PartitionWritesType
    <3>4. ws \in Seq(Logged) /\ Len(ws) <= 2
      BY <3>1, <3>2, <3>3, PartitionLog, TwoWrites
    <3>5. writes' = writes \o ws /\ flen' = Extended(flen, ws)
      BY <2>2, <3>3 DEF AddPartition
    <3>. QED  BY <3>4, <3>5, ExtendedType DEF WriteInv
  <2>3. CASE PartitionsAdded
    BY <2>3 DEF PartitionsAdded, WriteInv
  <2>4. CASE InsertGpt
    <3>1. Accepted /\ "gpt" \in hd.table
      BY <2>4 DEF InsertGpt, GenInv
    <3>2. PICK ws \in Seq(Write) : ws = GptWrites
      BY <3>1, GptWritesType
    <3>3. PICK bs \in Seq(Write) : bs = BackupWrites
      BY <3>1, GptWritesType
    <3>4. ws \in Seq(Logged) /\ Len(ws) <= 2
      <4>1. Len(ws) = 2 /\ ws \in Seq(Logged)
        BY <3>1, <3>2, GptWritesType, Zenon
      <4>. QED  BY <4>1
    <3>5. Extended(flen, ws) \in Nat /\ size \in Nat
      BY <3>1, <3>4, ExtendedType, AcceptedNumbers DEF WriteInv
    <3>6. \/ writes' = writes \o ws \o bs
          \/ writes' = writes \o ws \o << >>
      BY <2>4, <3>2, <3>3 DEF InsertGpt
    <3>7. flen' = size \/ flen' = Extended(flen, ws)
      BY <2>4, <3>2 DEF InsertGpt
    <3>8. ws \o bs \in Seq(Write) /\ writes \o ws \o bs \in Seq(Write) /\ writes \o ws \o << >> \in Seq(Write)
      BY DEF WriteInv
    <3>9. writes' \in Seq(Write)
      BY <3>6, <3>8
    <3>10. flen' \in Nat
      BY <3>5, <3>7
    <3>. QED  BY <3>9, <3>10 DEF WriteInv
  <2>5. CASE InsertMbr
    <3>1. PICK w \in Write : w = Put("mbr", Sector - MbrTail, MbrTail)
      BY MbrWriteType
    <3>2. <<w>> \in Seq(Logged) /\ Len(<<w>>) <= 2
      BY <3>1, MbrWriteType
    <3>3. writes' = Append(writes, w) /\ flen' = Extended(flen, <<w>>)
      BY <2>5, <3>1 DEF InsertMbr
    <3>4. Append(writes, w) \in Seq(Write)
      BY DEF WriteInv
    <3>5. Extended(flen, <<w>>) \in Nat
      <4>1. PICK ws \in Seq(Logged) : ws = <<w>> /\ Len(ws) <= 2
        BY <3>2
      <4>2. Extended(flen, ws) \in Nat
        BY <4>1, ExtendedType DEF WriteInv
      <4>. QED  BY <4>1, <4>2
    <3>. QED  BY <3>3, <3>4, <3>5, Zenon DEF WriteInv
  <2>6. CASE CheckSize
    <3>1. Accepted
      BY <2>6 DEF CheckSize, GenInv
    <3>2. size \in Nat
      BY <3>1, AcceptedNumbers
    <3>3. (flen' = size \/ flen' = flen) /\ writes' = writes
      BY <2>6 DEF CheckSize
    <3>. QED  BY <3>2, <3>3 DEF WriteInv
  <2>7. CASE IoError
    BY <2>7 DEF IoError, WriteInv
  <2>8. CASE GptOverflow
    BY <2>8 DEF GptOverflow, WriteInv
  <2>. QED  BY <1>2, <2>1, <2>2, <2>3, <2>4, <2>5, <2>6, <2>7, <2>8 DEF Generate
<1>. QED  BY <1>1, <1>2, GenCases

-----------------------------------------------------------------------------
(***************************************************************************)
(* The types of the tables.                                                *)
(***************************************************************************)
Extent == [first: Nat, last: Nat]
Field  == 0 .. Word32 - 1
Entry  == [type: Nat, first: Field, total: Field]
Record == [at: Nat, first: Field, total: Field, next: SUBSET Field]
GptHeader == [entries: Seq(Extent), firstUsable: Nat, lastUsable: Nat, start: Nat, backup: Nat]

\* Sectors: those of a number of bytes, and of a multiple of a sector.
LEMMA InSectors ==
  ASSUME NEW x \in Nat
  PROVE  /\ x \div Sector \in Nat
         /\ x >= 512 => x \div Sector >= 1
         /\ x >= 17408 => x \div Sector >= 34
         /\ x % Sector = 0 => (x \div Sector) * Sector = x
         /\ \A y \in Nat : x <= y => x \div Sector <= y \div Sector
<1>1. Sector = 512
  BY AreaSizes, SMT
<1>2. x \div 512 \in Nat
  OBVIOUS
<1>3. \A y \in Nat : x <= y => x \div 512 <= y \div 512
  OBVIOUS
<1>4. (x >= 512 => x \div 512 >= 1) /\ (x >= 17408 => x \div 512 >= 34)
  OBVIOUS
<1>5. x % 512 = 0 => (x \div 512) * 512 = x
  OBVIOUS
<1>. QED  BY <1>1, <1>2, <1>3, <1>4, <1>5

\* What a 32-bit field holds.
LEMMA FieldType == ASSUME NEW x \in Int PROVE Sectors32(x) \in Field
<1>1. Sector = 512
  BY AreaSizes, SMT
<1>2. PICK y \in Int : y = x \div Sector
  BY <1>1
<1>3. y % Word32 \in 0 .. Word32 - 1
  BY WidthAssumption
<1>. QED  BY <1>2, <1>3 DEF Sectors32, Field

\* It is exact for what lies inside an image whose sectors 32 bits count.
LEMMA FieldExact ==
  ASSUME Countable, size \in Nat, NEW x \in Nat, x <= size PROVE Sectors32(x) = x \div Sector
<1>1. x \div Sector \in Nat /\ x \div Sector <= size \div Sector /\ size \div Sector \in Nat
  BY InSectors
<1>2. PICK y \in Nat : y = x \div Sector /\ y < Word32
  BY <1>1, WidthAssumption DEF Countable
<1>3. y % Word32 = y
  BY <1>2, WidthAssumption
<1>. QED  BY <1>2, <1>3 DEF Sectors32

\* What is picked, and what is made of it entry by entry.
LEMMA PickedMembers ==
  ASSUME NEW S, NEW n \in Nat
  PROVE  /\ Len(Picked(S, n)) \in Nat
         /\ \A k \in 1 .. Len(Picked(S, n)) : Picked(S, n)[k] \in S \cap 1 .. n
<1>1. PICK B : B = S \cap 1 .. n
  OBVIOUS
<1>2. PICK q : q = Picked(S, n)
  OBVIOUS
<1>3. q \in Seq(B)
  BY <1>1, <1>2, PickedInOrder DEF PickedWell
<1>4. Len(q) \in Nat /\ \A k \in 1 .. Len(q) : q[k] \in B
  BY <1>3
<1>. QED  BY <1>1, <1>2, <1>4

LEMMA PickedMap ==
  ASSUME NEW S, NEW n \in Nat, NEW T, NEW e,
         e = [k \in 1 .. Len(Picked(S, n)) |-> e[k]],
         \A k \in 1 .. Len(Picked(S, n)) : Picked(S, n)[k] \in S \cap 1 .. n => e[k] \in T
  PROVE  e \in Seq(T) /\ Len(e) = Len(Picked(S, n))
<1>1. PICK m \in Nat : m = Len(Picked(S, n)) /\ \A k \in 1 .. m : e[k] \in T
  BY PickedMembers
<1>2. e \in [1 .. m -> T]
  BY <1>1
<1>3. \A g \in [1 .. m -> T] : g \in Seq(T) /\ Len(g) = m
  OBVIOUS
<1>. QED  BY <1>1, <1>2, <1>3

\* The numbers of a partition in the table.
LEMMA TableNumbers ==
  ASSUME Accepted, Tabled, NEW i \in TableParts
  PROVE  /\ i \in DOMAIN parts /\ parts[i] \in Partition /\ parts[i].ptype \in Nat
         /\ parts[i].offset \in Nat /\ parts[i].size \in Nat /\ parts[i].size >= 512
         /\ End(parts[i]) = parts[i].offset + parts[i].size /\ End(parts[i]) <= size
<1>1. i \in DOMAIN parts
  BY DEF TableParts
<1>2. /\ parts[i] \in Partition /\ parts[i].offset \in Nat /\ parts[i].size \in Nat
      /\ End(parts[i]) = parts[i].offset + parts[i].size /\ End(parts[i]) <= size
  BY <1>1, AcceptedNumbers
<1>3. parts[i].size > 0 /\ parts[i].size % 512 = 0
  BY AreaSizes, SMT DEF Tabled, DeclaredAs
<1>4. parts[i].size >= 512
  <2>1. PICK s \in Nat : s = parts[i].size
    BY <1>2
  <2>2. s > 0 /\ s % 512 = 0
    BY <1>3, <2>1
  <2>. QED  BY <2>1, <2>2
<1>. QED  BY <1>1, <1>2, <1>4 DEF Partition

\* A disk with a GPT has at least a sector in front of the backup table.
LEMMA BackupBehindMbr ==
  ASSUME Accepted, "gpt" \in hd.table PROVE size >= 17408
<1>1. /\ AreaPlaced(MbrAt, 440, 72) /\ AreaPlaced(MbrAt + 3, size - 16896, 16896)
  <2>1. Sector - MbrTail = 440 /\ MbrTail = 72 /\ BackupSize = 16896
    BY AreaSizes, SMT DEF Sector, MbrTail
  <2>2. hd.table # {}
    OBVIOUS
  <2>. QED  BY <2>1, <2>2 DEF Accepted, TablesPlaced
<1>2. PICK i \in DOMAIN parts, j \in DOMAIN parts : i = MbrAt /\ j = MbrAt + 3 /\ i < j
  BY <1>1, AcceptedNumbers DEF AreaPlaced
<1>3. size \in Nat /\ size - 16896 \in Nat
  BY <1>1, <1>2, AcceptedNumbers DEF AreaPlaced
<1>4. PICK w \in Logged : w.from = 440 /\ w.to = 512
  <2>1. [kind |-> "mbr", from |-> 440, to |-> 512, part |-> 0] \in Logged
    BY DEF Logged, Kinds
  <2>. QED  BY <2>1
<1>5. PICK v \in Logged : v.from = size - 16896 /\ v.to = size
  <2>1. PICK f, t \in Int : f = size - 16896 /\ t = size
    BY <1>3
  <2>2. [kind |-> "gpt", from |-> f, to |-> t, part |-> 0] \in Logged
    BY DEF Logged, Kinds
  <2>. QED  BY <2>1, <2>2
<1>6. Within(w, i)
  BY <1>1, <1>2, <1>4 DEF Within, AreaPlaced, End
<1>7. Within(v, j)
  BY <1>1, <1>2, <1>3, <1>5 DEF Within, AreaPlaced, End
<1>8. ~Meet(w, v)
  BY <1>1, <1>2, <1>6, <1>7, PlainPair DEF AreaPlaced
<1>9. 512 <= size - 16896 \/ size <= 440
  BY <1>3, <1>4, <1>5, <1>8 DEF Meet
<1>. QED  BY <1>3, <1>9

LEMMA GptEntriesType ==
  ASSUME Accepted, Tabled
  PROVE  /\ GptEntries \in Seq(Extent)
         /\ Len(GptEntries) = MinOf(Len(Picked(TableParts, Len(parts))), GptSlots)
<1>1. ASSUME NEW i \in TableParts PROVE GptEntry(parts[i]) \in Extent
  <2>1. PICK o, z \in Nat : o = parts[i].offset /\ z = parts[i].size /\ z >= 512
    BY TableNumbers
  <2>2. o \div Sector \in Nat /\ (o + z) \div Sector \in Nat /\ (o + z) \div Sector >= 1
    <3>1. o + z \in Nat /\ o + z >= 512
      BY <2>1
    <3>. QED  BY <2>1, <3>1, InSectors
  <2>3. PICK f, l \in Nat : f = o \div Sector /\ l = (o + z) \div Sector - 1
    BY <2>2
  <2>4. GptEntry(parts[i]) = [first |-> f, last |-> l]
    BY <2>1, <2>3 DEF GptEntry
  <2>. QED  BY <2>4 DEF Extent
<1>2. Len(parts) \in Nat
  BY AcceptedNumbers
<1>3. PICK q : q = Picked(TableParts, Len(parts))
  OBVIOUS
<1>4. PICK n \in Nat : n = MinOf(Len(q), GptSlots) /\ n <= Len(q)
  BY <1>2, <1>3, PickedMembers, WidthAssumption DEF MinOf
<1>5. PICK e : e = [k \in 1 .. n |-> GptEntry(parts[q[k]])]
  OBVIOUS
<1>6. \A k \in 1 .. n : q[k] \in TableParts
  BY <1>2, <1>3, <1>4, PickedMembers
<1>7. e \in [1 .. n -> Extent]
  BY <1>1, <1>5, <1>6
<1>8. e \in Seq(Extent) /\ Len(e) = n
  BY <1>7
<1>. QED  BY <1>3, <1>4, <1>5, <1>8 DEF GptEntries

LEMMA FirstUsableType ==
  ASSUME Accepted, Tabled
  PROVE  FirstUsable \in Nat /\ \A i \in TableParts : FirstUsable <= parts[i].offset \div Sector
<1> DEFINE O == {parts[i].offset : i \in TableParts}
<1>1. O \in SUBSET Nat
  BY TableNumbers
<1>2. hd.gptLoc \in Nat /\ (GptSectors - 1) * Sector = 16384
  BY AreaSizes DEF Accepted, TypeInv, TypeOK
<1>3. CASE O = {}
  <2>1. FirstUsable = (hd.gptLoc + 16384) \div Sector
    BY <1>2, <1>3 DEF FirstUsable
  <2>2. TableParts = {}
    BY <1>3
  <2>3. (hd.gptLoc + 16384) \div Sector \in Nat
    <3>1. hd.gptLoc + 16384 \in Nat
      BY <1>2
    <3>. QED  BY <3>1, InSectors
  <2>. QED  BY <2>1, <2>2, <2>3
<1>4. CASE O # {}
  <2>1. PICK m \in O : \A y \in O : m <= y
    <3> HIDE DEF O
    <3>. QED  BY <1>1, <1>4, LeastOf
  <2>2. Min(O) \in O /\ \A y \in O : Min(O) <= y
    <3> HIDE DEF O
    <3>. QED  BY <2>1, <1>1 DEF Min
  <2>3. FirstUsable = Min(O) \div Sector
    BY <1>4 DEF FirstUsable
  <2>4. Min(O) \in Nat /\ Min(O) \div Sector \in Nat
    <3>1. Min(O) \in Nat
      BY <1>1, <2>2
    <3>. QED  BY <3>1, InSectors
  <2>5. ASSUME NEW i \in TableParts PROVE Min(O) \div Sector <= parts[i].offset \div Sector
    <3>1. parts[i].offset \in Nat /\ Min(O) <= parts[i].offset
      BY <2>2, TableNumbers
    <3>. QED  BY <2>4, <3>1, InSectors
  <2>. QED  BY <2>3, <2>4, <2>5
<1>. QED  BY <1>3, <1>4

LEMMA GptTableType ==
  ASSUME Accepted, Tabled, "gpt" \in hd.table PROVE GptTables \subseteq GptHeader
<1>1. /\ size \in Nat /\ size >= 17408 /\ hd.gptLoc \in Nat /\ GptSectors = 33
  BY BackupBehindMbr, AcceptedNumbers, AreaSizes, SMT DEF GptSectors, Accepted, TypeInv, TypeOK
<1>2. size \div Sector >= 34 /\ size \div Sector \in Nat /\ hd.gptLoc \div Sector \in Nat
  BY <1>1, InSectors
<1>3. PICK l, s, b \in Nat : /\ l = size \div Sector - 1 - GptSectors /\ s = hd.gptLoc \div Sector
                             /\ b = IF cfg.noBackup THEN 1 ELSE size \div Sector - 1
  BY <1>1, <1>2
<1>4. PICK e \in Seq(Extent), f \in Nat : e = GptEntries /\ f = FirstUsable
  BY GptEntriesType, FirstUsableType
<1>5. GptTable = [entries |-> e, firstUsable |-> f, lastUsable |-> l, start |-> s, backup |-> b]
  BY <1>3, <1>4 DEF GptTable
<1>6. GptTable \in GptHeader /\ Damaged(GptTable) \in GptHeader
  BY <1>5 DEF GptHeader, Damaged
<1>. QED  BY <1>6 DEF GptTables

LEMMA MbrEntryType ==
  ASSUME Accepted, Tabled, NEW i \in TableParts PROVE MbrEntry(parts[i]) \in Entry
<1>1. /\ i \in DOMAIN parts /\ parts[i].ptype \in Nat /\ parts[i].offset \in Nat /\ parts[i].size \in Nat
      /\ size \in Nat
  BY TableNumbers, AcceptedNumbers
<1>2. CASE parts[i].extended
  <2>1. hd.extLba \in Nat /\ size - hd.extLba \in Nat
    BY <1>1, <1>2, RecordPlace
  <2>2. PICK f, t \in Field : f = Sectors32(hd.extLba) /\ t = Sectors32(size - hd.extLba)
    BY <2>1, FieldType
  <2>3. MbrEntry(parts[i]) = [type |-> 15, first |-> f, total |-> t]
    BY <1>2, <2>2 DEF MbrEntry
  <2>. QED  BY <2>3 DEF Entry
<1>3. CASE ~parts[i].extended
  <2>1. PICK f, t \in Field : f = Sectors32(parts[i].offset) /\ t = Sectors32(parts[i].size)
    BY <1>1, FieldType
  <2>2. MbrEntry(parts[i]) = [type |-> parts[i].ptype, first |-> f, total |-> t]
    BY <1>3, <2>1 DEF MbrEntry
  <2>. QED  BY <1>1, <2>2 DEF Entry
<1>. QED  BY <1>2, <1>3

LEMMA PartitionEntriesType ==
  ASSUME Accepted, Tabled
  PROVE  PartitionEntries \in Seq(Entry) /\ Len(PartitionEntries) = Len(Picked(MbrParts, Len(parts)))
<1>1. MbrParts \subseteq TableParts /\ Len(parts) \in Nat
  BY AcceptedNumbers DEF MbrParts, TableParts, InMbr
<1>2. PICK q : q = Picked(MbrParts, Len(parts))
  OBVIOUS
<1>3. PICK e : e = [k \in 1 .. Len(q) |-> MbrEntry(parts[q[k]])]
  OBVIOUS
<1>4. e = [k \in 1 .. Len(q) |-> e[k]]
  BY <1>3
<1>5. \A k \in 1 .. Len(q) : q[k] \in MbrParts \cap 1 .. Len(parts) => e[k] \in Entry
  BY <1>1, <1>3, MbrEntryType
<1>6. e \in Seq(Entry) /\ Len(e) = Len(q)
  BY <1>1, <1>2, <1>4, <1>5, PickedMap
<1>. QED  BY <1>2, <1>3, <1>6 DEF PartitionEntries

\* A protective entry.
LEMMA ProtectiveType ==
  ASSUME NEW x \in Int PROVE Protective(x) \in Entry /\ Protective(x).type = 238
<1>1. Sector \in Int
  BY AreaSizes, SMT
<1>2. PICK f, t \in Field : f = Sectors32(Sector) /\ t = Sectors32(x)
  BY <1>1, FieldType
<1>3. PICK y \in Nat : y = 238
  BY SMT
<1>4. Protective(x) = [type |-> y, first |-> f, total |-> t]
  BY <1>2, <1>3 DEF Protective
<1>. QED  BY <1>3, <1>4 DEF Entry

\* The MBR never needs more than its four slots.
LEMMA MbrEntriesType ==
  ASSUME Accepted, Tabled, hd.table # {}
  PROVE  MbrEntries \in Seq(Entry) /\ Len(MbrEntries) <= 4
<1>1. size \in Nat /\ size >= 512 /\ hd.gptLoc \in Nat /\ hd.table \in {{"gpt"}, {"mbr"}, {"mbr", "gpt"}}
  <2>1. hd.table \in SUBSET {"mbr", "gpt"} /\ hd.gptLoc \in Nat
    BY DEF Accepted, TypeInv, TypeOK
  <2>2. hd.table \in {{"gpt"}, {"mbr"}, {"mbr", "gpt"}}
    BY <2>1
  <2>. QED  BY <2>1, <2>2, TableReach, AcceptedNumbers
<1>2. PICK p \in Seq(Entry) : p = PartitionEntries /\ Len(p) = Len(Picked(MbrParts, Len(parts)))
  BY PartitionEntriesType
<1>3. Sector = 512 /\ GptSectors = 33
  BY AreaSizes, SMT DEF GptSectors
<1>4. CASE hd.table = {"gpt"}
  <2>1. size - Sector \in Int
    BY <1>1, <1>3
  <2>2. PICK e \in Entry : e = Protective(size - Sector)
    BY <2>1, ProtectiveType
  <2>3. MbrEntries = <<e>>
    BY <1>4, <2>2 DEF MbrEntries
  <2>. QED  BY <2>3
<1>5. CASE hd.table = {"mbr"}
  <2>1. MbrEntries = p
    BY <1>2, <1>5 DEF MbrEntries
  <2>. QED  BY <1>2, <1>5, <2>1 DEF Tabled
<1>6. CASE hd.table = {"mbr", "gpt"}
  <2>1. hd.gptLoc + (GptSectors - 2) * Sector \in Int
    BY <1>1, <1>3
  <2>2. PICK e : e = Protective(hd.gptLoc + (GptSectors - 2) * Sector)
    OBVIOUS
  <2>3. e \in Entry
    BY <2>1, <2>2, ProtectiveType
  <2>4. MbrEntries = Append(p, e)
    <3>1. hd.table # {"gpt"} /\ hd.table # {"mbr"}
      <4>1. "mbr" \in hd.table /\ "gpt" \in hd.table /\ "mbr" \notin {"gpt"} /\ "gpt" \notin {"mbr"}
        BY <1>6
      <4>. QED  BY <4>1
    <3>2. PICK a : a = <<Protective(size - Sector)>>
      OBVIOUS
    <3>3. MbrEntries = IF hd.table = {"gpt"} THEN a ELSE IF hd.table = {"mbr"} THEN p ELSE Append(p, e)
      BY <1>2, <2>2, <3>2 DEF MbrEntries
    <3>. QED  BY <3>1, <3>3, Zenon
  <2>5. Len(p) <= 3 /\ Len(p) \in Nat
    BY <1>2, <1>6 DEF Tabled
  <2>. QED  BY <2>3, <2>4, <2>5
<1>. QED  BY <1>1, <1>4, <1>5, <1>6

LEMMA BootRecordType ==
  ASSUME Accepted, NEW i \in Logical PROVE BootRecord(i) \in Record
<1>1. i \in DOMAIN parts /\ parts[i].extended
  BY DEF Logical
<1>2. /\ hd.align \in Nat /\ parts[i].offset - hd.align \in Nat /\ parts[i].size \in Nat
  BY <1>1, RecordPlace, AcceptedNumbers, SMTT(30)
<1>3. \A j \in NextLogical(i) : Sectors32(parts[j].offset - hd.align - hd.extLba) \in Field
  <2> SUFFICES ASSUME NEW j \in NextLogical(i)
               PROVE  Sectors32(parts[j].offset - hd.align - hd.extLba) \in Field
    OBVIOUS
  <2>1. j \in DOMAIN parts /\ parts[j].extended
    BY <1>1, AcceptedNumbers DEF NextLogical
  <2>2. parts[j].offset - hd.align - hd.extLba \in Int
    BY <2>1, RecordPlace
  <2>. QED  BY <2>2, FieldType
<1>4. PICK n \in SUBSET Field : n = {Sectors32(parts[j].offset - hd.align - hd.extLba) : j \in NextLogical(i)}
  BY <1>3
<1>5. PICK a \in Nat : a = parts[i].offset - hd.align
  BY <1>2
<1>6. PICK f, t \in Field : f = Sectors32(hd.align) /\ t = Sectors32(parts[i].size)
  BY <1>2, FieldType
<1>7. BootRecord(i) = [at |-> a, first |-> f, total |-> t, next |-> n]
  BY <1>4, <1>5, <1>6 DEF BootRecord
<1>. QED  BY <1>7 DEF Record

LEMMA ChainType ==
  ASSUME Accepted, NEW n \in Nat PROVE Chain(n) \in Seq(Record) /\ Len(Chain(n)) = Len(Picked(Logical, n))
<1>1. PICK q : q = Picked(Logical, n)
  OBVIOUS
<1>2. PICK e : e = [k \in 1 .. Len(q) |-> BootRecord(q[k])]
  OBVIOUS
<1>3. e = [k \in 1 .. Len(q) |-> e[k]]
  BY <1>2
<1>4. \A k \in 1 .. Len(q) : q[k] \in Logical \cap 1 .. n => e[k] \in Record
  BY <1>2, BootRecordType
<1>5. e \in Seq(Record) /\ Len(e) = Len(q)
  BY <1>1, <1>3, <1>4, PickedMap
<1>. QED  BY <1>1, <1>2, <1>5 DEF Chain

\* TablesInv holds in every execution.
LEMMA TablesInvariant ==
  ASSUME NEW M \in Nat, Fits(M) PROVE GSpec => [](TablesInv /\ WriteInv /\ (ret = "ok" => Tabled))
<1>1. GInit => TablesInv /\ WriteInv
  BY DEF GInit, TablesInv, WriteInv, NoGpt
<1>2. HdInv(M) /\ (ret = "ok" => Accepted) /\ GenInv /\ TablesInv /\ [GNext]_<<vars, gvars>>
        => TablesInv'
  BY TablesStep
<1>3. HdInv(M) /\ (ret = "ok" => Accepted) /\ GenInv /\ WriteInv /\ [GNext]_<<vars, gvars>>
        => WriteInv'
  BY WriteStep
<1>4. HdInv(M) /\ (ret = "ok" => Accepted) /\ CountInv => (ret = "ok" => Tabled)
  BY AcceptedTables
<1>5. GInit => Init
  BY DEF GInit
<1>6. [GNext]_<<vars, gvars>> => [Next]_vars
  BY GenCases DEF Next
<1>. QED  BY <1>1, <1>2, <1>3, <1>4, <1>5, <1>6, SetupHolds, GenInvariant, CountInvariant, PTL
             DEF GSpec, Spec

\* Every variable of the generation has its type: no byte offset is negative, and
\* the entries of an MBR fit its four slots.
THEOREM GenerationTypes == ASSUME NEW M \in Nat, Fits(M) PROVE GSpec => []GTypeOK
<1>1. ASSUME HdInv(M), ret = "ok" => Accepted, ret = "ok" => Tabled, GenInv, TablesInv, WriteInv
      PROVE  GTypeOK
  <2>1. CASE gpc = "wait"
    <3>1. at = 1 /\ mbr = << >> /\ ebrs = << >> /\ gpt = NoGpt
      BY <1>1, <2>1 DEF TablesInv
    <3>2. parts \in Seq(Partition)
      BY <1>1 DEF HdInv, TypeInv, TypeOK
    <3>3. at \in 1 .. Len(parts) + 1
      BY <3>1, <3>2
    <3>4. NoGpt \in [entries: Seq([first: Nat, last: Nat]), firstUsable: Nat, lastUsable: Nat,
                     start: Nat, backup: Nat]
      BY DEF NoGpt
    <3>. QED  BY <1>1, <3>1, <3>3, <3>4 DEF GTypeOK, TablesInv, WriteInv
  <2>2. CASE gpc # "wait"
    <3>1. Accepted /\ Tabled
      BY <1>1, <2>2 DEF GenInv
    <3>2. at \in 1 .. Len(parts) + 1 /\ Len(parts) \in Nat
      BY <1>1, <2>2, <3>1, AcceptedNumbers DEF TablesInv
    <3>3. mbr \in Seq(Entry) /\ Len(mbr) <= 4
      <4>1. CASE mbr = << >>
        BY <4>1
      <4>2. CASE hd.table # {} /\ mbr = MbrEntries
        BY <3>1, <4>2, MbrEntriesType
      <4>. QED  BY <1>1, <2>2, <4>1, <4>2 DEF TablesInv
    <3>4. gpt \in GptHeader
      <4>1. CASE gpt = NoGpt
        BY <4>1 DEF NoGpt, GptHeader
      <4>2. CASE "gpt" \in hd.table /\ gpt \in GptTables
        BY <3>1, <4>2, GptTableType
      <4>. QED  BY <1>1, <2>2, <4>1, <4>2 DEF TablesInv
    <3>5. ebrs \in Seq(Record)
      <4>1. at - 1 \in Nat /\ at \in Nat
        BY <3>2
      <4>2. ebrs = Chain(at - 1) \/ ebrs = Chain(at)
        BY <1>1, <2>2 DEF TablesInv
      <4>. QED  BY <3>1, <4>1, <4>2, ChainType
    <3>. QED  BY <1>1, <3>2, <3>3, <3>4, <3>5
              DEF GTypeOK, TablesInv, WriteInv, Field, Entry, Extent, Record, GptHeader
  <2>. QED  BY <2>1, <2>2
<1>. QED  BY <1>1, SetupHolds, GenInvariant, TablesInvariant, PTL

-----------------------------------------------------------------------------
(***************************************************************************)
(* The tables describe the layout.                                         *)
(***************************************************************************)
\* A multiple of a multiple of a sector is one.
LEMMA OnSectorGrid ==
  ASSUME NEW o \in Nat, NEW a \in Nat, a > 0, a % Sector = 0, o % a = 0 PROVE o % Sector = 0
<1>1. Sector = 512
  BY AreaSizes, SMT
<1>2. PICK m \in Nat : a = 512 * m
  <2>1. a \div 512 \in Nat /\ a = 512 * (a \div 512)
    BY <1>1
  <2>. QED  BY <2>1
<1>3. PICK q \in Nat : o = a * q
  <2>1. o \div a \in Nat /\ o = a * (o \div a) + (o % a)
    BY SMT
  <2>. QED  BY <2>1
<1>4. o = 512 * (m * q) /\ m * q \in Nat
  BY <1>2, <1>3
<1>5. PICK r \in Nat : r = m * q
  BY <1>4
<1>6. o = 512 * r
  BY <1>4, <1>5
<1>7. (512 * r) % 512 = 0
  OBVIOUS
<1>. QED  BY <1>1, <1>6, <1>7

LEMMA TableOnGrid ==
  ASSUME OnGrid, Accepted, Tabled, NEW i \in TableParts
  PROVE  parts[i].offset % Sector = 0 /\ parts[i].size % Sector = 0
<1>1. /\ DeclaredAs(i) /\ hd.table # {} /\ cfg \in Configs /\ ImageAlign(cfg) % Sector = 0
  BY DEF Tabled
<1>2. parts[i] \in Partition /\ parts[i].offset \in Nat /\ parts[i].align \in Nat
  BY TableNumbers DEF Partition
<1>3. parts[i].align % Sector = 0
  <2>1. cfg.parts[i].align % Sector = 0
    BY <1>1 DEF OnGrid, DeclaredAs
  <2>. QED  BY <1>1, <2>1 DEF DeclaredAs
<1>4. parts[i].align > 0
  <2>1. cfg \in Config /\ ImageAlign(cfg) > 0 /\ cfg.parts[i].align \in Nat
    BY <1>1, ConfigsAssumption, ImageAlignPositive DEF DeclaredAs, Partition
  <2>2. ImageAlign(cfg) \in Nat
    BY <2>1, ImageAlignPositive
  <2>. QED  BY <1>1, <2>1, <2>2 DEF DeclaredAs
<1>5. parts[i].offset % parts[i].align = 0 /\ parts[i].size % Sector = 0
  BY <1>1 DEF DeclaredAs
<1>. QED  BY <1>2, <1>3, <1>4, <1>5, OnSectorGrid

\* The member of rank k of what is picked from all of the list.
LEMMA RankedEntry ==
  ASSUME NEW S, NEW n \in Nat, S \subseteq 1 .. n, NEW i \in S
  PROVE  /\ Rank(S, i) \in 1 .. Len(Picked(S, n)) /\ Picked(S, n)[Rank(S, i)] = i
         /\ Len(Picked(S, n)) = Cardinality(S)
<1>1. S \cap 1 .. n = S
  OBVIOUS
<1>. QED  BY <1>1, PickedInOrder DEF PickedWell

LEMMA PickedAll ==
  ASSUME NEW S, NEW n \in Nat, S \subseteq 1 .. n PROVE Len(Picked(S, n)) = Cardinality(S)
<1>1. S \cap 1 .. n = S
  OBVIOUS
<1>. QED  BY <1>1, PickedInOrder DEF PickedWell

\* The areas of the table come behind the declared partitions.
LEMMA AreasBehindParts ==
  ASSUME NEW M \in Nat, Fits(M), HdInv(M), Accepted, "gpt" \in hd.table
  PROVE  Len(cfg.parts) \in Nat /\ Len(cfg.parts) < Len(parts)
<1>1. /\ ListInv /\ Settled /\ cfg \in Config /\ hd.table = TableType(cfg) /\ Len(parts) = Len(Listed(cfg))
  BY DEF HdInv, Accepted, TypeInv, TypeOK, ListInv
<1>2. Len(cfg.parts) \in Nat /\ Len(Listed(cfg)) = Len(cfg.parts) + Len(TableAreas(cfg, ImageSizeOf(cfg)))
  BY <1>1, ListedElements DEF Config
<1>3. Len(TableAreas(cfg, ImageSizeOf(cfg))) = 4
  <2>1. ImageSizeOf(cfg) \in Nat
    BY <1>1 DEF Config, ImageSizeOf
  <2>. QED  BY <1>1, <2>1, GptAreasList, Zenon
<1>. QED  BY <1>1, <1>2, <1>3

\* A solid table partition ends in front of the backup table.
LEMMA InFrontOfBackup ==
  ASSUME NEW M \in Nat, Fits(M), SolidInTable, HdInv(M), Accepted, Tabled, "gpt" \in hd.table,
         NEW i \in TableParts
  PROVE  End(parts[i]) <= size - BackupSize
<1>1. AreaPlaced(MbrAt + 3, size - BackupSize, BackupSize) /\ BackupSize = 16896
  BY AreaSizes DEF Accepted, TablesPlaced
<1>2. MbrAt + 3 = Len(parts) /\ Len(parts) \in Nat
  BY AcceptedNumbers DEF MbrAt
<1>3. i \in 1 .. Len(cfg.parts) /\ DeclaredAs(i) /\ cfg \in Configs
  BY ConfigsAssumption DEF Tabled, DeclaredAs, Config
<1>4. PICK j \in DOMAIN parts : j = Len(parts) /\ i \in 1 .. j - 1
  BY <1>1, <1>2, <1>3, AreasBehindParts DEF AreaPlaced
<1>5. parts[i].image = NoImage \/ ImageHoles[parts[i].image] = {}
  BY <1>3 DEF SolidInTable, DeclaredAs
<1>6. Area(parts[i]).holes = {}
  BY <1>5 DEF Area
<1>7. Disk!Compatible(Area(parts[j]), Area(parts[i]))
  <2>1. i \in Done /\ j \in Done /\ i < j
    BY <1>4, AcceptedNumbers DEF Accepted
  <2>. QED  BY <2>1 DEF Accepted, AreasDisjoint
<1>8. Disk!Apart(Area(parts[j]), Area(parts[i]))
  BY <1>6, <1>7 DEF Disk!Compatible, Disk!SharesOnlyHole
<1>9. End(parts[j]) <= parts[i].offset \/ End(parts[i]) <= parts[j].offset
  BY <1>8 DEF Disk!Apart, Area
<1>10. parts[j].offset = size - BackupSize /\ parts[j].size = BackupSize /\ size \in Nat
  BY <1>1, <1>2, <1>4, AcceptedNumbers, SMTT(30) DEF AreaPlaced
<1>11. End(parts[j]) = size
  BY <1>1, <1>10 DEF End
<1>12. /\ parts[i].offset \in Nat /\ parts[i].size \in Nat /\ parts[i].size >= 512
       /\ End(parts[i]) = parts[i].offset + parts[i].size /\ End(parts[i]) <= size
  BY TableNumbers
<1>. QED  BY <1>9, <1>10, <1>11, <1>12

\* Where one entry of the GPT points.
LEMMA GptEntryIs ==
  ASSUME NEW M \in Nat, Fits(M), OnGrid, SolidInTable, HdInv(M), Accepted, Tabled,
         "gpt" \in hd.table, NEW i \in TableParts, NEW e, e = GptEntry(parts[i])
  PROVE  /\ e.first * Sector = parts[i].offset /\ (e.last + 1) * Sector = End(parts[i])
         /\ FirstUsable <= e.first /\ e.last <= size \div Sector - 1 - GptSectors
<1>1. PICK o, z \in Nat : o = parts[i].offset /\ z = parts[i].size
  BY TableNumbers
<1>2. o % 512 = 0 /\ z % 512 = 0 /\ Sector = 512 /\ GptSectors = 33 /\ BackupSize = 16896
  BY <1>1, TableOnGrid, AreaSizes, SMT DEF GptSectors
<1>3. o + z <= size - 16896 /\ End(parts[i]) = o + z /\ size \in Nat
  BY <1>1, <1>2, InFrontOfBackup, AcceptedNumbers DEF End
<1>4. e = [first |-> o \div 512, last |-> (o + z) \div 512 - 1]
  BY <1>1, <1>2 DEF GptEntry
<1>5. e.first = o \div 512 /\ e.last = (o + z) \div 512 - 1
  BY <1>4
<1>6. (o \div 512) * 512 = o /\ ((o + z) \div 512) * 512 = o + z
  BY <1>2
<1>7. (o + z) \div 512 - 1 <= size \div 512 - 34
  BY <1>3
<1>8. FirstUsable <= o \div 512
  BY <1>1, <1>2, FirstUsableType
<1>9. (o + z) \div 512 \in Nat /\ o \div 512 \in Nat /\ size \div 512 \in Nat
  BY <1>3
<1>. QED  BY <1>1, <1>2, <1>3, <1>5, <1>6, <1>7, <1>8, <1>9

\* A primary entry of the MBR is one of its partitions.
LEMMA MbrEntriesAre ==
  ASSUME OnGrid, Accepted, Tabled, Countable, hd.table # {}, NEW k \in DOMAIN MbrEntries,
         MbrEntries[k].type \notin {15, 238}
  PROVE  \E i \in TableParts :
           /\ MbrEntries[k].first * Sector = parts[i].offset
           /\ MbrEntries[k].total * Sector = parts[i].size
<1>1. PICK q : q = Picked(MbrParts, Len(parts))
  OBVIOUS
<1>2. PICK p : p = PartitionEntries
  OBVIOUS
<1>3. p = [l \in 1 .. Len(q) |-> MbrEntry(parts[q[l]])]
  BY <1>1, <1>2 DEF PartitionEntries
<1>4. p \in Seq(Entry) /\ Len(p) = Len(q) /\ Len(q) \in Nat
  BY <1>1, <1>2, PartitionEntriesType, PickedMembers, AcceptedNumbers
<1>5. k \in 1 .. Len(q) /\ MbrEntries[k] = p[k]
  <2>1. CASE hd.table = {"gpt"}
    <3>1. MbrEntries = <<Protective(size - Sector)>>
      BY <2>1, Zenon DEF MbrEntries
    <3>2. PICK e : e = Protective(size - Sector)
      OBVIOUS
    <3>3. e.type = 238 /\ MbrEntries = <<e>>
      BY <3>1, <3>2 DEF Protective
    <3>4. k = 1 /\ MbrEntries[k] = e
      BY <3>3
    <3>. QED  BY <3>3, <3>4
  <2>2. CASE hd.table = {"mbr"}
    <3>1. hd.table # {"gpt"}
      <4>1. "mbr" \in hd.table /\ "mbr" \notin {"gpt"}
        BY <2>2
      <4>. QED  BY <4>1
    <3>2. MbrEntries = p
      BY <1>2, <2>2, <3>1, Zenon DEF MbrEntries
    <3>. QED  BY <1>4, <3>2
  <2>3. CASE hd.table # {"gpt"} /\ hd.table # {"mbr"}
    <3>1. PICK e : e = Protective(hd.gptLoc + (GptSectors - 2) * Sector)
      OBVIOUS
    <3>2. PICK a : a = <<Protective(size - Sector)>>
      OBVIOUS
    <3>3. MbrEntries = IF hd.table = {"gpt"} THEN a ELSE IF hd.table = {"mbr"} THEN p ELSE Append(p, e)
      BY <1>2, <3>1, <3>2 DEF MbrEntries
    <3>4. MbrEntries = Append(p, e)
      BY <2>3, <3>3, Zenon
    <3>5. /\ DOMAIN Append(p, e) = 1 .. Len(q) + 1 /\ Append(p, e)[Len(q) + 1] = e
          /\ \A l \in 1 .. Len(q) : Append(p, e)[l] = p[l]
      BY <1>4
    <3>6. e.type = 238
      BY <3>1 DEF Protective
    <3>. QED  BY <1>4, <3>4, <3>5, <3>6
  <2>. QED  BY <2>1, <2>2, <2>3
<1>6. PICK i \in MbrParts : i = q[k]
  BY <1>1, <1>5, PickedMembers, AcceptedNumbers
<1>7. MbrEntries[k] = MbrEntry(parts[i])
  BY <1>3, <1>5, <1>6
<1>8. i \in TableParts
  BY DEF MbrParts, TableParts, InMbr
<1>9. ~parts[i].extended
  <2>1. SUFFICES ASSUME parts[i].extended PROVE FALSE
    OBVIOUS
  <2>2. MbrEntry(parts[i]).type = 15
    BY <2>1 DEF MbrEntry
  <2>. QED  BY <1>7, <2>2
<1>10. PICK o, z \in Nat : o = parts[i].offset /\ z = parts[i].size /\ o + z <= size /\ size \in Nat
  BY <1>8, TableNumbers, AcceptedNumbers
<1>11. o % Sector = 0 /\ z % Sector = 0
  BY <1>8, <1>10, TableOnGrid
<1>12. MbrEntry(parts[i]).first = o \div Sector /\ MbrEntry(parts[i]).total = z \div Sector
  <2>1. Sectors32(o) = o \div Sector /\ Sectors32(z) = z \div Sector
    <3>1. o <= size /\ z <= size
      BY <1>10
    <3>. QED  BY <1>10, <3>1, FieldExact
  <2>. QED  BY <1>9, <1>10, <2>1 DEF MbrEntry
<1>13. (o \div Sector) * Sector = o /\ (z \div Sector) * Sector = z
  BY <1>11, InSectors
<1>. QED  BY <1>7, <1>8, <1>10, <1>12, <1>13

\* A successful generation has written the tables, of an accepted layout.
LEMMA SuccessTables ==
  ASSUME ret = "ok" => Accepted, ret = "ok" => Tabled, GenInv, TablesInv, gret = "ok"
  PROVE  /\ Accepted /\ Tabled /\ Len(parts) \in Nat /\ ebrs = Chain(Len(parts))
         /\ hd.table # {} => mbr = MbrEntries
         /\ "gpt" \in hd.table => gpt \in GptTables
         /\ hd.table = {} => mbr = << >>
<1>1. gpc = "done"
  BY DEF TablesInv
<1>2. Accepted /\ Tabled
  BY <1>1 DEF GenInv
<1>3. Len(parts) \in Nat /\ at = Len(parts) + 1
  BY <1>1, <1>2, AcceptedNumbers DEF TablesInv
<1>4. at - 1 = Len(parts)
  BY <1>3
<1>5. ebrs = Chain(Len(parts))
  BY <1>1, <1>4 DEF TablesInv
<1>. QED  BY <1>1, <1>2, <1>3, <1>5 DEF TablesInv

\* The GPT entries are the byte ranges of the table partitions, in order, inside
\* the usable range, unless there are more than the array has slots; and each
\* primary MBR entry of an image below 2 TiB is the range of one of them.
THEOREM TablesDescribe ==
  ASSUME NEW M \in Nat, Fits(M), OnGrid, SolidInTable PROVE GSpec => []TablesDescribeLayout
<1>1. ASSUME HdInv(M), ret = "ok" => Accepted, ret = "ok" => Tabled, GenInv, TablesInv
      PROVE  TablesDescribeLayout
  <2>1. SUFFICES ASSUME gret = "ok" PROVE TablesDescribeLayout
    BY DEF TablesDescribeLayout
  <2>2. /\ Accepted /\ Tabled /\ Len(parts) \in Nat
        /\ hd.table # {} => mbr = MbrEntries
        /\ "gpt" \in hd.table => gpt \in GptTables
        /\ hd.table = {} => mbr = << >>
    BY <1>1, <2>1, SuccessTables
  <2>3. TableParts \subseteq 1 .. Len(parts)
    BY <2>2, AcceptedNumbers DEF TableParts
  <2>4. ASSUME "gpt" \in hd.table, ~SlotsExceeded
        PROVE  /\ Len(gpt.entries) = Cardinality(TableParts)
               /\ gpt.firstUsable = FirstUsable
               /\ gpt.lastUsable = size \div Sector - 1 - GptSectors
               /\ \A i \in TableParts : gpt.entries[Rank(TableParts, i)] = GptEntry(parts[i])
    <3>1. PICK g : g = GptEntries
      OBVIOUS
    <3>2. gpt.entries = g /\ gpt.firstUsable = FirstUsable /\ gpt.lastUsable = size \div Sector - 1 - GptSectors
      <4>1. gpt = GptTable
        BY <2>2, <2>4 DEF GptTables
      <4>. QED  BY <3>1, <4>1 DEF GptTable
    <3>3. PICK q : q = Picked(TableParts, Len(parts))
      OBVIOUS
    <3>4. MinOf(Len(q), GptSlots) = Len(q) /\ Len(q) = Cardinality(TableParts)
      <4>1. Len(q) = Cardinality(TableParts) /\ Len(q) \in Nat
        BY <2>2, <2>3, <3>3, PickedAll, PickedMembers
      <4>. QED  BY <2>4, <4>1, WidthAssumption DEF SlotsExceeded, MinOf
    <3>5. Len(g) = Cardinality(TableParts) /\ g = [k \in 1 .. Len(q) |-> GptEntry(parts[q[k]])]
      BY <2>2, <3>1, <3>3, <3>4, GptEntriesType DEF GptEntries
    <3>6. ASSUME NEW i \in TableParts PROVE g[Rank(TableParts, i)] = GptEntry(parts[i])
      <4>1. Rank(TableParts, i) \in 1 .. Len(q) /\ q[Rank(TableParts, i)] = i
        BY <2>2, <2>3, <3>3, RankedEntry
      <4>. QED  BY <3>5, <4>1
    <3>. QED  BY <3>2, <3>5, <3>6
  <2>5. ASSUME "gpt" \in hd.table, ~SlotsExceeded, NEW i \in TableParts
        PROVE  LET entry == gpt.entries[Rank(TableParts, i)]
               IN  /\ entry.first * Sector = parts[i].offset
                   /\ (entry.last + 1) * Sector = End(parts[i])
                   /\ gpt.firstUsable <= entry.first
                   /\ entry.last <= gpt.lastUsable
    <3>1. PICK e : e = GptEntry(parts[i])
      OBVIOUS
    <3>2. gpt.entries[Rank(TableParts, i)] = e
      BY <2>4, <2>5, <3>1
    <3>3. /\ e.first * Sector = parts[i].offset /\ (e.last + 1) * Sector = End(parts[i])
          /\ FirstUsable <= e.first /\ e.last <= size \div Sector - 1 - GptSectors
      BY <1>1, <2>2, <2>5, <3>1, GptEntryIs
    <3>. QED  BY <2>4, <2>5, <3>2, <3>3
  <2>6. ASSUME Countable, NEW k \in DOMAIN mbr, mbr[k].type \notin {15, 238}
        PROVE  \E i \in TableParts :
                 mbr[k].first * Sector = parts[i].offset /\ mbr[k].total * Sector = parts[i].size
    <3>1. hd.table # {}
      <4>1. SUFFICES ASSUME mbr = << >> PROVE FALSE
        BY <2>2
      <4>. QED  BY <2>6, <4>1
    <3>. QED  BY <2>2, <2>6, <3>1, MbrEntriesAre
  <2>. QED  BY <2>4, <2>5, <2>6 DEF TablesDescribeLayout
<1>. QED  BY <1>1, SetupHolds, GenInvariant, TablesInvariant, PTL

-----------------------------------------------------------------------------
(***************************************************************************)
(* The chain of the logical partitions.                                    *)
(***************************************************************************)
FirstExtended(i) == parts[i].extended /\ \A j \in 1 .. i - 1 : ~parts[j].extended

\* The extended partition starts at the boot record of the first logical one.
StartInv ==
  /\ (\A i \in Done : ~parts[i].extended) => hd.extLba = 0
  /\ \A i \in Done : FirstExtended(i) => hd.extLba = parts[i].offset - hd.align

LEMMA StartStep ==
  ASSUME NEW M \in Nat, Fits(M), HdInv(M), BootInv, StartInv, [Next]_vars PROVE StartInv'
<1>1. CASE PlacePartition
  <2>1. /\ pc = "place" /\ idx \in 1 .. Len(parts) /\ idx <= Len(parts) /\ TypeInv
        /\ hd'.align = hd.align /\ hd'.extLba = ExtendedLba
        /\ parts'[idx] = Placed /\ \A i \in 1 .. Len(parts) : i # idx => parts'[i] = parts[i]
        /\ Done' = Done \cup {idx} /\ Done \subseteq 1 .. Len(parts) /\ idx \notin Done
    BY <1>1, PlacedList
  <2>2. Placed.offset = Offset /\ Placed.extended = IsExtended /\ IsExtended \in BOOLEAN
    BY <2>1, PlacedType, Zenon
  <2>3. /\ ~IsExtended => ExtendedLba = hd.extLba
        /\ IsExtended => /\ ExtendedLba # 0
                         /\ hd.extLba = 0 => ExtendedLba = Offset - hd.align
        /\ hd.extLba # 0 => ExtendedLba = hd.extLba
    BY <1>1, PlacedBootRecord DEF BootInv
  <2>4. \A j \in 1 .. idx - 1 : parts'[j] = parts[j] /\ j \in Done
    BY <2>1 DEF Done
  <2>5. ASSUME \A i \in Done' : ~parts'[i].extended PROVE ExtendedLba = 0
    <3>1. ~IsExtended
      BY <2>1, <2>2, <2>5
    <3>2. \A i \in Done : ~parts[i].extended
      <4> SUFFICES ASSUME NEW i \in Done PROVE ~parts[i].extended
        OBVIOUS
      <4>1. i \in Done' /\ parts'[i] = parts[i]
        BY <2>1
      <4>. QED  BY <2>5, <4>1
    <3>. QED  BY <2>3, <3>1, <3>2 DEF StartInv
  <2>6. ASSUME NEW i \in Done', parts'[i].extended, \A j \in 1 .. i - 1 : ~parts'[j].extended
        PROVE  ExtendedLba = parts'[i].offset - hd.align
    <3>1. CASE i = idx
      <4>1. IsExtended /\ parts'[i].offset = Offset
        BY <2>1, <2>2, <2>6, <3>1
      <4>2. \A j \in Done : ~parts[j].extended
        BY <2>1, <2>4, <2>6, <3>1 DEF Done
      <4>3. hd.extLba = 0
        BY <4>2 DEF StartInv
      <4>. QED  BY <2>3, <4>1, <4>3
    <3>2. CASE i # idx
      <4>1. i \in Done /\ parts'[i] = parts[i] /\ \A j \in 1 .. i - 1 : parts'[j] = parts[j]
        BY <2>1, <3>2 DEF Done
      <4>2. FirstExtended(i)
        BY <2>6, <4>1 DEF FirstExtended
      <4>3. hd.extLba # 0
        BY <4>1, <4>2 DEF BootInv, FirstExtended
      <4>. QED  BY <2>3, <4>1, <4>2, <4>3 DEF StartInv
    <3>. QED  BY <3>1, <3>2
  <2>. QED  BY <2>1, <2>5, <2>6 DEF StartInv, FirstExtended
<1>2. CASE SetupOptions
  <2>1. idx' = 1 /\ hd'.extLba = 0
    BY <1>2 DEF SetupOptions, HdInv, TypeInv, ListInv, Settled, TypeOK
  <2>2. Done' = {}
    BY <2>1 DEF Done
  <2>. QED  BY <2>1, <2>2 DEF StartInv
<1>3. CASE FinishSetup \/ (pc # "done" /\ Refuse) \/ UNCHANGED vars
  <2>1. UNCHANGED <<parts, idx>>
    BY <1>3 DEF FinishSetup, Refuse, vars
  <2>2. hd'.extLba = hd.extLba /\ hd'.align = hd.align
    BY <1>3 DEF FinishSetup, Refuse, vars, HdInv, TypeInv, TypeOK
  <2>. QED  BY <2>1, <2>2 DEF StartInv, FirstExtended, Done
<1>. QED  BY <1>1, <1>2, <1>3, StepCases

LEMMA StartInvariant == ASSUME NEW M \in Nat, Fits(M) PROVE GSpec => []StartInv
<1>1. Init => BootInv /\ StartInv
  BY DEF Init, BootInv, BootRecordRoom, StartInv, Done
<1>2. HdInv(M) /\ BootInv /\ [Next]_vars => BootInv'
  BY BootStep
<1>3. HdInv(M) /\ BootInv /\ StartInv /\ [Next]_vars => StartInv'
  BY StartStep
<1>4. GInit => Init
  BY DEF GInit
<1>5. [GNext]_<<vars, gvars>> => [Next]_vars
  BY GenCases DEF Next
<1>. QED  BY <1>1, <1>2, <1>3, <1>4, <1>5, HdInvariant, PTL DEF GSpec, Spec

\* The logical partitions in order.
InOrder(q) ==
  /\ q = Picked(Logical, Len(parts)) /\ Len(q) \in Nat /\ Len(q) = Cardinality(Logical)
  /\ \A k \in 1 .. Len(q) : q[k] \in Logical /\ q[k] \in 1 .. Len(parts)
  /\ \A i \in Logical : Rank(Logical, i) \in 1 .. Len(q) /\ q[Rank(Logical, i)] = i
  /\ \A k, l \in 1 .. Len(q) : k < l => q[k] < q[l]

LEMMA LogicalInOrder == ASSUME Accepted PROVE InOrder(Picked(Logical, Len(parts)))
<1>1. Len(parts) \in Nat /\ DOMAIN parts = 1 .. Len(parts)
  BY AcceptedNumbers
<1>2. Logical \subseteq 1 .. Len(parts)
  BY <1>1 DEF Logical
<1>3. PICK n, q : n = Len(parts) /\ q = Picked(Logical, n)
  OBVIOUS
<1>4. Len(q) \in Nat /\ \A k \in 1 .. Len(q) : q[k] \in Logical
  BY <1>1, <1>3, PickedMembers
<1>5. \A i \in Logical : Rank(Logical, i) \in 1 .. Len(q) /\ q[Rank(Logical, i)] = i
  BY <1>1, <1>2, <1>3, RankedEntry
<1>6. Len(q) = Cardinality(Logical)
  BY <1>1, <1>2, <1>3, PickedAll
<1>7. \A k, l \in 1 .. Len(q) : k < l => q[k] < q[l]
  BY <1>1, <1>3, PickedInOrder DEF PickedWell
<1>. QED  BY <1>2, <1>3, <1>4, <1>5, <1>6, <1>7 DEF InOrder

\* The next logical partition is the next one in order.
LEMMA NextInOrder ==
  ASSUME Accepted, NEW q, InOrder(q), NEW k \in 1 .. Len(q)
  PROVE  /\ k = Len(q) => NextLogical(q[k]) = {}
         /\ k # Len(q) => NextLogical(q[k]) = {q[k + 1]} /\ k + 1 \in 1 .. Len(q)
<1>1. PICK n \in Nat, m \in Nat : n = Len(parts) /\ m = Len(q)
  BY AcceptedNumbers DEF InOrder
<1>2. /\ \A l \in 1 .. m : q[l] \in Logical /\ q[l] \in 1 .. n
      /\ \A i \in Logical : Rank(Logical, i) \in 1 .. m /\ q[Rank(Logical, i)] = i
      /\ \A l, o \in 1 .. m : l < o => q[l] < q[o]
      /\ \A i \in 1 .. n : i \in Logical <=> parts[i].extended
  BY <1>1, AcceptedNumbers DEF InOrder, Logical
<1>3. \A l, o \in 1 .. m : q[l] < q[o] => l < o
  <2> SUFFICES ASSUME NEW l \in 1 .. m, NEW o \in 1 .. m, q[l] < q[o], ~(l < o) PROVE FALSE
    OBVIOUS
  <2>1. q[l] \in Nat /\ q[o] \in Nat
    BY <1>2
  <2>2. CASE l = o
    BY <2>1, <2>2
  <2>3. CASE o < l
    <3>1. q[o] < q[l]
      BY <1>2, <2>3
    <3>. QED  BY <2>1, <3>1
  <2>. QED  BY <2>2, <2>3
<1>4. k \in 1 .. m /\ q[k] \in 1 .. n
  BY <1>1, <1>2
<1>5. ASSUME NEW j \in NextLogical(q[k]) PROVE k + 1 \in 1 .. m /\ j = q[k + 1]
  <2>1. /\ j \in q[k] + 1 .. n /\ parts[j].extended
        /\ \A i \in q[k] + 1 .. j - 1 : ~parts[i].extended
    BY <1>1 DEF NextLogical
  <2>2. j \in 1 .. n /\ q[k] < j /\ j \in Logical
    BY <1>2, <1>4, <2>1
  <2>3. PICK l \in 1 .. m : q[l] = j
    BY <1>2, <2>2
  <2>4. k < l
    BY <1>3, <1>4, <2>2, <2>3
  <2>5. k + 1 \in 1 .. m
    BY <1>4, <2>4
  <2>6. ASSUME k + 1 # l PROVE FALSE
    <3>1. k + 1 < l /\ k < k + 1
      BY <1>4, <2>4, <2>6
    <3>2. q[k] < q[k + 1] /\ q[k + 1] < q[l] /\ q[k + 1] \in 1 .. n
      BY <1>2, <1>4, <2>5, <3>1
    <3>3. q[k + 1] \in q[k] + 1 .. j - 1
      BY <1>4, <2>2, <2>3, <3>2
    <3>. QED  BY <1>2, <2>1, <2>5, <3>2, <3>3
  <2>. QED  BY <2>3, <2>5, <2>6
<1>6. ASSUME k # m PROVE k + 1 \in 1 .. m /\ q[k + 1] \in NextLogical(q[k])
  <2>1. k + 1 \in 1 .. m /\ k < k + 1
    BY <1>4, <1>6
  <2>2. q[k] < q[k + 1] /\ q[k + 1] \in 1 .. n /\ parts[q[k + 1]].extended
    BY <1>2, <1>4, <2>1
  <2>3. ASSUME NEW i \in q[k] + 1 .. q[k + 1] - 1, parts[i].extended PROVE FALSE
    <3>1. i \in 1 .. n /\ q[k] < i /\ i < q[k + 1]
      BY <1>4, <2>2
    <3>2. PICK l \in 1 .. m : q[l] = i
      BY <1>2, <2>3, <3>1
    <3>3. k < l /\ l < k + 1
      BY <1>3, <1>4, <2>1, <3>1, <3>2
    <3>. QED  BY <1>4, <3>3
  <2>4. q[k + 1] \in q[k] + 1 .. n
    BY <1>4, <2>2
  <2>. QED  BY <1>1, <2>1, <2>2, <2>3, <2>4 DEF NextLogical
<1>7. ASSUME k = Len(q) PROVE NextLogical(q[k]) = {}
  <2>1. k + 1 \notin 1 .. m
    BY <1>1, <1>7
  <2>. QED  BY <1>5, <2>1
<1>8. ASSUME k # Len(q) PROVE NextLogical(q[k]) = {q[k + 1]} /\ k + 1 \in 1 .. Len(q)
  <2>1. k # m
    BY <1>1, <1>8
  <2>. QED  BY <1>1, <1>5, <1>6, <2>1
<1>. QED  BY <1>7, <1>8

\* The first in order is the first of all, and starts the extended partition.
LEMMA FirstInOrder ==
  ASSUME Accepted, StartInv, NEW q, InOrder(q), Logical # {}
  PROVE  /\ 1 \in 1 .. Len(q) /\ q[1] \in DOMAIN parts /\ FirstExtended(q[1])
         /\ hd.extLba = parts[q[1]].offset - hd.align
<1>1. PICK n \in Nat, m \in Nat : n = Len(parts) /\ m = Len(q) /\ DOMAIN parts = 1 .. n
  BY AcceptedNumbers DEF InOrder
<1>2. /\ \A l \in 1 .. m : q[l] \in Logical /\ q[l] \in 1 .. n
      /\ \A i \in Logical : Rank(Logical, i) \in 1 .. m /\ q[Rank(Logical, i)] = i
      /\ \A l, o \in 1 .. m : l < o => q[l] < q[o]
      /\ \A i \in 1 .. n : i \in Logical <=> parts[i].extended
  BY <1>1 DEF InOrder, Logical
<1>3. 1 \in 1 .. m
  BY <1>2
<1>4. q[1] \in 1 .. n /\ parts[q[1]].extended
  BY <1>2, <1>3
<1>5. ASSUME NEW j \in 1 .. q[1] - 1, parts[j].extended PROVE FALSE
  <2>1. j \in 1 .. n /\ j < q[1]
    BY <1>4
  <2>2. PICK l \in 1 .. m : q[l] = j
    BY <1>2, <1>5, <2>1
  <2>3. l = 1 \/ q[1] < q[l]
    BY <1>2, <1>3
  <2>. QED  BY <1>4, <2>1, <2>2, <2>3
<1>6. FirstExtended(q[1])
  BY <1>4, <1>5 DEF FirstExtended
<1>7. q[1] \in Done
  BY <1>1, <1>4 DEF Accepted
<1>. QED  BY <1>1, <1>3, <1>4, <1>6, <1>7 DEF StartInv

\* Numbers of sectors add up on the grid.
LEMMA GridSums ==
  ASSUME NEW x \in Nat, NEW y \in Nat, y <= x, x % Sector = 0, y % Sector = 0
  PROVE  /\ (x - y) % Sector = 0
         /\ y \div Sector + (x - y) \div Sector = x \div Sector
<1>1. Sector = 512
  BY AreaSizes, SMT
<1>. QED  BY <1>1

\* The numbers of one boot record.
LEMMA RecordOnGrid ==
  ASSUME OnGrid, Accepted, Tabled, NEW i \in Logical
  PROVE  /\ parts[i].offset - hd.align \in Nat /\ (parts[i].offset - hd.align) % Sector = 0
         /\ hd.extLba <= parts[i].offset - hd.align /\ hd.extLba \in Nat
         /\ parts[i].offset - hd.align <= size /\ size \in Nat /\ hd.align \in Nat /\ hd.align <= size
         /\ parts[i].offset - hd.align + (hd.align \div Sector) * Sector = parts[i].offset
<1>1. i \in TableParts /\ i \in DOMAIN parts /\ parts[i].extended /\ hd.table # {}
  BY DEF Tabled, Logical
<1>2. PICK o, a, e \in Nat : o = parts[i].offset /\ a = hd.align /\ e = hd.extLba /\ e + a <= o
  BY <1>1, RecordPlace
<1>3. a % Sector = 0
  BY <1>1, <1>2 DEF Tabled
<1>4. o % Sector = 0
  BY <1>1, <1>2, TableOnGrid
<1>5. (a \div Sector) * Sector = a
  BY <1>3, InSectors
<1>6. (o - a) % Sector = 0
  BY <1>2, <1>3, <1>4, GridSums
<1>7. size \in Nat /\ o <= size
  BY <1>1, <1>2, RecordPlace, AcceptedNumbers
<1>. QED  BY <1>2, <1>5, <1>6, <1>7

\* The link of each boot record is where the next one lies.
LEMMA LinkIs ==
  ASSUME OnGrid, Accepted, Tabled, Countable, StartInv, NEW q, InOrder(q), NEW k \in 1 .. Len(q)
  PROVE  {hd.extLba \div Sector + n : n \in BootRecord(q[k]).next}
           = IF k = Len(q) THEN {} ELSE {BootRecord(q[k + 1]).at \div Sector}
<1> DEFINE link(j) == Sectors32(parts[j].offset - hd.align - hd.extLba)
<1>1. BootRecord(q[k]).next = {link(j) : j \in NextLogical(q[k])}
  <2>1. PICK s : s = {link(j) : j \in NextLogical(q[k])}
    OBVIOUS
  <2>2. BootRecord(q[k]) = [at |-> parts[q[k]].offset - hd.align, first |-> Sectors32(hd.align),
                            total |-> Sectors32(parts[q[k]].size), next |-> s]
    BY <2>1, Zenon DEF BootRecord
  <2>. QED  BY <2>1, <2>2
<1>2. CASE k = Len(q)
  <2>1. NextLogical(q[k]) = {}
    BY <1>2, NextInOrder
  <2> HIDE DEF link
  <2>2. BootRecord(q[k]).next = {}
    BY <1>1, <2>1
  <2>. QED  BY <1>2, <2>2
<1>3. CASE k # Len(q)
  <2>1. NextLogical(q[k]) = {q[k + 1]} /\ k + 1 \in 1 .. Len(q)
    BY <1>3, NextInOrder
  <2>2. q[k + 1] \in Logical
    BY <2>1 DEF InOrder
  <2>3. PICK x, e \in Nat : /\ x = parts[q[k + 1]].offset - hd.align /\ e = hd.extLba
                            /\ e <= x /\ x % Sector = 0 /\ x <= size /\ size \in Nat
    BY <2>2, RecordOnGrid
  <2>4. e % Sector = 0
    <3>1. Logical # {}
      BY <2>2
    <3>2. 1 \in 1 .. Len(q) /\ hd.extLba = parts[q[1]].offset - hd.align
      BY <3>1, FirstInOrder
    <3>3. q[1] \in Logical
      BY <3>2 DEF InOrder
    <3>. QED  BY <2>3, <3>2, <3>3, RecordOnGrid
  <2>5. e \div Sector + (x - e) \div Sector = x \div Sector
    BY <2>3, <2>4, GridSums
  <2>6. link(q[k + 1]) = (x - e) \div Sector
    <3>1. PICK d \in Nat : d = x - e /\ d <= size
      BY <2>3
    <3>2. link(q[k + 1]) = Sectors32(d)
      BY <2>3, <3>1
    <3>. QED  BY <2>3, <3>1, <3>2, FieldExact
  <2>7. BootRecord(q[k + 1]).at = x
    BY <2>3 DEF BootRecord
  <2> HIDE DEF link
  <2>8. BootRecord(q[k]).next = {link(q[k + 1])}
    BY <1>1, <2>1
  <2>9. {hd.extLba \div Sector + n : n \in BootRecord(q[k]).next} = {e \div Sector + link(q[k + 1])}
    BY <2>3, <2>8
  <2>10. e \div Sector + link(q[k + 1]) = x \div Sector
    BY <2>5, <2>6
  <2>. QED  BY <1>3, <2>7, <2>9, <2>10
<1>. QED  BY <1>2, <1>3

\* The extended entry of the MBR points at the first boot record; there is one
\* only if there is a logical partition.
LEMMA ExtendedEntry ==
  ASSUME NoExtendedType, Accepted, Tabled, Countable, StartInv, hd.table = {"mbr"}, NEW q, InOrder(q)
  PROVE  {MbrEntries[k].first : k \in {j \in DOMAIN MbrEntries : MbrEntries[j].type = 15}}
           = IF Logical = {} THEN {} ELSE {BootRecord(q[1]).at \div Sector}
<1>1. PICK r : r = Picked(MbrParts, Len(parts))
  OBVIOUS
<1>2. PICK m : m = MbrEntries
  OBVIOUS
<1>3. m = [k \in 1 .. Len(r) |-> MbrEntry(parts[r[k]])]
  <2>1. "mbr" \in hd.table /\ "mbr" \notin {"gpt"}
    OBVIOUS
  <2>2. hd.table # {"gpt"}
    BY <2>1
  <2>3. MbrEntries = PartitionEntries
    BY <2>2, Zenon DEF MbrEntries
  <2>. QED  BY <1>1, <1>2, <2>3 DEF PartitionEntries
<1>4. Len(r) \in Nat /\ \A k \in 1 .. Len(r) : r[k] \in MbrParts
  BY <1>1, PickedMembers, AcceptedNumbers
<1>5. DOMAIN m = 1 .. Len(r)
  BY <1>3
<1>6. MbrParts \subseteq TableParts /\ MbrParts \subseteq 1 .. Len(parts)
  BY AcceptedNumbers DEF MbrParts, TableParts, InMbr
<1>7. ASSUME NEW k \in 1 .. Len(r)
      PROVE  /\ m[k].type = 15 <=> r[k] \in Logical
             /\ m[k].type = 15 => m[k].first = hd.extLba \div Sector
  <2>1. PICK i \in MbrParts : i = r[k] /\ i \in TableParts /\ i \in DOMAIN parts
    BY <1>4, <1>6 DEF TableParts
  <2>2. m[k] = MbrEntry(parts[i])
    BY <1>3, <2>1
  <2>3. CASE parts[i].extended
    <3>1. hd.extLba \in Nat /\ hd.extLba <= size /\ size \in Nat
      <4>1. /\ hd.extLba \in Nat /\ hd.align \in Nat /\ parts[i].offset \in Nat
            /\ hd.extLba + hd.align <= parts[i].offset /\ parts[i].offset <= size
        BY <2>1, <2>3, RecordPlace
      <4>2. size \in Nat
        BY AcceptedNumbers
      <4>. QED  BY <4>1, <4>2
    <3>2. Sectors32(hd.extLba) = hd.extLba \div Sector
      BY <3>1, FieldExact
    <3>3. MbrEntry(parts[i]).type = 15 /\ MbrEntry(parts[i]).first = hd.extLba \div Sector
      BY <2>3, <3>2 DEF MbrEntry
    <3>. QED  BY <2>1, <2>2, <2>3, <3>3 DEF Logical
  <2>4. CASE ~parts[i].extended
    <3>1. MbrEntry(parts[i]).type = parts[i].ptype
      BY <2>4 DEF MbrEntry
    <3>2. parts[i].ptype # 15
      BY <2>1 DEF Tabled, DeclaredAs, NoExtendedType
    <3>. QED  BY <2>1, <2>2, <2>4, <3>1, <3>2 DEF Logical
  <2>. QED  BY <2>3, <2>4
<1> DEFINE K == {j \in DOMAIN m : m[j].type = 15}
<1>8. CASE Logical = {}
  <2>1. K = {}
    BY <1>5, <1>7, <1>8
  <2>. QED  BY <1>2, <1>8, <2>1
<1>9. CASE Logical # {}
  <2>1. /\ 1 \in 1 .. Len(q) /\ q[1] \in DOMAIN parts /\ FirstExtended(q[1])
        /\ hd.extLba = parts[q[1]].offset - hd.align
    BY <1>9, FirstInOrder
  <2>2. q[1] \in Logical /\ q[1] \in TableParts
    BY <2>1 DEF InOrder, Tabled
  <2>3. InMbr(parts[q[1]])
    <3>1. "gpt" \notin hd.table /\ "gpt" \in {"mbr", "gpt"}
      OBVIOUS
    <3>2. hd.table # {"mbr", "gpt"}
      BY <3>1
    <3>. QED  BY <2>2, <3>2 DEF InMbr, TableParts
  <2>4. q[1] \in MbrParts
    BY <2>1, <2>3 DEF MbrParts, FirstExtended
  <2>5. PICK k \in 1 .. Len(r) : r[k] = q[1]
    <3>1. PICK n \in Nat : n = Len(parts)
      BY AcceptedNumbers
    <3>2. Rank(MbrParts, q[1]) \in 1 .. Len(r) /\ r[Rank(MbrParts, q[1])] = q[1]
      BY <1>1, <1>6, <2>4, <3>1, RankedEntry, ZenonT(30)
    <3>. QED  BY <3>2
  <2>6. k \in K
    BY <1>5, <1>7, <2>2, <2>5
  <2>7. \A l \in K : m[l].first = hd.extLba \div Sector
    BY <1>5, <1>7
  <2>8. BootRecord(q[1]).at = hd.extLba
    BY <2>1 DEF BootRecord
  <2> HIDE DEF K
  <2>9. {m[l].first : l \in K} = {hd.extLba \div Sector}
    BY <2>6, <2>7
  <2>. QED  BY <1>2, <1>9, <2>8, <2>9, ZenonT(30) DEF K
<1>. QED  BY <1>8, <1>9

\* Following the links from the extended entry of the MBR visits the boot record
\* of every logical partition, in order, and each points at its partition, in
\* every image below 2 TiB.
THEOREM LogicalChained ==
  ASSUME NEW M \in Nat, Fits(M), OnGrid, NoExtendedType PROVE GSpec => []LogicalChain
<1>1. ASSUME ret = "ok" => Accepted, ret = "ok" => Tabled, GenInv, TablesInv, StartInv
      PROVE  LogicalChain
  <2>1. SUFFICES ASSUME gret = "ok", hd.table = {"mbr"}, Countable PROVE LogicalChain
    BY DEF LogicalChain
  <2>2. Accepted /\ Tabled /\ Len(parts) \in Nat /\ ebrs = Chain(Len(parts)) /\ mbr = MbrEntries
    BY <1>1, <2>1, SuccessTables
  <2>3. PICK q : q = Picked(Logical, Len(parts)) /\ InOrder(q)
    BY <2>2, LogicalInOrder
  <2>4. ebrs = [k \in 1 .. Len(q) |-> BootRecord(q[k])]
    BY <2>2, <2>3 DEF Chain
  <2>5. Len(ebrs) = Len(q) /\ Len(q) \in Nat /\ DOMAIN ebrs = 1 .. Len(q)
    BY <2>2, <2>3, <2>4, ChainType DEF InOrder
  <2>6. Len(ebrs) = Cardinality(Logical)
    BY <2>3, <2>5 DEF InOrder
  <2>7. ASSUME Logical # {} PROVE ebrs[1] = BootRecord(q[1])
    BY <2>2, <2>3, <2>4, <2>7, <1>1, FirstInOrder
  <2>8. {mbr[k].first : k \in {j \in DOMAIN mbr : mbr[j].type = 15}}
          = IF Logical = {} THEN {} ELSE {ebrs[1].at \div Sector}
    <3>1. NoExtendedType /\ Countable /\ StartInv /\ hd.table = {"mbr"} /\ InOrder(q)
      BY <1>1, <2>1, <2>3
    <3>2. {MbrEntries[k].first : k \in {j \in DOMAIN MbrEntries : MbrEntries[j].type = 15}}
            = IF Logical = {} THEN {} ELSE {BootRecord(q[1]).at \div Sector}
      BY <2>2, <3>1, ExtendedEntry
    <3>. QED  BY <2>2, <2>7, <3>2
  <2>9. ASSUME NEW i \in Logical
        PROVE  LET record == ebrs[Rank(Logical, i)]
               IN  record.at + record.first * Sector = parts[i].offset
    <3>1. ebrs[Rank(Logical, i)] = BootRecord(i)
      BY <2>3, <2>4 DEF InOrder
    <3>2. /\ parts[i].offset - hd.align + (hd.align \div Sector) * Sector = parts[i].offset
          /\ hd.align \in Nat /\ hd.align <= size /\ size \in Nat
      BY <2>2, RecordOnGrid
    <3>3. BootRecord(i).at = parts[i].offset - hd.align /\ BootRecord(i).first = hd.align \div Sector
      BY <2>1, <3>2, FieldExact DEF BootRecord
    <3>. QED  BY <3>1, <3>2, <3>3
  <2>10. ASSUME NEW k \in DOMAIN ebrs
         PROVE  /\ ebrs[k].at % Sector = 0
                /\ {hd.extLba \div Sector + n : n \in ebrs[k].next}
                     = IF k = Len(ebrs) THEN {} ELSE {ebrs[k + 1].at \div Sector}
    <3>1. k \in 1 .. Len(q) /\ ebrs[k] = BootRecord(q[k]) /\ q[k] \in Logical
      BY <2>3, <2>4, <2>5 DEF InOrder
    <3>2. BootRecord(q[k]).at = parts[q[k]].offset - hd.align
      BY DEF BootRecord
    <3>3. (parts[q[k]].offset - hd.align) % Sector = 0
      BY <2>2, <3>1, RecordOnGrid
    <3>4. k # Len(q) => ebrs[k + 1] = BootRecord(q[k + 1])
      <4>1. k # Len(q) => k + 1 \in 1 .. Len(q)
        BY <2>5, <3>1
      <4>. QED  BY <2>4, <4>1
    <3>5. {hd.extLba \div Sector + n : n \in BootRecord(q[k]).next}
            = IF k = Len(q) THEN {} ELSE {BootRecord(q[k + 1]).at \div Sector}
      BY <1>1, <2>1, <2>2, <2>3, <3>1, LinkIs
    <3>. QED  BY <2>5, <3>1, <3>2, <3>3, <3>4, <3>5
  <2>. QED  BY <2>6, <2>8, <2>9, <2>10 DEF LogicalChain
<1>. QED  BY <1>1, SetupHolds, GenInvariant, TablesInvariant, StartInvariant, PTL
=============================================================================
