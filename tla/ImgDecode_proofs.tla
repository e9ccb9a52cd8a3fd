-------------------------- MODULE ImgDecode_proofs --------------------------
(***************************************************************************)
(* unpack_image writes every file of an image, and the decoder of the      *)
(* documentation takes the same bytes for it: for every image, buffer and  *)
(* width of the fields.                                                    *)
(***************************************************************************)
EXTENDS ImgDecode, SequenceTheorems, NaturalsInduction, WellFoundedInduction, TLAPS

(***************************************************************************)
(* The invariant.                                                          *)
(***************************************************************************)
FileAt(k) == image.items[k]
Type(k) == FileAt(k).subtype

UnpackTypes ==
  /\ image \in Inputs
  /\ files \in [Names -> [from: Nat, to: Int]]
  /\ i \in Nat /\ i >= 1 /\ (i <= NumFiles + 1)
  /\ upc \in {"open", "header", "contents", "list", "files", "over"}

\* What the loop over the files has written when it comes to file i.
WrittenBefore ==
  /\ listing = [k \in 1 .. i - 1 |-> FileAt(k).name]
  /\ ~failed =>
       \A k \in 1 .. i - 1 :
         CanOpen(FileAt(k).name) /\ (\A m \in k + 1 .. i - 1 : FileAt(m).name # FileAt(k).name)
           => files[FileAt(k).name] = Content(FileAt(k))

UnpackInv ==
  /\ UnpackTypes
  /\ upc \in {"open", "header", "list"} => i = 1
  /\ upc \in {"open", "header", "contents", "list"} => listing = << >>
  /\ upc = "files" => WrittenBefore
  /\ upc = "over" /\ uret = 0 => WrittenBefore /\ i = NumFiles + 1

-----------------------------------------------------------------------------
(***************************************************************************)
(* Least and greatest elements.                                            *)
(***************************************************************************)
\* Sets of numbers have a least element.
LEMMA LeastOf ==
  ASSUME NEW S \in SUBSET Nat, S # {}
  PROVE  Min(S) \in S /\ \A y \in S : Min(S) <= y
<1>1. PICK x \in S : \A y \in S : ~ (<<y, x>> \in OpToRel(<, Nat))
  BY NatLessThanWellFounded, WFMin
<1>2. \A y \in S : x <= y
  <2> HIDE <1>1
  <2> SUFFICES ASSUME NEW y \in S, y < x PROVE FALSE
    OBVIOUS
  <2>1. <<y, x>> \in Nat \X Nat /\ <<y, x>>[1] < <<y, x>>[2]
    OBVIOUS
  <2>2. <<y, x>> \in {ss \in Nat \X Nat : ss[1] < ss[2]}
    BY <2>1, Zenon
  <2>. QED  BY <1>1, <2>2 DEF OpToRel
<1>. QED  BY <1>2 DEF Min

\* Sets of positions have a greatest element.
LEMMA GreatestOf ==
  ASSUME NEW n \in Nat, NEW S \in SUBSET (1 .. n), S # {}
  PROVE  Max(S) \in S /\ \A y \in S : Max(S) >= y
<1> DEFINE D == {d \in Nat : n - d \in S}
<1>1. D \in SUBSET Nat /\ D # {}
  <2>1. PICK x \in S : TRUE
    OBVIOUS
  <2>2. n - x \in Nat /\ n - (n - x) = x
    BY <2>1
  <2>. QED  BY <2>1, <2>2
<1>2. Min(D) \in D /\ \A d \in D : Min(D) <= d
  BY <1>1, LeastOf
<1> DEFINE x == n - Min(D)
<1>3. x \in S
  BY <1>2
<1>4. ASSUME NEW y \in S PROVE x >= y
  <2>1. n - y \in D
    BY <1>4
  <2>. QED  BY <1>2, <2>1
<1>. QED  BY <1>3, <1>4 DEF Max

\* The file opened for a subtype is the first that has it.
LEMMA FirstOfType ==
  ASSUME NEW s, \E k \in DOMAIN image.items : Type(k) = s, image.items \in Seq(Item)
  PROVE  /\ OpenItem(s) \in DOMAIN image.items /\ Type(OpenItem(s)) = s
         /\ \A k \in DOMAIN image.items : Type(k) = s => OpenItem(s) <= k
<1> DEFINE S == {k \in 1 .. NumFiles : Type(k) = s}
<1>1. S # {} /\ S \subseteq Nat /\ DOMAIN image.items = 1 .. NumFiles
  BY DEF NumFiles
<1>2. OpenItem(s) = Min(S)
  BY <1>1 DEF OpenItem, SelectInSeq, Type, FileAt, NumFiles
<1>3. Min(S) \in S /\ \A y \in S : Min(S) <= y
  BY <1>1, LeastOf
<1>. QED  BY <1>1, <1>2, <1>3

\* The last of a name has none of that name behind it.
LEMMA LastNamed ==
  ASSUME NEW k \in DOMAIN image.items, image.items \in Seq(Item), k = LastOfName(FileAt(k).name)
  PROVE  \A m \in DOMAIN image.items : m > k => FileAt(m).name # FileAt(k).name
<1> DEFINE n == FileAt(k).name
           S == {m \in 1 .. NumFiles : FileAt(m).name = n}
<1>1. NumFiles \in Nat /\ DOMAIN image.items = 1 .. NumFiles /\ k \in S
  BY DEF NumFiles
<1>2. LastOfName(n) = Max(S)
  BY <1>1 DEF LastOfName, SelectLastInSeq, FileAt, NumFiles
<1>3. \A y \in S : Max(S) >= y
  BY <1>1, GreatestOf
<1>4. \A y \in S : k >= y
  BY <1>2, <1>3
<1>. QED  BY <1>1, <1>4

-----------------------------------------------------------------------------
(***************************************************************************)
(* unpack_image.                                                           *)
(***************************************************************************)
\* The files of an image.
LEMMA ItemsType ==
  ASSUME image \in Inputs
  PROVE  /\ image.items \in Seq(Item) /\ NumFiles \in Nat /\ DOMAIN image.items = 1 .. NumFiles
         /\ \A k \in 1 .. NumFiles : FileAt(k) \in Item
<1>1. image.items \in Seq(Item)
  BY OpenixIMGAssumption
<1>. QED  BY <1>1 DEF NumFiles, FileAt

\* The fields are numbers of 32 bits.
LEMMA FieldType == \A n \in Nat : Field(n) \in Nat /\ (n < Word => Field(n) = n)
BY OpenixIMGAssumption DEF Field

\* What is written of a file are bytes of the image.
LEMMA ContentType ==
  ASSUME image \in Inputs, NEW k \in 1 .. NumFiles
  PROVE  Content(FileAt(k)) \in [from: Nat, to: Int]
<1>1. FileAt(k).offset \in Nat /\ FileAt(k).length \in Nat
  BY ItemsType DEF Item
<1>. QED  BY <1>1, FieldType DEF Content, Bytes

\* Where the program starts nothing is unpacked.
LEMMA UnpackStart == Init => UnpackInv
<1> SUFFICES ASSUME Init PROVE UnpackInv
  OBVIOUS
<1>1. image \in Inputs /\ NumFiles \in Nat
  BY ItemsType DEF Init, UInit
<1>2. files \in [Names -> [from: Nat, to: Int]]
  BY DEF Init, UInit, Absent, Bytes
<1>. QED  BY <1>1, <1>2 DEF Init, UInit, UnpackInv, UnpackTypes

\* Every step of the program keeps the invariant.
LEMMA UnpackStep == UnpackInv /\ [Next]_vars => UnpackInv'
<1> SUFFICES ASSUME UnpackInv, [Next]_vars PROVE UnpackInv'
  OBVIOUS
<1>0. UnpackTypes /\ NumFiles \in Nat
  BY ItemsType DEF UnpackInv, UnpackTypes
<1>1. image' = image /\ NumFiles' = NumFiles /\ \A k : FileAt(k)' = FileAt(k)
  <2>1. image' = image
    BY DEF Next, Step, Unpack, Decode, Over, OpenFails, ReadInput, ReadHeader, DecryptContents, OpenList, WriteFile,
           WriteConfig, ImgOpen, MakeImgout, ParseItem, ParseItemFails, ReadPiece, ReadFails, ItemDone, AllDecoded, vars
  <2>. QED  BY <2>1 DEF NumFiles, FileAt
<1>2. CASE UNCHANGED unpack
  BY <1>0, <1>1, <1>2 DEF unpack, UnpackInv, UnpackTypes, WrittenBefore, Content
<1>3. CASE OpenFails \/ ReadInput \/ ReadHeader \/ OpenList
  <2>1. i' = i /\ files' = files /\ listing' = listing
    BY <1>3 DEF OpenFails, ReadInput, ReadHeader, OpenList
  <2>2. upc \in {"open", "header", "list"}
    BY <1>3 DEF OpenFails, ReadInput, ReadHeader, OpenList
  <2>3. upc' \in {"header", "contents", "files"} \/ (upc' = "over" /\ uret' # 0)
    <3>1. CASE ReadHeader
      BY <3>1 DEF ReadHeader, Return
    <3>2. CASE OpenFails
      BY <3>2 DEF OpenFails, Return
    <3>3. CASE ReadInput \/ OpenList
      BY <3>3 DEF ReadInput, OpenList
    <3>. QED  BY <1>3, <3>1, <3>2, <3>3
  <2>4. i = 1 /\ listing = << >>
    BY <2>2 DEF UnpackInv
  <2>5. WrittenBefore'
    BY <2>1, <2>4 DEF WrittenBefore
  <2>. QED  BY <1>0, <1>1, <2>1, <2>3, <2>4, <2>5 DEF UnpackInv, UnpackTypes
<1>4. CASE DecryptContents
  <2>1. listing' = listing /\ files' = files /\ upc = "contents"
        /\ ((upc' = "contents" /\ i' = i + 1 /\ i <= NumFiles) \/ (i' = 1 /\ upc' = "list"))
    BY <1>4 DEF DecryptContents
  <2>. QED  BY <1>0, <1>1, <2>1 DEF UnpackInv, UnpackTypes
<1>5. CASE WriteFile
  <2>1. upc = "files" /\ i \in 1 .. NumFiles /\ WrittenBefore
    BY <1>0, <1>5 DEF WriteFile, UnpackInv, UnpackTypes
  <2> DEFINE name == FileAt(i).name
  <2>2. File = FileAt(i) /\ name \in Names /\ Content(FileAt(i)) \in [from: Nat, to: Int]
    BY <1>0, <2>1, ItemsType, ContentType DEF File, FileAt, UnpackTypes, Item
  <2>3. /\ files' = files \/ (CanOpen(name) /\ files' = [files EXCEPT ![name] = Content(FileAt(i))])
        /\ ~failed' => ~failed /\ (CanOpen(name) => files' = [files EXCEPT ![name] = Content(FileAt(i))])
    BY <1>5, <2>2 DEF WriteFile
  <2>4. files' \in [Names -> [from: Nat, to: Int]]
    BY <1>0, <2>2, <2>3 DEF UnpackTypes
  <2>5. CASE upc' = "over" /\ uret' = Crash /\ i' = i
    BY <1>0, <1>1, <2>1, <2>4, <2>5 DEF UnpackInv, UnpackTypes, Crash
  <2>6. CASE upc' = upc /\ listing' = Append(listing, name) /\ i' = i + 1
    <3>1. listing' = [k \in 1 .. i' - 1 |-> FileAt(k).name]
      BY <2>1, <2>6 DEF WrittenBefore
    <3>2. ASSUME ~failed', NEW k \in 1 .. i, CanOpen(FileAt(k).name),
                 \A m \in k + 1 .. i : FileAt(m).name # FileAt(k).name
          PROVE  files'[FileAt(k).name] = Content(FileAt(k))
      <4>1. CASE k = i
        BY <1>0, <2>2, <2>3, <3>2, <4>1 DEF UnpackTypes
      <4>2. CASE k # i
        <5>1. k \in 1 .. i - 1 /\ i \in k + 1 .. i /\ FileAt(i).name # FileAt(k).name
          BY <2>1, <3>2, <4>2
        <5>2. files[FileAt(k).name] = Content(FileAt(k))
          BY <2>1, <2>3, <3>2, <5>1 DEF WrittenBefore
        <5>3. FileAt(k).name \in Names
          BY <1>0, <2>1, <5>1, ItemsType DEF UnpackTypes, Item
        <5>. QED  BY <1>0, <2>3, <5>1, <5>2, <5>3 DEF UnpackTypes
      <4>. QED  BY <4>1, <4>2
    <3>3. i' - 1 = i
      BY <2>1, <2>6
    <3>4. \A k : Content(FileAt(k))' = Content(FileAt(k))
      BY <1>1 DEF Content
    <3>5. WrittenBefore'
      BY <1>1, <3>1, <3>2, <3>3, <3>4 DEF WrittenBefore
    <3>. QED  BY <1>0, <1>1, <2>1, <2>4, <2>6, <3>5 DEF UnpackInv, UnpackTypes
  <2>. QED  BY <1>5, <2>2, <2>5, <2>6 DEF WriteFile, Return
<1>6. CASE WriteConfig
  <2>1. upc = "files" /\ i = NumFiles + 1 /\ WrittenBefore /\ upc' = "over"
        /\ UNCHANGED <<i, files, listing, failed>>
    BY <1>0, <1>6 DEF WriteConfig, Return, UnpackInv, UnpackTypes
  <2>2. WrittenBefore'
    BY <1>1, <2>1 DEF WrittenBefore, Content
  <2>. QED  BY <1>0, <1>1, <2>1, <2>2 DEF UnpackInv, UnpackTypes
<1>. QED  BY <1>2, <1>3, <1>4, <1>5, <1>6 DEF Next, Step, Unpack, Decode, Over, vars,
             ImgOpen, MakeImgout, ParseItem, ParseItemFails, ReadPiece, ReadFails, ItemDone, AllDecoded

\* An unpack that returns 0 after no system call failed wrote and listed every
\* file of the image that the fields can say, whatever was in the directory.
THEOREM UnpackIsComplete == Spec => []UnpackComplete
<1>1. ASSUME UnpackInv PROVE UnpackComplete
  <2> SUFFICES ASSUME upc = "over", uret = 0, ~failed
               PROVE  /\ listing = [k \in DOMAIN image.items |-> image.items[k].name]
                      /\ \A k \in DOMAIN image.items :
                           LET f == image.items[k]
                           IN  k = LastOfName(f.name) /\ CanOpen(f.name) /\ FitsWord(f)
                                 => files[f.name] = Bytes(f.offset, f.length)
    BY DEF UnpackComplete
  <2>1. WrittenBefore /\ i - 1 = NumFiles /\ image.items \in Seq(Item) /\ DOMAIN image.items = 1 .. NumFiles
    BY <1>1, ItemsType DEF UnpackInv, UnpackTypes
  <2>2. ASSUME NEW k \in DOMAIN image.items, k = LastOfName(FileAt(k).name), CanOpen(FileAt(k).name),
               FitsWord(FileAt(k))
        PROVE  files[FileAt(k).name] = Bytes(FileAt(k).offset, FileAt(k).length)
    <3>1. \A m \in k + 1 .. NumFiles : FileAt(m).name # FileAt(k).name
      BY <2>1, <2>2, LastNamed
    <3>2. files[FileAt(k).name] = Content(FileAt(k))
      BY <2>1, <2>2, <3>1 DEF WrittenBefore
    <3>3. FileAt(k).offset \in Nat /\ FileAt(k).length \in Nat
      BY <1>1, <2>1, <2>2, ItemsType DEF UnpackInv, UnpackTypes, Item
    <3>. QED  BY <2>2, <3>2, <3>3, FieldType DEF Content, FitsWord
  <2>. QED  BY <2>1, <2>2 DEF WrittenBefore, FileAt
<1>. QED  BY <1>1, UnpackStart, UnpackStep, PTL DEF Spec

-----------------------------------------------------------------------------
(***************************************************************************)
(* The decoder.                                                            *)
(***************************************************************************)
\* The item opened for the k-th one, which a buffer of 32 bit positions can take.
OpenedFor(k) == FileAt(OpenItem(Type(k)))
InWord(f) == Field(f.offset) + f.length <= Word
Holding(pieces, f, n) == InWord(f) => Joined(pieces, Bytes(Field(f.offset), n))

DecodeTypes ==
  /\ image \in Inputs
  /\ dpc \in {"wait", "clean", "item", "read", "over"}
  /\ index \in Nat /\ index >= 1 /\ index <= NumFiles + 1
  /\ offset \in Nat
  /\ outdir \in [Subtypes -> Seq([from: Nat, to: Nat])]
  /\ lost \subseteq Subtypes

\* The decoder has made its directory.
Started == dpc \in {"item", "read"} \/ decoded \in {"ok", "error", "crash"}

\* The items before the current one are in the directory; a second one of the
\* same subtype replaces the file by itself, and may be cut there.
Replacing == dpc = "read" \/ decoded = "error"

Copied(k) ==
  /\ OpenedFor(k).length > 0 /\ OpenedFor(k).length < Word
  /\ \/ Replacing /\ Type(k) = Type(index)
     \/ Type(k) \in lost
     \/ Holding(outdir[Type(k)], OpenedFor(k), OpenedFor(k).length)

\* The current one is there up to offset.
Reading ==
  LET f == OpenedFor(index)
  IN  /\ index <= NumFiles /\ f.length > 0 /\ offset <= f.length
      /\ offset = 0 => outdir[Type(index)] = << >> /\ Type(index) \notin lost
      /\ offset > 0 => f.length < Word
      /\ offset > 0 /\ Type(index) \notin lost => Holding(outdir[Type(index)], f, offset)

\* Nothing else is but what rm left.
OnlyReached ==
  \A s \in Subtypes \ kept : outdir[s] # << >> => \E k \in 1 .. NumFiles : k <= index /\ Type(k) = s

DecodeInv ==
  /\ DecodeTypes
  /\ dpc # "wait" => upc = "over"
  /\ dpc # "over" <=> decoded = "none"
  /\ dpc \in {"wait", "clean"} => index = 1
  /\ Started => (\A k \in 1 .. index - 1 : Copied(k)) /\ OnlyReached
  /\ dpc = "read" => Reading
  /\ decoded = "ok" => index = NumFiles + 1

-----------------------------------------------------------------------------
\* One more piece behind the others.
LEMMA JoinedMore ==
  ASSUME NEW pieces \in Seq([from: Nat, to: Nat]), NEW a \in Nat, NEW n \in Nat, NEW m \in Nat \ {0},
         (n = 0 /\ pieces = << >>) \/ Joined(pieces, Bytes(a, n))
  PROVE  Joined(Append(pieces, Bytes(a + n, m)), Bytes(a, n + m))
<1> DEFINE p == Bytes(a + n, m)
           all == Append(pieces, p)
<1>1. p \in [from: Nat, to: Nat] /\ p.from = a + n /\ p.to = a + (n + m) /\ p.from < p.to
  BY DEF Bytes
<1> HIDE DEF p
<1>2. /\ Len(all) = Len(pieces) + 1 /\ all[Len(pieces) + 1] = p /\ all # << >>
      /\ DOMAIN all = 1 .. Len(pieces) + 1 /\ \A k \in 1 .. Len(pieces) : all[k] = pieces[k]
  <2>. QED  BY <1>1, AppendProperties, ElementOfSeq
<1> HIDE DEF all
<1>3. CASE pieces = << >> /\ n = 0
  BY <1>1, <1>2, <1>3 DEF Joined, Bytes
<1>4. CASE Joined(pieces, Bytes(a, n))
  <2>1. /\ pieces # << >> /\ \A k \in 1 .. Len(pieces) : pieces[k].from < pieces[k].to
        /\ pieces[1].from = a /\ pieces[Len(pieces)].to = a + n
        /\ \A k \in 1 .. Len(pieces) - 1 : pieces[k].to = pieces[k + 1].from
    BY <1>4 DEF Joined, Bytes
  <2>2. Len(pieces) \in Nat \ {0}
    BY <2>1
  <2>3. ASSUME NEW k \in DOMAIN all PROVE all[k].from < all[k].to
    <3>1. CASE k = Len(pieces) + 1
      BY <1>1, <1>2, <3>1
    <3>2. CASE k # Len(pieces) + 1
      <4>1. k \in 1 .. Len(pieces)
        BY <1>2, <2>2, <2>3, <3>2
      <4>. QED  BY <1>2, <2>1, <4>1
    <3>. QED  BY <3>1, <3>2
  <2>4. all[1].from = a /\ all[Len(all)].to = a + (n + m)
    <3>1. all[1] = pieces[1]
      BY <1>2, <2>2
    <3>. QED  BY <1>1, <1>2, <2>1, <3>1
  <2>5. ASSUME NEW k \in 1 .. Len(all) - 1 PROVE all[k].to = all[k + 1].from
    <3>1. CASE k = Len(pieces)
      <4>1. all[k] = pieces[Len(pieces)] /\ all[k + 1] = p
        BY <1>2, <2>2, <3>1
      <4>. QED  BY <1>1, <2>1, <4>1
    <3>2. CASE k # Len(pieces)
      <4>1. k \in 1 .. Len(pieces) - 1
        BY <1>2, <2>2, <2>5, <3>2
      <4>2. all[k] = pieces[k] /\ all[k + 1] = pieces[k + 1]
        BY <1>2, <2>2, <4>1
      <4>. QED  BY <2>1, <4>1, <4>2
    <3>. QED  BY <3>1, <3>2
  <2>6. all # << >> /\ Bytes(a, n + m).from = a /\ Bytes(a, n + m).to = a + (n + m)
    BY <1>2 DEF Bytes
  <2>7. Joined(all, Bytes(a, n + m))
    BY <2>3, <2>4, <2>5, <2>6 DEF Joined
  <2>. QED  BY <2>7 DEF all, p
<1>. QED  BY <1>3, <1>4 DEF all, p

\* What is opened for an item is one of its subtype, of the image.
LEMMA OpenedType ==
  ASSUME image \in Inputs, NEW k \in 1 .. NumFiles
  PROVE  /\ Type(k) \in Subtypes /\ Type(OpenItem(Type(k))) = Type(k) /\ OpenItem(Type(k)) \in 1 .. NumFiles
         /\ OpenedFor(k) \in Item /\ OpenedFor(k).subtype = Type(k)
         /\ OpenedFor(k).offset \in Nat /\ OpenedFor(k).length \in Nat /\ Field(OpenedFor(k).offset) \in Nat
<1>1. OpenItem(Type(k)) \in 1 .. NumFiles /\ Type(OpenItem(Type(k))) = Type(k)
  BY ItemsType, FirstOfType
<1>2. OpenedFor(k) \in Item /\ FileAt(k) \in Item
  BY <1>1, ItemsType DEF OpenedFor
<1>. QED  BY <1>1, <1>2, FieldType DEF Item, Type, OpenedFor

\* Where a program starts nothing is decoded.
LEMMA DecodeStart == Init => DecodeInv
<1> SUFFICES ASSUME Init PROVE DecodeInv
  OBVIOUS
<1>1. image \in Inputs /\ NumFiles \in Nat
  BY ItemsType DEF Init, UInit
<1>2. outdir \in [Subtypes -> Seq([from: Nat, to: Nat])]
  <2>1. << >> \in Seq([from: Nat, to: Nat]) /\ <<Bytes(0, 1)>> \in Seq([from: Nat, to: Nat])
    BY DEF Bytes
  <2>. QED  BY <2>1 DEF Init
<1>. QED  BY <1>1, <1>2 DEF Init, DecodeInv, DecodeTypes, Started

\* While only the position of the decoder changes, what it has copied stays.
LEMMA CopiedStays ==
  ASSUME image' = image, outdir' = outdir, index' = index, kept' = kept, lost' = lost
  PROVE  /\ \A k : OpenedFor(k)' = OpenedFor(k) /\ Type(k)' = Type(k) /\ FileAt(k)' = FileAt(k)
         /\ \A k : (Replacing => Replacing') /\ Copied(k) => Copied(k)'
         /\ OnlyReached => OnlyReached'
         /\ offset' = offset /\ Reading => Reading'
<1>1. \A k : OpenedFor(k)' = OpenedFor(k) /\ Type(k)' = Type(k) /\ FileAt(k)' = FileAt(k)
  BY DEF OpenedFor, Type, FileAt, OpenItem, SelectInSeq
<1>2. NumFiles' = NumFiles
  BY DEF NumFiles
<1>. QED  BY <1>1, <1>2 DEF Copied, OnlyReached, Reading, Holding, InWord

\* Neither the image nor its items ever change.
LEMMA ItemsStay ==
  ASSUME image' = image
  PROVE  /\ NumFiles' = NumFiles
         /\ \A k : OpenedFor(k)' = OpenedFor(k) /\ Type(k)' = Type(k) /\ FileAt(k)' = FileAt(k)
BY DEF OpenedFor, Type, FileAt, OpenItem, SelectInSeq, NumFiles

\* Every step of the program keeps the invariant.
LEMMA DecodeStep == DecodeInv /\ [Next]_vars => DecodeInv'
<1> SUFFICES ASSUME DecodeInv, [Next]_vars PROVE DecodeInv'
  OBVIOUS
<1>0. DecodeTypes /\ NumFiles \in Nat
  BY ItemsType DEF DecodeInv, DecodeTypes
<1>1. image' = image
  BY DEF Next, Step, Unpack, Decode, Over, OpenFails, ReadInput, ReadHeader, DecryptContents, OpenList, WriteFile,
         WriteConfig, ImgOpen, MakeImgout, ParseItem, ParseItemFails, ReadPiece, ReadFails, ItemDone, AllDecoded, vars
<1>2. /\ NumFiles' = NumFiles
      /\ \A k : OpenedFor(k)' = OpenedFor(k) /\ Type(k)' = Type(k) /\ FileAt(k)' = FileAt(k)
  BY <1>1, ItemsStay
<1>3. CASE Unpack /\ UNCHANGED decode
  <2>1. dpc = "wait"
    BY <1>3 DEF DecodeInv, Unpack, OpenFails, ReadInput, ReadHeader, DecryptContents, OpenList, WriteFile, WriteConfig
  <2>2. UNCHANGED <<dpc, index, offset, outdir, kept, lost, decoded>>
    BY <1>3 DEF decode
  <2>. QED  BY <1>0, <1>1, <1>2, <2>1, <2>2 DEF DecodeInv, DecodeTypes, Started
<1>4. CASE UNCHANGED vars
  <2>1. UNCHANGED <<dpc, index, offset, outdir, kept, lost, decoded, upc>>
    BY <1>4 DEF vars, decode, unpack
  <2>2. Replacing' = Replacing
    BY <2>1 DEF Replacing
  <2>. QED  BY <1>0, <1>1, <1>2, <2>1, <2>2, CopiedStays DEF DecodeInv, DecodeTypes, Started
<1>5. CASE ImgOpen
  <2>1. /\ dpc = "wait" /\ upc' = "over" /\ decoded = "none"
        /\ ((dpc' = "clean" /\ decoded' = "none") \/ (dpc' = "over" /\ decoded' = "invalid"))
        /\ UNCHANGED <<index, offset, outdir, kept, lost>>
    BY <1>5 DEF ImgOpen, Leave, unpack, DecodeInv
  <2>. QED  BY <1>0, <1>1, <1>2, <2>1 DEF DecodeInv, DecodeTypes, Started
<1>6. CASE MakeImgout
  <2>1. /\ dpc = "clean" /\ dpc' = "item" /\ upc' = upc /\ index' = 1 /\ decoded' = "none" /\ decoded = "none"
        /\ offset' = offset /\ lost' = lost
        /\ outdir' = [s \in Subtypes |-> IF s \in kept' THEN outdir[s] ELSE << >>]
    BY <1>6 DEF MakeImgout, unpack, DecodeInv
  <2>2. outdir' \in [Subtypes -> Seq([from: Nat, to: Nat])]
    BY <1>0, <2>1 DEF DecodeTypes
  <2>3. OnlyReached'
    BY <2>1 DEF OnlyReached
  <2>. QED  BY <1>0, <1>1, <1>2, <2>1, <2>2, <2>3 DEF DecodeInv, DecodeTypes
<1>7. CASE ParseItemFails \/ ReadFails \/ AllDecoded
  <2>1. /\ dpc \in {"item", "read"} /\ dpc' = "over" /\ decoded' \in {"ok", "error", "crash"} /\ upc' = upc
        /\ UNCHANGED <<index, offset, outdir, kept, lost>>
        /\ decoded' = "ok" => index > NumFiles
        /\ dpc = "read" => decoded' = "error"
    BY <1>7 DEF ParseItemFails, ReadFails, AllDecoded, Leave, unpack
  <2>2. Replacing => Replacing'
    BY <2>1 DEF Replacing, DecodeInv
  <2>3. (\A k \in 1 .. index' - 1 : Copied(k)') /\ OnlyReached'
    BY <1>1, <2>1, <2>2, CopiedStays DEF DecodeInv, Started
  <2>. QED  BY <1>0, <1>1, <1>2, <2>1, <2>3 DEF DecodeInv, DecodeTypes
<1>8. CASE ParseItem
  <2>1. /\ dpc = "item" /\ upc' = upc /\ index' = index /\ kept' = kept
        /\ index \in 1 .. NumFiles /\ outdir' = [outdir EXCEPT ![Subname] = << >>]
        /\ lost' = lost \ {Subname} /\ Opened.length > 0
        /\ \/ dpc' = "read" /\ offset' = 0 /\ decoded' = decoded
           \/ dpc' = "over" /\ decoded' = "error" /\ offset' = offset
    BY <1>0, <1>8 DEF ParseItem, Leave, unpack, DecodeTypes
  <2>2. Subname = Type(index) /\ Opened = OpenedFor(index)
    BY DEF Subname, Opened, Type, OpenedFor, FileAt
  <2>3. Type(index) \in Subtypes /\ OpenedFor(index).length \in Nat
    BY <1>0, <2>1, OpenedType DEF DecodeTypes
  <2>4. outdir' \in [Subtypes -> Seq([from: Nat, to: Nat])]
    <3>1. << >> \in Seq([from: Nat, to: Nat])
      OBVIOUS
    <3>. QED  BY <1>0, <2>1, <2>2, <3>1 DEF DecodeTypes
  <2>5. ASSUME NEW k \in 1 .. index - 1 PROVE Copied(k)'
    <3>1. Copied(k) /\ Type(k) \in Subtypes
      BY <1>0, <2>1, <2>5, OpenedType DEF DecodeInv, Started, DecodeTypes
    <3>2. Replacing'
      BY <2>1 DEF Replacing
    <3>3. Type(k) # Type(index) => outdir'[Type(k)] = outdir[Type(k)] /\ (Type(k) \in lost => Type(k) \in lost')
      BY <1>0, <2>1, <2>2, <3>1 DEF DecodeTypes
    <3>. QED  BY <1>2, <2>1, <3>1, <3>2, <3>3 DEF Copied, Holding, InWord
  <2>6. OnlyReached'
    <3>1. \A s \in Subtypes : outdir'[s] # << >> => outdir[s] # << >>
      BY <1>0, <2>1, <2>2, <2>3 DEF DecodeTypes
    <3>. QED  BY <1>2, <2>1, <3>1 DEF OnlyReached, DecodeInv, Started
  <2>7. dpc' = "read" => Reading'
    BY <1>0, <1>2, <2>1, <2>2, <2>3 DEF Reading, DecodeTypes
  <2>8. lost' \subseteq Subtypes
    BY <1>0, <2>1 DEF DecodeTypes
  <2>. QED  BY <1>0, <1>1, <1>2, <2>1, <2>4, <2>5, <2>6, <2>7, <2>8 DEF DecodeInv, DecodeTypes
<1>9. CASE ReadPiece
  <2> DEFINE f == OpenedFor(index)
             at == Field(Field(f.offset) + offset)
  <2>1. Subname = Type(index) /\ Opened = f
    BY DEF Subname, Opened, Type, OpenedFor, FileAt
  <2>2. /\ dpc = "read" /\ offset < f.length /\ f.length < Word /\ upc' = upc /\ index' = index
        /\ Reading /\ Started /\ dpc' = dpc /\ decoded' = decoded /\ kept' = kept /\ offset' = offset + Piece
    BY <1>9, <2>1 DEF ReadPiece, unpack, DecodeInv, Started
  <2>3. /\ index \in 1 .. NumFiles /\ Type(index) \in Subtypes
        /\ f.length \in Nat /\ f.offset \in Nat /\ Field(f.offset) \in Nat
    BY <1>0, <2>2, OpenedType DEF DecodeTypes, Reading
  <2>4. ASSUME NEW k \in 1 .. index - 1
        PROVE  /\ Copied(k) /\ Type(k) \in Subtypes
               /\ Type(k) = Type(index) => OpenedFor(k) = f
    BY <1>0, <2>2, <2>3, <2>4, OpenedType DEF DecodeInv, DecodeTypes, OpenedFor
  <2>5. Piece \in Nat \ {0} /\ offset + Piece <= f.length /\ offset \in Nat
    BY <1>0, <2>1, <2>2, <2>3, ImgDecodeAssumption DEF Piece, DecodeTypes
  <2>6. PICK n \in 0 .. Piece :
          /\ outdir' = [outdir EXCEPT ![Type(index)] = Append(outdir[Type(index)], Bytes(at, n))]
          /\ lost' = (IF n < Piece THEN lost \cup {Type(index)} ELSE lost)
    BY <1>9, <2>1 DEF ReadPiece, Written
  <2>7. at \in Nat /\ Bytes(at, n) \in [from: Nat, to: Nat]
    BY <2>3, <2>5, FieldType DEF Bytes
  <2>8. outdir[Type(index)] \in Seq([from: Nat, to: Nat])
    BY <1>0, <2>3 DEF DecodeTypes
  <2>9. outdir' \in [Subtypes -> Seq([from: Nat, to: Nat])]
    <3>1. Append(outdir[Type(index)], Bytes(at, n)) \in Seq([from: Nat, to: Nat])
      BY <2>7, <2>8, AppendProperties
    <3>. QED  BY <1>0, <2>6, <3>1 DEF DecodeTypes
  <2>10. outdir'[Type(index)] = Append(outdir[Type(index)], Bytes(at, n))
    BY <1>0, <2>3, <2>6 DEF DecodeTypes
  <2>11. lost' \subseteq Subtypes /\ lost \subseteq lost'
    BY <1>0, <2>3, <2>6 DEF DecodeTypes
  <2>12. ASSUME NEW k \in 1 .. index - 1 PROVE Copied(k)'
    <3>1. Type(k) # Type(index) => outdir'[Type(k)] = outdir[Type(k)]
      BY <1>0, <2>4, <2>6, <2>12 DEF DecodeTypes
    <3>. QED  BY <1>2, <2>2, <2>4, <2>11, <2>12, <3>1 DEF Copied, Replacing, Holding, InWord
  <2>13. OnlyReached'
    <3>1. \A s \in Subtypes : s # Type(index) => outdir'[s] = outdir[s]
      BY <1>0, <2>6 DEF DecodeTypes
    <3>. QED  BY <1>2, <2>2, <2>3, <3>1 DEF OnlyReached, DecodeInv
  <2>14. InWord(f) /\ Type(index) \notin lost'
           => Joined(outdir'[Type(index)], Bytes(Field(f.offset), offset + Piece))
    <3> SUFFICES ASSUME InWord(f), Type(index) \notin lost'
                 PROVE  Joined(outdir'[Type(index)], Bytes(Field(f.offset), offset + Piece))
      OBVIOUS
    <3>1. at = Field(f.offset) + offset
      <4>1. Field(f.offset) + offset \in Nat /\ Field(f.offset) + offset < Word
        BY <2>2, <2>3, <2>5, OpenixIMGAssumption DEF InWord
      <4>. QED  BY <4>1, FieldType
    <3>2. (offset = 0 /\ outdir[Type(index)] = << >>)
          \/ Joined(outdir[Type(index)], Bytes(Field(f.offset), offset))
      BY <2>2, <2>5, <2>11 DEF Reading, Holding
    <3>3. n = Piece
      BY <2>5, <2>6
    <3>. QED  BY <2>3, <2>5, <2>8, <2>10, <3>1, <3>2, <3>3, JoinedMore
  <2>15. Reading'
    <3>1. offset' # 0 /\ offset' <= f.length
      BY <2>2, <2>5
    <3>. QED  BY <1>2, <2>2, <2>3, <2>5, <2>14, <3>1 DEF Reading, Holding, InWord
  <2>. QED  BY <1>0, <1>1, <1>2, <2>2, <2>5, <2>9, <2>11, <2>12, <2>13, <2>15 DEF DecodeInv, DecodeTypes
<1>10. CASE ItemDone
  <2> DEFINE f == OpenedFor(index)
  <2>1. Opened = f
    BY DEF Subname, Opened, Type, OpenedFor, FileAt
  <2>2. /\ dpc = "read" /\ dpc' = "item" /\ offset >= f.length /\ upc' = upc /\ index' = index + 1
        /\ UNCHANGED <<offset, outdir, kept, lost, decoded>> /\ Reading /\ Started /\ decoded = "none"
    BY <1>10, <2>1 DEF ItemDone, unpack, DecodeInv, Started
  <2>3. index \in 1 .. NumFiles /\ f.length \in Nat /\ offset \in Nat
    BY <1>0, <2>2, OpenedType DEF DecodeTypes, Reading
  <2>4. f.length > 0 /\ f.length < Word /\ (Type(index) \in lost \/ Holding(outdir[Type(index)], f, f.length))
    <3>1. offset = f.length /\ offset > 0
      BY <2>2, <2>3 DEF Reading
    <3>. QED  BY <2>2, <3>1 DEF Reading
  <2>5. ASSUME NEW k \in 1 .. index PROVE Copied(k)'
    <3>1. CASE Type(k) = Type(index)
      <4>1. OpenedFor(k) = f
        BY <3>1 DEF OpenedFor
      <4>. QED  BY <1>2, <2>2, <2>4, <3>1, <4>1 DEF Copied, Holding, InWord
    <3>2. CASE Type(k) # Type(index)
      <4>1. k \in 1 .. index - 1
        BY <2>3, <2>5, <3>2
      <4>2. Copied(k)
        BY <2>2, <4>1 DEF DecodeInv
      <4>. QED  BY <1>2, <2>2, <3>2, <4>2 DEF Copied, Replacing, Holding, InWord
    <3>. QED  BY <3>1, <3>2
  <2>6. OnlyReached'
    BY <1>2, <2>2, <2>3 DEF OnlyReached, DecodeInv
  <2>7. index' - 1 = index
    BY <2>2, <2>3
  <2>. QED  BY <1>0, <1>1, <1>2, <2>2, <2>3, <2>5, <2>6, <2>7 DEF DecodeInv, DecodeTypes
<1>. QED  BY <1>3, <1>4, <1>5, <1>6, <1>7, <1>8, <1>9, <1>10 DEF Next, Step, Decode, Over

\* The invariant of the decoder, in every execution.
LEMMA DecodeInvariant == Spec => []DecodeInv
BY DecodeStart, DecodeStep, PTL DEF Spec

\* What the decoder has copied when it stops, however it stops.
LEMMA StoppedComplete ==
  ASSUME DecodeInv, decoded \in {"ok", "error", "crash"}, NEW k \in 1 .. index - 1
  PROVE  /\ k \in 1 .. NumFiles
         /\ OpenedFor(k).length > 0 /\ OpenedFor(k).length < Word
         /\ \/ decoded = "error" /\ Type(k) = Type(index)
            \/ Type(k) \in lost
            \/ Holding(outdir[Type(k)], OpenedFor(k), OpenedFor(k).length)
<1>1. Copied(k) /\ dpc = "over" /\ index \in Nat /\ index <= NumFiles + 1 /\ NumFiles \in Nat
  BY ItemsType DEF DecodeInv, DecodeTypes, Started
<1>. QED  BY <1>1 DEF Copied, Replacing

\* Wherever the decoder stops and whichever of its calls fails, the items before
\* are complete, in whatever pieces they were read, but for a file a write of
\* which failed or one begun again, and nothing of an earlier image is left but
\* what rm did not remove.
THEOREM StopsAtPrefix == Spec => []PrefixDecoded
<1>1. ASSUME DecodeInv PROVE PrefixDecoded
  <2> SUFFICES ASSUME decoded \in {"ok", "error", "crash"} PROVE PrefixDecoded
    BY DEF PrefixDecoded
  <2>0. image \in Inputs
    BY <1>1 DEF DecodeInv, DecodeTypes
  <2>1. ASSUME NEW k \in 1 .. index - 1, OpenedFor(k).offset + OpenedFor(k).length <= Word,
               OpenedFor(k).subtype \notin lost, ~Cut(OpenedFor(k).subtype)
        PROVE  Joined(outdir[OpenedFor(k).subtype], Bytes(OpenedFor(k).offset, OpenedFor(k).length))
    <3> DEFINE f == OpenedFor(k)
    <3>1. /\ k \in 1 .. NumFiles /\ f.length > 0
          /\ \/ decoded = "error" /\ Type(k) = Type(index)
             \/ Type(k) \in lost
             \/ Holding(outdir[Type(k)], f, f.length)
      BY <1>1, <2>1, StoppedComplete
    <3>2. f.subtype = Type(k) /\ f.offset \in Nat /\ f.length \in Nat
      BY <2>0, <3>1, OpenedType
    <3>4. Type(index) = Subname
      BY DEF Type, FileAt, Subname
    <3>5. Holding(outdir[Type(k)], f, f.length)
      BY <2>1, <3>1, <3>2, <3>4 DEF Cut
    <3>3. Field(f.offset) = f.offset
      <4>1. f.offset < Word
        BY <2>1, <3>1, <3>2, OpenixIMGAssumption
      <4>. QED  BY <3>2, <4>1, FieldType
    <3>. QED  BY <2>1, <3>2, <3>3, <3>5 DEF Holding, InWord
  <2>2. OnlyReached
    BY <1>1 DEF DecodeInv, Started
  <2>3. ASSUME NEW s \in Subtypes \ kept, \A k \in 1 .. NumFiles : k <= index => Type(k) # s
        PROVE  outdir[s] = << >>
    BY <2>2, <2>3 DEF OnlyReached
  <2>. QED  BY <2>1, <2>3 DEF PrefixDecoded, OpenedFor, Type, FileAt
<1>. QED  BY <1>1, DecodeInvariant, PTL

\* unpack_image and the decoder of the documentation take the same bytes of an
\* image for a file, also those that are the wrong ones.
THEOREM DecodersAgree == Spec => []SameContents
<1>1. ASSUME DecodeInv, UnpackInv PROVE SameContents
  <2> SUFFICES ASSUME decoded = "ok", uret = 0, ~failed,
                      NEW k \in DOMAIN image.items, OnlyOne(k), CanOpen(FileAt(k).name), FileAt(k).subtype \notin lost,
                      Field(FileAt(k).offset) + FileAt(k).length <= Word
               PROVE  Joined(outdir[FileAt(k).subtype], files[FileAt(k).name])
    BY DEF SameContents, FileAt
  <2> DEFINE f == FileAt(k)
  <2>1. /\ image \in Inputs /\ upc = "over" /\ index = NumFiles + 1 /\ NumFiles \in Nat
        /\ k \in 1 .. NumFiles /\ k \in 1 .. index - 1
    BY <1>1, ItemsType DEF DecodeInv, DecodeTypes
  <2>2. OpenItem(Type(k)) = k
    <3>1. OpenItem(Type(k)) \in DOMAIN image.items /\ Type(OpenItem(Type(k))) = Type(k)
      BY <2>1, ItemsType, OpenedType
    <3>. QED  BY <3>1 DEF OnlyOne, Type, FileAt
  <2>3. OpenedFor(k) = f
    BY <2>2 DEF OpenedFor
  <2>4. f.length < Word /\ f.length \in Nat /\ f.offset \in Nat
        /\ Joined(outdir[Type(k)], Bytes(Field(f.offset), f.length))
    BY <1>1, <2>1, <2>3, StoppedComplete, OpenedType DEF Holding, InWord, Type
  <2>5. files[f.name] = Bytes(Field(f.offset), f.length)
    <3>1. WrittenBefore /\ i - 1 = NumFiles
      BY <1>1, <2>1 DEF UnpackInv
    <3>2. \A m \in k + 1 .. i - 1 : FileAt(m).name # f.name
      BY <2>1, <3>1, ItemsType DEF OnlyOne, FileAt
    <3>3. files[f.name] = Content(f)
      BY <2>1, <3>1, <3>2 DEF WrittenBefore
    <3>. QED  BY <2>4, <3>3, FieldType DEF Content
  <2>. QED  BY <2>4, <2>5 DEF Type
<1>. QED  BY <1>1, DecodeInvariant, UnpackStart, UnpackStep, PTL DEF Spec
=============================================================================
