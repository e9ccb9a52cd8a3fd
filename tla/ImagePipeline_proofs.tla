------------------------ MODULE ImagePipeline_proofs ------------------------
(***************************************************************************)
(* Proofs about the files of ImagePipeline: what insert_image and the      *)
(* handlers that use it write, for every file with holes, every layout and *)
(* every size of block and buffer.                                         *)
(***************************************************************************)
EXTENDS ImagePipeline, FiniteSetTheorems, SequenceTheorems, WellFoundedInduction, TLAPS

-----------------------------------------------------------------------------
(***************************************************************************)
(* Least elements, blocks.                                                 *)
(***************************************************************************)
\* Sets of numbers have a least element.
LEMMA LeastOf ==
  ASSUME NEW S \in SUBSET Nat, S # {}
  PROVE  \E x \in S : \A y \in S : x <= y
<1>1. PICK x \in S : \A y \in S : ~ (<<y, x>> \in OpToRel(<, Nat))
  BY NatLessThanWellFounded, WFMin
<1>2. ASSUME NEW y \in S, y < x PROVE FALSE
  <2>1. <<y, x>> \in Nat \X Nat /\ <<y, x>>[1] < <<y, x>>[2]
    BY <1>2
  <2>2. <<y, x>> \in {ss \in Nat \X Nat : ss[1] < ss[2]}
    BY <2>1, Zenon
  <2>. QED  BY <1>1, <2>2 DEF OpToRel
<1>. QED  BY <1>2

\* The smallest of two or three numbers.
LEMMA MinOfTwo == \A a, b \in Int : Min({a, b}) = IF a <= b THEN a ELSE b
<1> SUFFICES ASSUME NEW a \in Int, NEW b \in Int PROVE Min({a, b}) = IF a <= b THEN a ELSE b
  OBVIOUS
<1>1. \E x \in {a, b} : \A y \in {a, b} : x <= y
  OBVIOUS
<1>2. Min({a, b}) \in {a, b} /\ \A y \in {a, b} : Min({a, b}) <= y
  BY <1>1 DEF Min
<1>. QED  BY <1>2

LEMMA MinOfThree ==
  \A a, b, c \in Int : Min({a, b, c}) \in {a, b, c} /\ Min({a, b, c}) <= a /\ Min({a, b, c}) <= b
                        /\ Min({a, b, c}) <= c
<1> SUFFICES ASSUME NEW a \in Int, NEW b \in Int, NEW c \in Int
             PROVE  /\ Min({a, b, c}) \in {a, b, c} /\ Min({a, b, c}) <= a /\ Min({a, b, c}) <= b
                    /\ Min({a, b, c}) <= c
  OBVIOUS
<1>1. \E x \in {a, b, c} : \A y \in {a, b, c} : x <= y
  OBVIOUS
<1>2. Min({a, b, c}) \in {a, b, c} /\ \A y \in {a, b, c} : Min({a, b, c}) <= y
  BY <1>1 DEF Min
<1>. QED  BY <1>2

LEMMA MaxOfTwo == \A a, b \in Int : Max({a, b}) = IF a >= b THEN a ELSE b
<1> SUFFICES ASSUME NEW a \in Int, NEW b \in Int PROVE Max({a, b}) = IF a >= b THEN a ELSE b
  OBVIOUS
<1>1. \E x \in {a, b} : \A y \in {a, b} : x >= y
  OBVIOUS
<1>2. Max({a, b}) \in {a, b} /\ \A y \in {a, b} : Max({a, b}) >= y
  BY <1>1 DEF Max
<1>. QED  BY <1>2

\* A position lies in exactly one block.
LEMMA BlockOf ==
  ASSUME NEW u \in Nat
  PROVE  /\ u \div FsBlock \in Nat
         /\ (u \div FsBlock) * FsBlock <= u /\ u < (u \div FsBlock + 1) * FsBlock
<1>1. FsBlock \in Nat \ {0}
  BY ImageFileAssumption
<1>2. PICK b \in Nat : b = FsBlock /\ b > 0
  BY <1>1
<1>. QED  BY <1>2

\* and the blocks of positions below n are those that begin below n.
LEMMA BlocksBelow ==
  ASSUME NEW n \in Nat, NEW u \in Nat
  PROVE  /\ u < n => u \div FsBlock \in BlocksOf(0 .. n - 1)
         /\ BlocksOf(0 .. n - 1) \subseteq Nat
<1>1. \A v \in 0 .. n - 1 : v \in Nat
  OBVIOUS
<1>. QED  BY <1>1, BlockOf DEF BlocksOf

\* Blocks that do not begin before others do not hold their positions.
LEMMA BlockStarts ==
  ASSUME NEW u \in Nat, NEW b \in Nat
  PROVE  /\ b * FsBlock \in Nat /\ (b + 1) * FsBlock = b * FsBlock + FsBlock
         /\ u \div FsBlock = b <=> b * FsBlock <= u /\ u < (b + 1) * FsBlock
<1>1. PICK w \in Nat, k \in Nat : w = FsBlock /\ w > 0 /\ k = u \div FsBlock
  BY ImageFileAssumption, BlockOf
<1>2. k * w <= u /\ u < (k + 1) * w
  BY <1>1, BlockOf
<1>3. b * w \in Nat /\ (b + 1) * w = b * w + w
  BY <1>1
<1>4. k < b => (k + 1) * w <= b * w
  BY <1>1
<1>5. b < k => (b + 1) * w <= k * w
  BY <1>1
<1>. QED  BY <1>1, <1>2, <1>3, <1>4, <1>5

-----------------------------------------------------------------------------
(***************************************************************************)
(* Files.                                                                  *)
(***************************************************************************)
\* What a file holds anywhere, also behind its end.
LEMMA UnitType ==
  ASSUME NEW f, IsFile(f), NEW u \in Nat
  PROVE  Unit(f, u) \in Values /\ (u >= f.size => Unit(f, u) = 0)
BY ImageFileAssumption DEF IsFile, Unit

\* A file is known by its fields.
FileOf(size, units, alloc, broken, device) ==
  [size |-> size, at |-> units, alloc |-> alloc, broken |-> broken, device |-> device]

LEMMA StSizeOf ==
  \A f : IsFile(f) => StSize(f) \in Nat /\ StSize(f) <= f.size /\ (StSize(f) = 0 \/ StSize(f) = f.size)
BY DEF StSize, IsFile

LEMMA MakeFile ==
  ASSUME NEW size \in Nat, NEW units \in [0 .. size - 1 -> Values],
         NEW alloc \in SUBSET BlocksOf(0 .. size - 1), NEW broken \in SUBSET Nat, NEW device \in BOOLEAN,
         ~device => \A u \in 0 .. size - 1 : u \div FsBlock \notin alloc => units[u] = 0
  PROVE  IsFile(FileOf(size, units, alloc, broken, device))
BY DEF IsFile, FileOf

\* ftruncate keeps what is below the new end, and adds zeros.
LEMMA ResizedFile ==
  ASSUME NEW f, IsFile(f), NEW n \in Nat
  PROVE  /\ IsFile(Resized(f, n)) /\ Resized(f, n).size = n /\ Resized(f, n).device = f.device
         /\ \A u \in Nat : Unit(Resized(f, n), u) = IF u < n THEN Unit(f, u) ELSE 0
<1>1. Resized(f, n) = FileOf(n, [u \in 0 .. n - 1 |-> Unit(f, u)], f.alloc \cap BlocksOf(0 .. n - 1),
                             f.broken, f.device)
  <2>1. PICK s, t, a, b, d : f = FileOf(s, t, a, b, d)
    BY DEF IsFile, FileOf
  <2>2. PICK t2, a2 : t2 = [u \in 0 .. n - 1 |-> Unit(f, u)] /\ a2 = f.alloc \cap BlocksOf(0 .. n - 1)
    OBVIOUS
  <2>3. Resized(f, n) = [f EXCEPT !.size = n, !.at = t2, !.alloc = a2]
    BY <2>2 DEF Resized
  <2>. QED  BY <2>1, <2>2, <2>3 DEF FileOf
<1>2. [u \in 0 .. n - 1 |-> Unit(f, u)] \in [0 .. n - 1 -> Values]
  BY UnitType
<1>3. ASSUME NEW u \in 0 .. n - 1, ~f.device, u \div FsBlock \notin f.alloc \cap BlocksOf(0 .. n - 1)
      PROVE  Unit(f, u) = 0
  <2>1. u \in Nat /\ u < n
    OBVIOUS
  <2>2. u \div FsBlock \notin f.alloc
    BY <2>1, <1>3, BlocksBelow
  <2>. QED  BY <2>1, <2>2, <1>3 DEF IsFile, Unit
<1>. QED  BY <1>1, <1>2, <1>3 DEF IsFile, FileOf, Unit

LEMMA AtLeastFile ==
  ASSUME NEW f, IsFile(f), NEW n \in Nat
  PROVE  /\ IsFile(AtLeast(f, n)) /\ AtLeast(f, n).device = f.device
         /\ AtLeast(f, n).size = IF n > f.size THEN n ELSE f.size
         /\ \A u \in Nat : Unit(AtLeast(f, n), u) = Unit(f, u)
<1>1. f.size \in Nat
  BY DEF IsFile
<1>2. PICK g : g = Resized(f, n)
  OBVIOUS
<1>3. /\ IsFile(g) /\ g.size = n /\ g.device = f.device
      /\ \A u \in Nat : Unit(g, u) = IF u < n THEN Unit(f, u) ELSE 0
  BY <1>2, ResizedFile
<1>4. \A u \in Nat : u >= f.size => Unit(f, u) = 0
  BY UnitType
<1>. QED  BY <1>1, <1>2, <1>3, <1>4 DEF AtLeast

\* pwrite changes what it is given to write, and nothing else.
LEMMA WrittenFile ==
  ASSUME NEW f, IsFile(f), NEW offset \in Nat, NEW data \in Seq(Values)
  PROVE  /\ IsFile(Written(f, offset, data)) /\ Written(f, offset, data).device = f.device
         /\ Written(f, offset, data).size =
              IF offset + Len(data) > f.size THEN offset + Len(data) ELSE f.size
         /\ \A u \in Nat : Unit(Written(f, offset, data), u) =
              IF offset <= u /\ u < offset + Len(data) THEN data[u - offset + 1] ELSE Unit(f, u)
<1> DEFINE n == offset + Len(data)
           range == offset .. n - 1
<1>1. n \in Nat /\ f.size \in Nat /\ Len(data) \in Nat
  BY DEF IsFile
<1>2. PICK g : g = AtLeast(f, n)
  OBVIOUS
<1>3. /\ IsFile(g) /\ g.device = f.device /\ g.size = IF n > f.size THEN n ELSE f.size
      /\ \A u \in Nat : Unit(g, u) = Unit(f, u)
  BY <1>1, <1>2, AtLeastFile
<1>4. g.size \in Nat /\ n <= g.size
  BY <1>1, <1>3
<1>5. PICK row : row = [u \in 0 .. g.size - 1 |-> IF u \in range THEN data[u - offset + 1] ELSE g.at[u]]
  OBVIOUS
<1>6. \A u \in range : data[u - offset + 1] \in Values
  BY <1>1
<1>7. g.at \in [0 .. g.size - 1 -> Values] /\ DOMAIN g.at = 0 .. g.size - 1
  BY <1>3 DEF IsFile
<1>8. row \in [0 .. g.size - 1 -> Values]
  BY <1>5, <1>6, <1>7
<1>9. PICK alloc : alloc = g.alloc \cup BlocksOf(range)
  OBVIOUS
<1>10. Written(f, offset, data) = FileOf(g.size, row, alloc, g.broken, g.device)
  <2>1. PICK s, t, a, b, d : g = FileOf(s, t, a, b, d)
    BY <1>3 DEF IsFile, FileOf
  <2>2. Written(f, offset, data) = [g EXCEPT !.at = row, !.alloc = alloc]
    <3>1. DOMAIN g.at = 0 .. g.size - 1
      BY <1>3 DEF IsFile
    <3>2. WrittenInside(g, offset, data) = [g EXCEPT !.at = row, !.alloc = alloc]
      <4>1. PICK width : width = Len(data)
        OBVIOUS
      <4>2. PICK t2 : t2 = g.at
        OBVIOUS
      <4>3. row = [u \in DOMAIN t2 |-> IF u \in offset .. offset + width - 1 THEN data[u - offset + 1] ELSE t2[u]]
        BY <1>5, <3>1, <4>1, <4>2
      <4>4. alloc = g.alloc \cup BlocksOf(offset .. offset + width - 1)
        BY <1>9, <4>1
      <4>. QED  BY <2>1, <4>1, <4>2, <4>3, <4>4 DEF WrittenInside, FileOf
    <3>3. Written(f, offset, data) = WrittenInside(g, offset, data)
      BY <1>2, Zenon DEF Written
    <3>. QED  BY <3>2, <3>3
  <2>. QED  BY <2>1, <2>2 DEF FileOf
<1>11. alloc \in SUBSET BlocksOf(0 .. g.size - 1)
  <2>1. range \subseteq 0 .. g.size - 1
    BY <1>1, <1>4
  <2>2. BlocksOf(range) \subseteq BlocksOf(0 .. g.size - 1)
    BY <2>1 DEF BlocksOf
  <2>. QED  BY <1>3, <1>9, <2>2 DEF IsFile
<1>12. ASSUME ~g.device, NEW u \in 0 .. g.size - 1, u \div FsBlock \notin alloc PROVE row[u] = 0
  <2>1. u \notin range
    BY <1>9, <1>12 DEF BlocksOf
  <2>2. g.at[u] = 0
    BY <1>3, <1>9, <1>12 DEF IsFile
  <2>. QED  BY <1>5, <1>12, <2>1, <2>2
<1>13. IsFile(FileOf(g.size, row, alloc, g.broken, g.device))
  <2>1. g.broken \in SUBSET Nat /\ g.device \in BOOLEAN
    BY <1>3 DEF IsFile
  <2>2. ~g.device => \A u \in 0 .. g.size - 1 : u \div FsBlock \notin alloc => row[u] = 0
    BY <1>12
  <2>. QED  BY <1>4, <1>8, <1>11, <2>1, <2>2, MakeFile
<1>14. ASSUME NEW u \in Nat
       PROVE  Unit(Written(f, offset, data), u) = IF u \in range THEN data[u - offset + 1] ELSE Unit(f, u)
  <2>1. Unit(Written(f, offset, data), u) = IF u < g.size THEN row[u] ELSE 0
    BY <1>10 DEF Unit, FileOf
  <2>2. CASE u < g.size
    BY <1>3, <1>4, <1>5, <2>1, <2>2 DEF Unit
  <2>3. CASE u >= g.size
    <3>1. u \notin range /\ u >= f.size
      BY <1>1, <1>3, <1>4, <2>3
    <3>2. Unit(f, u) = 0
      BY <3>1, UnitType
    <3>. QED  BY <1>4, <2>1, <2>3, <3>1, <3>2
  <2>. QED  BY <1>4, <2>2, <2>3
<1>15. Written(f, offset, data).size = g.size /\ Written(f, offset, data).device = g.device
  BY <1>10 DEF FileOf
<1>16. IsFile(Written(f, offset, data))
  BY <1>10, <1>13
<1>. QED  BY <1>1, <1>3, <1>14, <1>15, <1>16

\* fallocate gives back the blocks of a range that is in the file, and zeros the rest of it.
LEMMA PunchedFile ==
  ASSUME NEW f, IsFile(f), NEW offset \in Nat, NEW n \in Nat, ~f.device
  PROVE  /\ IsFile(Punched(f, offset, n)) /\ Punched(f, offset, n).device = f.device
         /\ Punched(f, offset, n).size = f.size
         /\ \A u \in Nat : Unit(Punched(f, offset, n), u) =
              IF offset <= u /\ u < offset + n THEN 0 ELSE Unit(f, u)
<1> DEFINE range == offset .. offset + n - 1
<1>1. f.size \in Nat /\ f.at \in [0 .. f.size - 1 -> Values] /\ DOMAIN f.at = 0 .. f.size - 1
  BY DEF IsFile
<1>2. PICK row : row = [u \in 0 .. f.size - 1 |-> IF u \in range THEN 0 ELSE f.at[u]]
  OBVIOUS
<1>3. PICK alloc : alloc = {b \in f.alloc : ~(b * FsBlock .. (b + 1) * FsBlock - 1 \subseteq range)}
  OBVIOUS
<1>4. Punched(f, offset, n) = FileOf(f.size, row, alloc, f.broken, f.device)
  <2>1. PICK s, t, a, b, d : f = FileOf(s, t, a, b, d)
    BY DEF IsFile, FileOf
  <2>2. Punched(f, offset, n) = [f EXCEPT !.at = row, !.alloc = alloc]
    BY <1>1, <1>2, <1>3, <2>1 DEF Punched, FileOf
  <2>. QED  BY <2>1, <2>2 DEF FileOf
<1>5. row \in [0 .. f.size - 1 -> Values]
  BY <1>1, <1>2, ImageFileAssumption
<1>6. alloc \in SUBSET BlocksOf(0 .. f.size - 1)
  BY <1>3 DEF IsFile
<1>7. ASSUME NEW u \in 0 .. f.size - 1, u \div FsBlock \notin alloc PROVE row[u] = 0
  <2>1. PICK b \in Nat : b = u \div FsBlock
    BY BlockOf
  <2>2. b \in f.alloc => u \in range
    <3> SUFFICES ASSUME b \in f.alloc PROVE u \in range
      OBVIOUS
    <3>1. b * FsBlock .. (b + 1) * FsBlock - 1 \subseteq range
      BY <1>3, <1>7, <2>1
    <3>2. b * FsBlock \in Int /\ (b + 1) * FsBlock \in Int /\ b * FsBlock <= u /\ u < (b + 1) * FsBlock
      BY <2>1, BlockStarts
    <3>. QED  BY <3>1, <3>2
  <2>3. b \notin f.alloc => f.at[u] = 0
    BY <2>1 DEF IsFile
  <2>. QED  BY <1>2, <2>2, <2>3
<1>8. IsFile(FileOf(f.size, row, alloc, f.broken, f.device))
  <2>1. f.broken \in SUBSET Nat /\ f.device \in BOOLEAN
    BY DEF IsFile
  <2>. QED  BY <1>1, <1>5, <1>6, <1>7, <2>1, MakeFile
<1>. QED  BY <1>1, <1>2, <1>4, <1>8 DEF FileOf, Unit

\* write_bytes leaves the value in the whole range, in whichever way it does it.
LEMMA WriteBytesFile ==
  ASSUME NEW f, IsFile(f), NEW n \in Nat, NEW offset \in Nat, NEW value \in Values
  PROVE  /\ IsFile(WriteBytes(f, n, offset, value)) /\ WriteBytes(f, n, offset, value).device = f.device
         /\ WriteBytes(f, n, offset, value).size =
              IF n > 0 /\ offset + n > f.size THEN offset + n ELSE f.size
         /\ \A u \in Nat : Unit(WriteBytes(f, n, offset, value), u) =
              IF offset <= u /\ u < offset + n THEN value ELSE Unit(f, u)
<1>1. f.size \in Nat
  BY DEF IsFile
<1>2. \A k \in Nat, v \in Values : /\ Repeated(v, k) \in Seq(Values) /\ Len(Repeated(v, k)) = k
                                   /\ \A i \in 1 .. k : Repeated(v, k)[i] = v
  BY DEF Repeated
<1>3. CASE n = 0
  BY <1>1, <1>3 DEF WriteBytes
<1>4. CASE n # 0 /\ (value # 0 \/ f.device)
  <2>1. WriteBytes(f, n, offset, value) = Written(f, offset, Repeated(value, n))
    BY <1>4 DEF WriteBytes
  <2>2. PICK data \in Seq(Values) : data = Repeated(value, n)
    BY <1>2
  <2>3. Len(data) = n /\ \A i \in 1 .. n : data[i] = value
    BY <1>2, <2>2
  <2>4. \A u \in Nat : offset <= u /\ u < offset + n => data[u - offset + 1] = value
    BY <2>3
  <2>5. PICK h : h = Written(f, offset, data)
    OBVIOUS
  <2>6. /\ IsFile(h) /\ h.device = f.device
        /\ h.size = IF offset + Len(data) > f.size THEN offset + Len(data) ELSE f.size
        /\ \A u \in Nat : Unit(h, u) =
             IF offset <= u /\ u < offset + Len(data) THEN data[u - offset + 1] ELSE Unit(f, u)
    BY <2>5, WrittenFile
  <2>7. \A u \in Nat : Unit(h, u) = IF offset <= u /\ u < offset + n THEN value ELSE Unit(f, u)
    BY <2>3, <2>4, <2>6
  <2>. QED  BY <1>1, <1>4, <2>1, <2>2, <2>3, <2>5, <2>6, <2>7
<1>5. CASE n # 0 /\ value = 0 /\ ~f.device /\ offset >= f.size
  <2>1. WriteBytes(f, n, offset, value) = Resized(f, offset + n)
    BY <1>5 DEF WriteBytes
  <2>2. \A u \in Nat : u >= f.size => Unit(f, u) = 0
    BY UnitType
  <2>3. PICK h : h = Resized(f, offset + n)
    OBVIOUS
  <2>4. /\ IsFile(h) /\ h.device = f.device /\ h.size = offset + n
        /\ \A u \in Nat : Unit(h, u) = IF u < offset + n THEN Unit(f, u) ELSE 0
    BY <2>3, ResizedFile
  <2>. QED  BY <1>1, <1>5, <2>1, <2>2, <2>3, <2>4
<1>6. CASE n # 0 /\ value = 0 /\ ~f.device /\ offset < f.size
  <2>1. PICK g : g = AtLeast(f, offset + n)
    OBVIOUS
  <2>2. /\ IsFile(g) /\ g.device = f.device
        /\ g.size = IF offset + n > f.size THEN offset + n ELSE f.size
        /\ \A u \in Nat : Unit(g, u) = Unit(f, u)
    <3>1. PICK m \in Nat : m = offset + n
      OBVIOUS
    <3>. QED  BY <1>1, <2>1, <3>1, AtLeastFile
  <2>3. PICK old \in Nat : old = IF offset + n > f.size THEN f.size - offset ELSE n
    BY <1>1, <1>6
  <2>7. /\ ~g.device /\ \A u \in Nat : u >= f.size => Unit(f, u) = 0
        /\ \A u \in Nat : offset <= u /\ u < offset + old <=> offset <= u /\ u < offset + n /\ u < f.size
        /\ offset + old <= f.size
    BY <1>1, <1>6, <2>2, <2>3, UnitType
  <2>4. n # 0 /\ ~(value # 0 \/ f.device) /\ ~(offset >= f.size)
    BY <1>1, <1>6
  <2>5. CASE CanPunch
    <3>1. WriteBytes(f, n, offset, value) = Punched(g, offset, old)
      BY <2>1, <2>3, <2>4, <2>5, Zenon DEF WriteBytes
    <3>2. PICK h : h = Punched(g, offset, old)
      OBVIOUS
    <3>3. /\ IsFile(h) /\ h.device = g.device /\ h.size = g.size
          /\ \A u \in Nat : Unit(h, u) = IF offset <= u /\ u < offset + old THEN 0 ELSE Unit(g, u)
      BY <2>2, <2>7, <3>2, PunchedFile
    <3>. QED  BY <1>1, <1>6, <2>2, <2>7, <3>1, <3>2, <3>3
  <2>6. CASE ~CanPunch
    <3>1. WriteBytes(f, n, offset, value) = Written(g, offset, Repeated(0, old))
      BY <2>1, <2>3, <2>4, <2>6, Zenon DEF WriteBytes
    <3>2. PICK data \in Seq(Values) : data = Repeated(0, old)
      BY <1>2, <2>3, ImageFileAssumption
    <3>3. Len(data) = old /\ \A i \in 1 .. old : data[i] = 0
      BY <1>2, <2>3, <3>2, ImageFileAssumption
    <3>4. \A u \in Nat : offset <= u /\ u < offset + old => data[u - offset + 1] = 0
      BY <3>3
    <3>5. PICK h : h = Written(g, offset, data)
      OBVIOUS
    <3>6. /\ IsFile(h) /\ h.device = g.device
          /\ h.size = IF offset + Len(data) > g.size THEN offset + Len(data) ELSE g.size
          /\ \A u \in Nat : Unit(h, u) =
               IF offset <= u /\ u < offset + Len(data) THEN data[u - offset + 1] ELSE Unit(g, u)
      BY <2>2, <3>5, WrittenFile
    <3>7. h.size = g.size
      BY <1>1, <1>6, <2>2, <2>7, <3>3, <3>6
    <3>8. \A u \in Nat : Unit(h, u) = IF offset <= u /\ u < offset + old THEN 0 ELSE Unit(g, u)
      BY <3>3, <3>4, <3>6
    <3>. QED  BY <1>1, <1>6, <2>2, <2>7, <3>1, <3>2, <3>5, <3>6, <3>7, <3>8
  <2>. QED  BY <2>5, <2>6
<1>7. f.device \in BOOLEAN /\ (offset >= f.size \/ offset < f.size)
  BY <1>1 DEF IsFile
<1>. QED  BY <1>3, <1>4, <1>5, <1>6, <1>7

-----------------------------------------------------------------------------
(***************************************************************************)
(* Extents.                                                                *)
(***************************************************************************)
\* Elements of a finite set of numbers are numbered from the least: one further on has more before it.
LEMMA Ranks ==
  ASSUME NEW S \in SUBSET Nat, IsFiniteSet(S)
  PROVE  \A a \in S : /\ Cardinality({c \in S : c < a}) \in 0 .. Cardinality(S) - 1
                      /\ \A b \in S : a < b <=> Cardinality({c \in S : c < a}) < Cardinality({c \in S : c < b})
<1>0. Cardinality(S) \in Nat
  BY FS_CardinalityType
<1>1. ASSUME NEW a \in S
      PROVE  /\ IsFiniteSet({c \in S : c < a}) /\ Cardinality({c \in S : c < a}) \in Nat
             /\ Cardinality({c \in S : c < a}) < Cardinality(S)
  <2>1. PICK T : T = {c \in S : c < a}
    OBVIOUS
  <2>2. T \in SUBSET S /\ a \in S /\ a \notin T
    BY <2>1
  <2>3. IsFiniteSet(T) /\ Cardinality(T) <= Cardinality(S) /\ Cardinality(T) # Cardinality(S)
    BY <2>2, FS_Subset
  <2>4. Cardinality(T) \in Nat
    BY <2>3, FS_CardinalityType
  <2>. QED  BY <1>0, <2>1, <2>3, <2>4
<1>2. ASSUME NEW a \in S, NEW b \in S, a < b
      PROVE  Cardinality({c \in S : c < a}) < Cardinality({c \in S : c < b})
  <2>1. PICK T : T = {c \in S : c < a}
    OBVIOUS
  <2>2. PICK U : U = {c \in S : c < b}
    OBVIOUS
  <2>3. T \in SUBSET U /\ a \in U /\ a \notin T
    <3>1. \A c \in S : c \in Int
      OBVIOUS
    <3>2. \A c \in S : c < a => c < b
      BY <1>2, <3>1
    <3>3. a \in S /\ ~(a < a)
      BY <3>1
    <3>. QED  BY <1>2, <2>1, <2>2, <3>2, <3>3
  <2>4. IsFiniteSet(U) /\ Cardinality(U) \in Nat /\ Cardinality(T) \in Nat
    BY <1>1, <2>1, <2>2
  <2>5. Cardinality(T) <= Cardinality(U) /\ Cardinality(U) # Cardinality(T)
    BY <2>3, <2>4, FS_Subset
  <2>. QED  BY <2>1, <2>2, <2>4, <2>5
<1>3. \A a, b \in S : a < b \/ a = b \/ b < a
  OBVIOUS
<1>. QED  BY <1>0, <1>1, <1>2, <1>3

\* So each of them is the i-th for one i, in their order.
LEMMA NthOf ==
  ASSUME NEW S \in SUBSET Nat, IsFiniteSet(S)
  PROVE  /\ \A i \in 1 .. Cardinality(S) : Nth(S, i) \in S
         /\ \A i, j \in 1 .. Cardinality(S) : i < j => Nth(S, i) < Nth(S, j)
         /\ \A b \in S : \E i \in 1 .. Cardinality(S) : b = Nth(S, i)
<1>0. Cardinality(S) \in Nat
  BY FS_CardinalityType
<1>1. PICK rank : rank = [a \in S |-> Cardinality({c \in S : c < a})]
  OBVIOUS
<1>2. PICK T : T = 0 .. Cardinality(S) - 1
  OBVIOUS
<1>3. rank \in [S -> T] /\ \A a, b \in S : a < b <=> rank[a] < rank[b]
  BY <1>1, <1>2, Ranks
<1>4. \A a, b \in S : rank[a] = rank[b] => a = b
  <2>1. \A a \in S : rank[a] \in Int /\ a \in Int
    BY <1>0, <1>2, <1>3
  <2>. QED  BY <1>3, <2>1
<1>5. rank \in Injection(S, T)
  BY <1>3, <1>4 DEF Injection, IsInjective
<1>6. IsFiniteSet(T) /\ Cardinality(T) = Cardinality(S)
  BY <1>0, <1>2, FS_Interval
<1>7. rank \in Surjection(S, T)
  BY <1>5, <1>6, FS_Injection
<1>8. ASSUME NEW i \in 1 .. Cardinality(S) PROVE Nth(S, i) \in S /\ rank[Nth(S, i)] = i - 1
  <2>1. i - 1 \in T
    BY <1>0, <1>2
  <2>2. \E b \in S : rank[b] = i - 1
    BY <1>7, <2>1 DEF Surjection
  <2>3. \E b \in S : Cardinality({c \in S : c < b}) = i - 1
    BY <1>1, <2>2
  <2>4. Nth(S, i) \in S /\ Cardinality({c \in S : c < Nth(S, i)}) = i - 1
    BY <2>3, Zenon DEF Nth
  <2>. QED  BY <1>1, <2>4
<1>9. ASSUME NEW b \in S PROVE \E i \in 1 .. Cardinality(S) : b = Nth(S, i)
  <2>1. PICK i \in 1 .. Cardinality(S) : i = rank[b] + 1
    BY <1>0, <1>2, <1>3
  <2>2. rank[Nth(S, i)] = rank[b] /\ Nth(S, i) \in S
    BY <1>0, <1>2, <1>3, <1>8, <2>1
  <2>. QED  BY <1>4, <2>2
<1>10. ASSUME NEW i \in 1 .. Cardinality(S), NEW j \in 1 .. Cardinality(S), i < j
       PROVE  Nth(S, i) < Nth(S, j)
  <2>1. PICK a \in S, b \in S : a = Nth(S, i) /\ b = Nth(S, j)
    BY <1>8
  <2>2. rank[a] = i - 1 /\ rank[b] = j - 1
    BY <1>8, <2>1
  <2>3. rank[a] < rank[b]
    BY <1>0, <1>10, <2>2
  <2>. QED  BY <1>3, <2>1, <2>3
<1>. QED  BY <1>8, <1>9, <1>10

\* The blocks of a file are a finite set of numbers.
LEMMA AllocFinite ==
  ASSUME NEW f, IsFile(f)
  PROVE  /\ f.alloc \in SUBSET Nat /\ IsFiniteSet(f.alloc) /\ Cardinality(f.alloc) \in Nat
         /\ \A b \in f.alloc : b <= f.size
<1>1. f.size \in Nat /\ f.alloc \subseteq BlocksOf(0 .. f.size - 1)
  BY DEF IsFile
<1>2. \A u \in 0 .. f.size - 1 : u \in Nat /\ u < f.size /\ u \div FsBlock \in Nat /\ u \div FsBlock <= u
  <2> SUFFICES ASSUME NEW u \in 0 .. f.size - 1
               PROVE  u \in Nat /\ u < f.size /\ u \div FsBlock \in Nat /\ u \div FsBlock <= u
    OBVIOUS
  <2>1. u \in Nat /\ u < f.size
    BY <1>1
  <2>2. PICK k \in Nat, w \in Nat : k = u \div FsBlock /\ w = FsBlock /\ w > 0
    BY <2>1, BlockOf, ImageFileAssumption
  <2>3. k * w <= u
    BY <2>1, <2>2, BlockOf
  <2>4. k <= k * w
    BY <2>2
  <2>. QED  BY <2>1, <2>2, <2>3, <2>4
<1>3. \A b \in f.alloc : b \in Nat /\ b <= f.size
  BY <1>1, <1>2 DEF BlocksOf
<1>4. f.alloc \in SUBSET Nat
  BY <1>3
<1>5. IsFiniteSet(f.alloc)
  BY <1>1, <1>3, <1>4, FS_BoundedSetOfNaturals
<1>. QED  BY <1>3, <1>4, <1>5, FS_CardinalityType

\* The run of blocks that begins at one has an end.
LEMMA RunEnds ==
  ASSUME NEW f, IsFile(f), NEW b \in f.alloc
  PROVE  \E e \in Nat : /\ e > b /\ (e \notin f.alloc \/ e \in f.broken)
                        /\ \A c \in b + 1 .. e - 1 : c \in f.alloc \ f.broken
                        /\ ExtentFrom(f, b) = [start |-> b * FsBlock, end |-> FsBlock * e]
<1>1. /\ b \in Nat /\ f.size \in Nat /\ IsFiniteSet(f.alloc) /\ Cardinality(f.alloc) \in Nat
      /\ \A a \in f.alloc : a <= f.size
  BY AllocFinite DEF IsFile
<1>2. PICK S \in SUBSET Nat : S = {x \in Nat : x > b /\ (x \notin f.alloc \/ x \in f.broken)}
  OBVIOUS
<1>3. f.size + b + 1 \in S
  <2>1. f.size + b + 1 \in Nat /\ f.size + b + 1 > b /\ ~(f.size + b + 1 <= f.size)
    BY <1>1
  <2>. QED  BY <1>1, <1>2, <2>1
<1>4. PICK y \in S : \A x \in S : y <= x
  BY <1>3, LeastOf
<1>5. ASSUME NEW c \in b + 1 .. y - 1 PROVE c \in f.alloc \ f.broken
  <2>1. c \in Nat /\ c > b /\ ~(y <= c)
    BY <1>1, <1>2, <1>4
  <2>. QED  BY <1>2, <1>4, <2>1
<1>6. y - b - 1 <= Cardinality(f.alloc)
  <2>1. b + 1 .. y - 1 \in SUBSET f.alloc
    BY <1>5
  <2>2. Cardinality(b + 1 .. y - 1) <= Cardinality(f.alloc)
    BY <1>1, <2>1, FS_Subset
  <2>3. b + 1 \in Int /\ y - 1 \in Int /\ y > b /\ y \in Nat
    BY <1>1, <1>2, <1>4
  <2>4. Cardinality(b + 1 .. y - 1) = y - 1 - b
    <3>1. Cardinality(b + 1 .. y - 1) = IF b + 1 > y - 1 THEN 0 ELSE (y - 1) - (b + 1) + 1
      BY <2>3, FS_Interval
    <3>. QED  BY <1>1, <2>3, <3>1
  <2>. QED  BY <1>1, <2>2, <2>3, <2>4
<1>7. y \in b + 1 .. b + 1 + Cardinality(f.alloc)
  BY <1>1, <1>2, <1>4, <1>6
<1>8. y \notin f.alloc \/ y \in f.broken
  BY <1>2, <1>4
<1>9. PICK e : e = CHOOSE x \in b + 1 .. b + 1 + Cardinality(f.alloc) :
                     /\ x \notin f.alloc \/ x \in f.broken
                     /\ \A c \in b + 1 .. x - 1 : c \in f.alloc \ f.broken
  OBVIOUS
<1>10. /\ e \in b + 1 .. b + 1 + Cardinality(f.alloc) /\ (e \notin f.alloc \/ e \in f.broken)
       /\ \A c \in b + 1 .. e - 1 : c \in f.alloc \ f.broken
  BY <1>5, <1>7, <1>8, <1>9
<1>11. ExtentFrom(f, b) = [start |-> b * FsBlock, end |-> FsBlock * e]
  BY <1>9, Zenon DEF ExtentFrom
<1>12. e \in Nat /\ e > b
  BY <1>1, <1>10
<1>. QED  BY <1>10, <1>11, <1>12

\* What the loops over extents rely on.
InOrder(x, n) ==
  /\ x \in Seq([start : Nat, end : Nat])
  /\ \A i \in 1 .. Len(x) : x[i].start <= x[i].end /\ x[i].end <= n
  /\ \A i, j \in 1 .. Len(x) : i < j => x[i].end <= x[j].start

\* The extents x FIEMAP reports, cut at the end of the range, each with the block of S it begins at
\* and the blocks up to the e-th it stands for.
FiemapOf(f, n, S, x) ==
  /\ IsFiniteSet(S) /\ S \in SUBSET f.alloc /\ Cardinality(S) \in Nat
  /\ x \in Seq([start : Nat, end : Nat]) /\ Len(x) = Cardinality(S)
  /\ \A i \in 1 .. Cardinality(S) : \E e \in Nat :
       /\ e > Nth(S, i) /\ (e \notin f.alloc \/ e \in f.broken)
       /\ \A c \in Nth(S, i) + 1 .. e - 1 : c \in f.alloc \ f.broken
       /\ x[i].start = Nth(S, i) * FsBlock
       /\ x[i].end = IF i = Cardinality(S) /\ e * FsBlock > n THEN n ELSE e * FsBlock

LEMMA FiemapExtents ==
  ASSUME NEW f, IsFile(f), NEW n \in Nat, HaveFiemap, ~f.device
  PROVE  FiemapOf(f, n, ExtentStarts(f, n), MapFileExtents(f, n))
<1>1. PICK S : S = ExtentStarts(f, n)
  OBVIOUS
<1>2. S \in SUBSET f.alloc /\ f.alloc \in SUBSET Nat /\ IsFiniteSet(f.alloc)
  BY <1>1, AllocFinite DEF ExtentStarts
<1>3. IsFiniteSet(S) /\ Cardinality(S) \in Nat /\ S \in SUBSET Nat
  BY <1>2, FS_Subset, FS_CardinalityType
<1>4. PICK k \in Nat : k = Cardinality(S)
  BY <1>3
<1>5. PICK whole : whole = [i \in 1 .. k |-> ExtentFrom(f, Nth(S, i))]
  OBVIOUS
<1>6. ASSUME NEW i \in 1 .. k
      PROVE  \E e \in Nat : /\ e > Nth(S, i) /\ (e \notin f.alloc \/ e \in f.broken)
                            /\ \A c \in Nth(S, i) + 1 .. e - 1 : c \in f.alloc \ f.broken
                            /\ whole[i] = [start |-> Nth(S, i) * FsBlock, end |-> FsBlock * e]
  <2>1. Nth(S, i) \in f.alloc
    BY <1>2, <1>3, <1>4, NthOf
  <2>2. PICK b \in f.alloc : b = Nth(S, i)
    BY <2>1
  <2>3. whole[i] = ExtentFrom(f, b)
    BY <1>5, <2>2
  <2>. QED  BY <2>2, <2>3, RunEnds
<1>7. whole \in Seq([start : Nat, end : Nat]) /\ Len(whole) = k
  <2>1. \A i \in 1 .. k : whole[i] \in [start : Nat, end : Nat]
    <3> SUFFICES ASSUME NEW i \in 1 .. k PROVE whole[i] \in [start : Nat, end : Nat]
      OBVIOUS
    <3>1. PICK e \in Nat : whole[i] = [start |-> Nth(S, i) * FsBlock, end |-> FsBlock * e]
      BY <1>6
    <3>2. Nth(S, i) \in Nat /\ FsBlock \in Nat
      BY <1>3, <1>4, NthOf, ImageFileAssumption
    <3>3. Nth(S, i) * FsBlock \in Nat /\ FsBlock * e \in Nat
      BY <3>2
    <3>. QED  BY <3>1, <3>3
  <2>. QED  BY <1>5, <2>1
<1>8. PICK x : x = [i \in 1 .. k |-> IF i = k /\ whole[i].end > n THEN [whole[i] EXCEPT !.end = n] ELSE whole[i]]
  OBVIOUS
<1>9. x = MapFileExtents(f, n)
  <2>1. DOMAIN whole = 1 .. k
    BY <1>5
  <2>2. MapFileExtents(f, n) =
          [i \in DOMAIN whole |->
             IF i = Len(whole) /\ whole[i].end > n THEN [whole[i] EXCEPT !.end = n] ELSE whole[i]]
    <3>1. whole = [i \in 1 .. Cardinality(ExtentStarts(f, n)) |-> ExtentFrom(f, Nth(ExtentStarts(f, n), i))]
      BY <1>1, <1>4, <1>5
    <3>. QED  BY <3>1, HaveFiemap, ~f.device, Zenon DEF MapFileExtents
  <2>. QED  BY <1>7, <1>8, <2>1, <2>2
<1>10. ASSUME NEW i \in 1 .. k
       PROVE  \E e \in Nat : /\ e > Nth(S, i) /\ (e \notin f.alloc \/ e \in f.broken)
                             /\ \A c \in Nth(S, i) + 1 .. e - 1 : c \in f.alloc \ f.broken
                             /\ x[i] \in [start : Nat, end : Nat]
                             /\ x[i].start = Nth(S, i) * FsBlock
                             /\ x[i].end = IF i = k /\ e * FsBlock > n THEN n ELSE e * FsBlock
  <2>1. PICK e \in Nat : /\ e > Nth(S, i) /\ (e \notin f.alloc \/ e \in f.broken)
                         /\ \A c \in Nth(S, i) + 1 .. e - 1 : c \in f.alloc \ f.broken
                         /\ whole[i] = [start |-> Nth(S, i) * FsBlock, end |-> FsBlock * e]
    BY <1>6
  <2>2. PICK s, t : s = Nth(S, i) * FsBlock /\ t = FsBlock * e /\ t = e * FsBlock
    BY ImageFileAssumption
  <2>3. s \in Nat /\ t \in Nat
    BY <1>5, <1>7, <2>1, <2>2
  <2>4. x[i] = IF i = k /\ whole[i].end > n THEN [whole[i] EXCEPT !.end = n] ELSE whole[i]
    BY <1>8
  <2>5. x[i] = IF i = k /\ t > n THEN [start |-> s, end |-> n] ELSE [start |-> s, end |-> t]
    BY <2>1, <2>2, <2>4
  <2>. QED  BY <2>1, <2>2, <2>3, <2>5
<1>11. x \in Seq([start : Nat, end : Nat]) /\ Len(x) = k
  <2>1. \A i \in 1 .. k : x[i] \in [start : Nat, end : Nat]
    BY <1>10
  <2>2. PICK R : R = [start : Nat, end : Nat]
    OBVIOUS
  <2>3. x \in [1 .. k -> R]
    BY <1>8, <2>1, <2>2
  <2>4. \A y \in [1 .. k -> R] : y \in Seq(R) /\ Len(y) = k
    OBVIOUS
  <2>. QED  BY <2>2, <2>3, <2>4
<1>12. Len(x) = Cardinality(S) /\ Cardinality(S) \in Nat
  BY <1>4, <1>11
<1>13. FiemapOf(f, n, S, x)
  BY <1>2, <1>3, <1>4, <1>10, <1>11, <1>12 DEF FiemapOf
<1>. QED  BY <1>1, <1>9, <1>13

\* The extents of a file are in order, one behind the other, in the range that was asked for.
LEMMA ExtentsInOrder ==
  ASSUME NEW f, IsFile(f), NEW n \in Nat
  PROVE  InOrder(MapFileExtents(f, n), n)
<1>1. CASE ~HaveFiemap \/ f.device
  <2>1. MapFileExtents(f, n) = <<[start |-> 0, end |-> n]>>
    BY <1>1 DEF MapFileExtents, WholeFile
  <2>. QED  BY <2>1 DEF InOrder
<1>2. CASE HaveFiemap /\ ~f.device
  <2>1. PICK S, x : S = ExtentStarts(f, n) /\ x = MapFileExtents(f, n) /\ FiemapOf(f, n, S, x)
    BY <1>2, FiemapExtents
  <2>2. /\ IsFiniteSet(S) /\ S \in SUBSET f.alloc /\ Cardinality(S) \in Nat
        /\ x \in Seq([start : Nat, end : Nat]) /\ Len(x) = Cardinality(S)
        /\ \A i \in 1 .. Cardinality(S) : \E e \in Nat :
             /\ e > Nth(S, i) /\ (e \notin f.alloc \/ e \in f.broken)
             /\ \A c \in Nth(S, i) + 1 .. e - 1 : c \in f.alloc \ f.broken
             /\ x[i].start = Nth(S, i) * FsBlock
             /\ x[i].end = IF i = Cardinality(S) /\ e * FsBlock > n THEN n ELSE e * FsBlock
    BY <2>1 DEF FiemapOf
  <2>4. PICK k \in Nat : k = Cardinality(S)
    BY <2>2
  <2>5. S \in SUBSET Nat
    BY <2>2, AllocFinite
  <2>6. PICK w \in Nat : w = FsBlock /\ w > 0
    BY ImageFileAssumption
  <2>7. \A b \in S : b * w < n /\ (b - 1 \notin f.alloc \/ b \in f.broken)
    BY <2>1, <2>6 DEF ExtentStarts
  <2>8. ASSUME NEW i \in 1 .. k, NEW j \in 1 .. k, i < j PROVE x[i].end <= x[j].start /\ x[i].end <= n
    <3>1. PICK e \in Nat : /\ e > Nth(S, i) /\ (e \notin f.alloc \/ e \in f.broken)
                           /\ \A c \in Nth(S, i) + 1 .. e - 1 : c \in f.alloc \ f.broken
                           /\ x[i].end = IF i = k /\ e * FsBlock > n THEN n ELSE e * FsBlock
      BY <2>2, <2>4
    <3>2. PICK b \in S, a \in S : a = Nth(S, i) /\ b = Nth(S, j)
      BY <2>2, <2>4, <2>5, NthOf
    <3>3. a < b
      BY <2>2, <2>4, <2>5, <2>8, <3>2, NthOf
    <3>4. a \in Nat /\ b \in Nat
      BY <2>5
    <3>5. e <= b
      <4> SUFFICES ASSUME b < e PROVE FALSE
        BY <3>4
      <4>1. b \in f.alloc \ f.broken
        BY <3>1, <3>2, <3>3, <3>4
      <4>2. b - 1 \in f.alloc
        <5>1. CASE b - 1 = a
          BY <2>2, <5>1
        <5>2. CASE b - 1 # a
          BY <3>1, <3>2, <3>3, <3>4, <5>2
        <5>. QED  BY <5>1, <5>2
      <4>. QED  BY <2>7, <4>1, <4>2
    <3>6. x[i].end = e * w
      BY <2>6, <2>8, <3>1
    <3>7. x[j].start = b * w
      BY <2>2, <2>4, <2>6, <3>2
    <3>8. e * w <= b * w /\ b * w < n /\ e * w \in Nat /\ b * w \in Nat
      BY <2>6, <2>7, <3>4, <3>5
    <3>. QED  BY <3>6, <3>7, <3>8
  <2>9. ASSUME NEW i \in 1 .. k PROVE x[i].start <= x[i].end /\ x[i].end <= n
    <3>1. PICK e \in Nat : /\ e > Nth(S, i) /\ x[i].start = Nth(S, i) * FsBlock
                           /\ x[i].end = IF i = k /\ e * FsBlock > n THEN n ELSE e * FsBlock
      BY <2>2, <2>4
    <3>2. PICK a \in S : a = Nth(S, i)
      BY <2>2, <2>4, <2>5, NthOf
    <3>3. a \in Nat /\ a < e /\ a * w < n /\ x[i].start = a * w
      BY <2>5, <2>6, <2>7, <3>1, <3>2
    <3>4. a * w <= e * w /\ e * w \in Nat /\ a * w \in Nat
      BY <2>6, <3>3
    <3>5. x[i].end = IF i = k /\ e * w > n THEN n ELSE e * w
      BY <2>6, <3>1
    <3>6. CASE i = k
      BY <3>3, <3>4, <3>5, <3>6
    <3>7. CASE i # k
      <4>1. x[i].end <= n
        BY <2>4, <2>8, <3>7
      <4>. QED  BY <3>3, <3>4, <3>5, <3>7, <4>1
    <3>. QED  BY <3>6, <3>7
  <2>10. InOrder(x, n)
    BY <2>2, <2>4, <2>8, <2>9 DEF InOrder
  <2>. QED  BY <2>1, <2>10
<1>. QED  BY <1>1, <1>2

\* They cover the blocks that are allocated, and nothing else; without FIEMAP they cover everything.
LEMMA ExtentsCover ==
  ASSUME NEW f, IsFile(f), NEW n \in Nat, NEW u \in Nat, u < n
  PROVE  InExtents(MapFileExtents(f, n), u) <=> (HaveFiemap => ~IsHole(f, u))
<1>1. CASE ~HaveFiemap \/ f.device
  <2>1. MapFileExtents(f, n) = <<[start |-> 0, end |-> n]>>
    BY <1>1 DEF MapFileExtents, WholeFile
  <2>. QED  BY <1>1, <2>1 DEF InExtents, IsHole
<1>2. CASE HaveFiemap /\ ~f.device
  <2>1. PICK S, x : S = ExtentStarts(f, n) /\ x = MapFileExtents(f, n) /\ FiemapOf(f, n, S, x)
    BY <1>2, FiemapExtents
  <2>2. /\ IsFiniteSet(S) /\ S \in SUBSET f.alloc /\ Cardinality(S) \in Nat
        /\ x \in Seq([start : Nat, end : Nat]) /\ Len(x) = Cardinality(S)
        /\ \A i \in 1 .. Cardinality(S) : \E e \in Nat :
             /\ e > Nth(S, i) /\ (e \notin f.alloc \/ e \in f.broken)
             /\ \A c \in Nth(S, i) + 1 .. e - 1 : c \in f.alloc \ f.broken
             /\ x[i].start = Nth(S, i) * FsBlock
             /\ x[i].end = IF i = Cardinality(S) /\ e * FsBlock > n THEN n ELSE e * FsBlock
    BY <2>1 DEF FiemapOf
  <2>3. PICK k \in Nat : k = Cardinality(S)
    BY <2>2
  <2>4. S \in SUBSET Nat /\ f.alloc \in SUBSET Nat
    BY <2>2, AllocFinite
  <2>5. PICK w \in Nat, c \in Nat : w = FsBlock /\ w > 0 /\ c = u \div FsBlock
    BY ImageFileAssumption, BlockOf
  <2>6. c * w <= u /\ u < (c + 1) * w
    BY <2>5, BlockOf
  <2>7. IsHole(f, u) <=> c \notin f.alloc
    BY <1>2, <2>5 DEF IsHole
  <2>8. ASSUME NEW i \in 1 .. k, x[i].start <= u, u < x[i].end PROVE c \in f.alloc
    <3>1. PICK e \in Nat : /\ e > Nth(S, i) /\ \A y \in Nth(S, i) + 1 .. e - 1 : y \in f.alloc \ f.broken
                           /\ x[i].start = Nth(S, i) * FsBlock
                           /\ x[i].end = IF i = k /\ e * FsBlock > n THEN n ELSE e * FsBlock
      BY <2>2, <2>3
    <3>2. PICK b \in S : b = Nth(S, i)
      BY <2>2, <2>3, <2>4, NthOf
    <3>3. b \in Nat /\ b \in f.alloc /\ b * w <= u /\ u < e * w
      <4>1. b \in Nat /\ b \in f.alloc
        BY <2>2, <2>4
      <4>2. x[i].start = b * w
        BY <2>5, <3>1, <3>2
      <4>3. x[i].end = IF i = k /\ e * w > n THEN n ELSE e * w
        BY <2>5, <3>1
      <4>4. e * w \in Nat /\ b * w \in Nat
        BY <2>5, <4>1
      <4>. QED  BY <2>8, <4>1, <4>2, <4>3, <4>4
    <3>4. b <= c /\ c < e
      <4>1. c < b => (c + 1) * w <= b * w
        BY <2>5, <3>3
      <4>2. e <= c => e * w <= c * w
        BY <2>5, <3>1
      <4>3. (c + 1) * w \in Nat /\ b * w \in Nat /\ e * w \in Nat /\ c * w \in Nat
        BY <2>5, <3>3
      <4>. QED  BY <2>5, <2>6, <3>1, <3>3, <4>1, <4>2, <4>3
    <3>5. CASE b = c
      BY <3>3, <3>5
    <3>6. CASE b # c
      <4>1. c \in b + 1 .. e - 1
        BY <3>3, <3>4, <3>6
      <4>. QED  BY <3>1, <3>2, <4>1
    <3>. QED  BY <3>5, <3>6
  <2>9. ASSUME c \in f.alloc PROVE \E i \in 1 .. k : x[i].start <= u /\ u < x[i].end
    <3>1. PICK M \in SUBSET Nat : M = {m \in Nat : m <= c /\ m .. c \subseteq f.alloc}
      OBVIOUS
    <3>2. c \in M
      BY <2>9, <3>1
    <3>3. PICK m \in M : \A y \in M : m <= y
      BY <3>2, LeastOf
    <3>4. m \in Nat /\ m <= c /\ \A y \in m .. c : y \in f.alloc
      BY <3>1, <3>3
    <3>5. m - 1 \notin f.alloc
      <4> SUFFICES ASSUME m - 1 \in f.alloc PROVE FALSE
        OBVIOUS
      <4>1. m - 1 \in Nat
        BY <2>4
      <4>2. \A y \in m - 1 .. c : y \in f.alloc
        <5> SUFFICES ASSUME NEW y \in m - 1 .. c PROVE y \in f.alloc
          OBVIOUS
        <5>1. y = m - 1 \/ y \in m .. c
          BY <3>4
        <5>. QED  BY <3>4, <5>1
      <4>3. m - 1 \in M
        BY <3>1, <3>4, <4>1, <4>2
      <4>. QED  BY <3>3, <3>4, <4>3
    <3>6. PICK D \in SUBSET Nat : D = {d \in Nat : d <= c /\ c - d \in f.alloc
                                                  /\ (c - d - 1 \notin f.alloc \/ c - d \in f.broken)}
      OBVIOUS
    <3>7. PICK h \in Nat : h = c - m
      BY <3>4
    <3>8. h \in D
      <4>1. c - h = m /\ h <= c /\ c - h - 1 = m - 1 /\ m \in f.alloc
        BY <3>4, <3>7
      <4>. QED  BY <3>5, <3>6, <4>1
    <3>9. PICK d \in D : \A y \in D : d <= y
      BY <3>8, LeastOf
    <3>10. PICK b \in Nat : b = c - d
      BY <3>6, <3>9
    <3>11. b \in f.alloc /\ (b - 1 \notin f.alloc \/ b \in f.broken) /\ m <= b /\ b <= c
      <4>1. d \in Nat /\ d <= h /\ d <= c
        BY <3>6, <3>8, <3>9
      <4>2. b \in f.alloc /\ (b - 1 \notin f.alloc \/ b \in f.broken)
        BY <3>6, <3>9, <3>10
      <4>. QED  BY <3>4, <3>7, <3>10, <4>1, <4>2
    <3>12. b * w <= c * w /\ b * w \in Nat /\ c * w \in Nat
      BY <2>5, <3>11
    <3>13. b \in S
      <4>1. b * FsBlock < n
        BY <2>5, <2>6, <3>12
      <4>. QED  BY <2>1, <3>11, <4>1 DEF ExtentStarts
    <3>14. PICK i \in 1 .. k : b = Nth(S, i)
      BY <2>2, <2>3, <2>4, <3>13, NthOf
    <3>15. PICK e \in Nat : /\ e > Nth(S, i) /\ (e \notin f.alloc \/ e \in f.broken)
                            /\ x[i].start = Nth(S, i) * FsBlock
                            /\ x[i].end = IF i = k /\ e * FsBlock > n THEN n ELSE e * FsBlock
      BY <2>2, <2>3
    <3>16. e > c
      <4> SUFFICES ASSUME e <= c PROVE FALSE
        OBVIOUS
      <4>1. b < e
        BY <3>14, <3>15
      <4>2. e \in f.alloc
        BY <3>4, <3>11, <4>1
      <4>3. e \in f.broken
        BY <3>15, <4>2
      <4>4. PICK y \in Nat : y = c - e
        OBVIOUS
      <4>5. c - y = e /\ y <= c /\ y < d
        BY <3>6, <3>9, <3>10, <4>1, <4>4
      <4>6. y \in D
        BY <3>6, <4>2, <4>3, <4>5
      <4>. QED  BY <3>6, <3>9, <4>5, <4>6
    <3>17. (c + 1) * w <= e * w /\ e * w \in Nat /\ (c + 1) * w \in Nat
      BY <2>5, <3>16
    <3>18. x[i].start = b * w
      BY <2>5, <3>14, <3>15
    <3>19. x[i].end = IF i = k /\ e * w > n THEN n ELSE e * w
      BY <2>5, <3>15
    <3>. QED  BY <2>6, <3>12, <3>17, <3>18, <3>19
  <2>10. InExtents(x, u) <=> \E i \in 1 .. k : x[i].start <= u /\ u < x[i].end
    BY <2>2, <2>3 DEF InExtents
  <2>. QED  BY <1>2, <2>1, <2>7, <2>8, <2>9, <2>10
<1>. QED  BY <1>1, <1>2

-----------------------------------------------------------------------------
(***************************************************************************)
(* A call of insert_image.  Its arguments are counted down as it goes, so  *)
(* what it was called with is what is left plus how far it has read: what  *)
(* it is to write stays the same, and is written up to the place reached.  *)
(***************************************************************************)
CallOf(pc, sub, size, offset, value, inPos, xs, e, wanted, plain) ==
  [pc |-> pc, sub |-> sub, size |-> size, offset |-> offset, value |-> value,
   inPos |-> inPos, exts |-> xs, e |-> e, wanted |-> wanted, plain |-> plain]

ShapeOf(c) ==
  c = CallOf(c.pc, c.sub, c.size, c.offset, c.value, c.inPos, c.exts, c.e, c.wanted, c.plain)

ArgumentsOf(c) ==
  /\ c.size \in Nat /\ c.offset \in Nat /\ c.inPos \in Nat /\ c.value \in Values
  /\ c.inPos <= c.offset
  /\ c.sub # NoSub => IsFile(c.sub)
  /\ c.wanted = WantedBy(c.sub, c.size + c.inPos, c.offset - c.inPos, c.value)

\* The extents behind the place reached, or behind the end of the file, are done.
DoneWith(c, i) == c.exts[i].end <= c.inPos \/ c.sub.size <= c.inPos

ExtentsOf(c) ==
  /\ c.exts = IF c.sub = NoSub THEN << >> ELSE MapFileExtents(c.sub, c.size + c.inPos)
  /\ c.e \in 1 .. Len(c.exts) + 1
  /\ c.size > 0 => \A i \in 1 .. c.e - 1 : DoneWith(c, i)

InExtent(c) ==
  /\ c.e <= Len(c.exts)
  /\ c.size > 0 => c.exts[c.e].start <= c.inPos /\ c.inPos <= c.exts[c.e].end

\* How far the range is written.
Reached(c) == IF c.pc = "ok" THEN c.offset + c.size ELSE c.offset

WrittenSoFar(c, f) ==
  \A p \in Nat : c.offset - c.inPos <= p /\ p < Reached(c) => Unit(f, p) = c.wanted[p]

CallGood(c, f) ==
  /\ ShapeOf(c)
  /\ c.pc \in {"none", "open", "extent", "copy", "ok", "failed"}
  /\ c.pc = "none" => c = NoCall
  /\ c.pc # "none" => ArgumentsOf(c)
  /\ c.pc = "open" => c.inPos = 0 /\ c.e = 1
  /\ c.pc \in {"extent", "copy"} => ExtentsOf(c)
  /\ c.pc = "extent" => (c.size > 0 => \A i \in c.e .. Len(c.exts) : c.inPos <= c.exts[i].start)
  /\ c.pc = "copy" => InExtent(c)
  /\ c.pc \in {"open", "extent", "copy", "ok"} => WrittenSoFar(c, f)

\* What is to be written is known for the range, and only there.
LEMMA WantedType ==
  ASSUME NEW sub, sub # NoSub => IsFile(sub), NEW size \in Nat, NEW offset \in Nat, NEW value \in Values
  PROVE  /\ DOMAIN WantedBy(sub, size, offset, value) = offset .. offset + size - 1
         /\ WantedBy(sub, size, offset, value) \in [offset .. offset + size - 1 -> Values]
<1>1. PICK x : x = MapFileExtents(sub, size)
  OBVIOUS
<1>2. WantedBy(sub, size, offset, value) =
        [p \in offset .. offset + size - 1 |->
           IF sub # NoSub /\ p - offset < sub.size /\ InExtents(x, p - offset) THEN sub.at[p - offset] ELSE value]
  BY <1>1, Zenon DEF WantedBy
<1>3. ASSUME NEW p \in offset .. offset + size - 1, sub # NoSub, p - offset < sub.size
      PROVE  sub.at[p - offset] \in Values
  <2>1. sub.at \in [0 .. sub.size - 1 -> Values] /\ sub.size \in Nat
    BY <1>3 DEF IsFile
  <2>2. p - offset \in 0 .. sub.size - 1
    BY <1>3, <2>1
  <2>. QED  BY <2>1, <2>2
<1>. QED  BY <1>2, <1>3

WantedUnit(sub, size, offset, value, p) ==
  IF sub # NoSub /\ p - offset < sub.size /\ InExtents(MapFileExtents(sub, size), p - offset)
  THEN sub.at[p - offset] ELSE value

LEMMA WantedAt ==
  ASSUME NEW sub, sub # NoSub => IsFile(sub), NEW size \in Nat, NEW offset \in Nat, NEW value \in Values,
         NEW p \in Nat, offset <= p, p < offset + size
  PROVE  /\ p \in DOMAIN WantedBy(sub, size, offset, value)
         /\ WantedBy(sub, size, offset, value)[p] = WantedUnit(sub, size, offset, value, p)
<1>1. PICK x : x = MapFileExtents(sub, size)
  OBVIOUS
<1>2. WantedBy(sub, size, offset, value) =
        [q \in offset .. offset + size - 1 |->
           IF sub # NoSub /\ q - offset < sub.size /\ InExtents(x, q - offset) THEN sub.at[q - offset] ELSE value]
  BY <1>1, Zenon DEF WantedBy
<1>. QED  BY <1>1, <1>2 DEF WantedUnit

\* The arguments of a call in progress and its extents, by name.
LEMMA CallParts ==
  ASSUME CallGood(call, out), call.pc # "none"
  PROVE  \E s, o, k, t, first \in Nat : /\ s = call.size /\ o = call.offset /\ k = call.inPos /\ k <= o
                                 /\ t = s + k /\ first = o - k
                                 /\ call.value \in Values
                                 /\ (call.sub # NoSub => IsFile(call.sub))
                                 /\ call.wanted = WantedBy(call.sub, t, first, call.value)
<1>1. ArgumentsOf(call)
  BY DEF CallGood
<1>2. PICK s \in Nat, o \in Nat, k \in Nat : s = call.size /\ o = call.offset /\ k = call.inPos /\ k <= o
  BY <1>1 DEF ArgumentsOf
<1>3. PICK t \in Nat, first \in Nat : t = s + k /\ first = o - k
  BY <1>2
<1>4. call.wanted = WantedBy(call.sub, t, first, call.value)
  BY <1>1, <1>2, <1>3 DEF ArgumentsOf
<1>. QED  BY <1>1, <1>2, <1>3, <1>4 DEF ArgumentsOf

LEMMA CallExtents ==
  ASSUME CallGood(call, out), call.pc \in {"extent", "copy"}
  PROVE  /\ call.e \in 1 .. Len(call.exts) + 1 /\ Len(call.exts) \in Nat
         /\ \A i \in 1 .. Len(call.exts) : /\ call.exts[i].start \in Nat /\ call.exts[i].end \in Nat
                                           /\ call.exts[i].start <= call.exts[i].end
         /\ \A i, j \in 1 .. Len(call.exts) : i < j => call.exts[i].end <= call.exts[j].start
         /\ call.exts # << >> => call.sub # NoSub
         /\ call.sub # NoSub => call.exts = MapFileExtents(call.sub, call.size + call.inPos)
<1>1. ExtentsOf(call) /\ ArgumentsOf(call)
  BY DEF CallGood
<1>2. CASE call.sub = NoSub
  BY <1>1, <1>2 DEF ExtentsOf
<1>3. CASE call.sub # NoSub
  <2>1. PICK t, x : t \in Nat /\ t = call.size + call.inPos /\ x = MapFileExtents(call.sub, t)
    BY <1>1 DEF ArgumentsOf
  <2>2. IsFile(call.sub)
    BY <1>1, <1>3 DEF ArgumentsOf
  <2>3. InOrder(x, t)
    BY <2>1, <2>2, ExtentsInOrder
  <2>4. call.exts = x
    BY <1>1, <1>3, <2>1 DEF ExtentsOf
  <2>5. \A y \in [start : Nat, end : Nat] : y.start \in Nat /\ y.end \in Nat
    OBVIOUS
  <2>6. \A i \in 1 .. Len(x) : x[i] \in [start : Nat, end : Nat]
    <3>1. PICK R : R = [start : Nat, end : Nat]
      OBVIOUS
    <3>2. x \in Seq(R)
      BY <2>3, <3>1 DEF InOrder
    <3>. QED  BY <3>1, <3>2, ElementOfSeq
  <2>. QED  BY <1>1, <1>3, <2>1, <2>3, <2>4, <2>5, <2>6 DEF InOrder, ExtentsOf
<1>. QED  BY <1>2, <1>3

\* In front of the extent it is at, as far as the place reached, there is only padding to write.
LEMMA GapWanted ==
  ASSUME CallGood(call, out), AtExtent
  PROVE  /\ Gap \in Nat /\ Gap <= call.size /\ call.inPos + Gap <= Extent.start
         /\ Gap = call.size \/ call.inPos + Gap = Extent.start
         /\ \A p \in Nat : call.offset <= p /\ p < call.offset + Gap =>
              p \in DOMAIN call.wanted /\ call.wanted[p] = call.value
<1>1. call.pc = "extent" /\ call.e <= Len(call.exts) /\ call.size > 0
  BY DEF AtExtent
<1>2. PICK s \in Nat, o \in Nat, k \in Nat, t \in Nat, first \in Nat :
        /\ s = call.size /\ o = call.offset /\ k = call.inPos /\ k <= o /\ t = s + k /\ first = o - k
        /\ call.value \in Values /\ (call.sub # NoSub => IsFile(call.sub))
        /\ call.wanted = WantedBy(call.sub, t, first, call.value)
  BY <1>1, CallParts
<1>3. /\ call.e \in 1 .. Len(call.exts) + 1 /\ Len(call.exts) \in Nat
      /\ \A i \in 1 .. Len(call.exts) : /\ call.exts[i].start \in Nat /\ call.exts[i].end \in Nat
                                        /\ call.exts[i].start <= call.exts[i].end
      /\ \A i, j \in 1 .. Len(call.exts) : i < j => call.exts[i].end <= call.exts[j].start
      /\ call.sub # NoSub /\ call.exts = MapFileExtents(call.sub, t)
  <2>1. call.exts # << >>
    BY <1>1, CallExtents
  <2>. QED  BY <1>1, <1>2, <2>1, CallExtents
<1> DEFINE x == call.exts
<1>4. PICK e \in Nat : e = call.e
  BY <1>3
<1>5. k <= x[e].start /\ x[e].start \in Nat /\ e \in 1 .. Len(x) /\ Extent = x[e]
  <2>1. e \in 1 .. Len(x) /\ Extent = x[e] /\ e \in e .. Len(x)
    BY <1>1, <1>3, <1>4 DEF Extent
  <2>2. \A i \in call.e .. Len(call.exts) : call.inPos <= call.exts[i].start
    BY <1>1 DEF CallGood
  <2>3. call.inPos <= call.exts[e].start
    BY <1>4, <2>1, <2>2
  <2>. QED  BY <1>2, <1>3, <2>1, <2>3
<1>6. PICK a \in Nat : a = x[e].start - k
  BY <1>5
<1>7. PICK g : g = Min({a, s})
  OBVIOUS
<1>8. Gap = g
  BY <1>2, <1>5, <1>6, <1>7 DEF Gap
<1>9. g = IF a <= s THEN a ELSE s
  BY <1>7, MinOfTwo
<1>10. ASSUME NEW p \in Nat, o <= p, p < o + g
       PROVE  p \in DOMAIN call.wanted /\ call.wanted[p] = call.value
  <2>1. PICK u \in Nat : u = p - first /\ k <= u /\ u < k + g
    BY <1>2, <1>6, <1>9, <1>10
  <2>2. first <= p /\ p < first + t
    BY <1>2, <1>6, <1>9, <1>10
  <2>3. u < call.sub.size => ~InExtents(x, u)
    <3> SUFFICES ASSUME u < call.sub.size, NEW i \in 1 .. Len(x), x[i].start <= u, u < x[i].end PROVE FALSE
      BY <1>3, <1>4, <1>5 DEF InExtents
    <3>1. CASE i < e
      <4>1. DoneWith(call, i)
        BY <1>1, <1>3, <1>4, <3>1 DEF CallGood, ExtentsOf
      <4>2. PICK length \in Nat, to \in Nat : length = call.sub.size /\ to = x[i].end
        BY <1>2, <1>3, <1>4 DEF IsFile
      <4>3. to <= k \/ length <= k
        BY <1>2, <1>4, <4>1, <4>2 DEF DoneWith
      <4>4. u < length /\ u < to
        BY <4>2
      <4>. QED  BY <2>1, <4>3, <4>4
    <3>2. CASE i >= e
      <4>1. x[e].start <= x[i].start
        <5>1. CASE i = e
          BY <1>3, <1>4, <5>1
        <5>2. CASE i > e
          <6>1. x[e].start \in Nat /\ x[e].end \in Nat /\ x[i].start \in Nat /\ x[e].start <= x[e].end
            BY <1>3, <1>4, <1>5
          <6>2. x[e].end <= x[i].start
            BY <1>3, <1>4, <1>5, <5>2
          <6>. QED  BY <6>1, <6>2
        <5>. QED  BY <3>2, <5>1, <5>2
      <4>2. PICK from \in Nat, begin \in Nat : from = x[i].start /\ begin = x[e].start
        BY <1>3, <1>4, <1>5
      <4>3. from <= u /\ begin <= from /\ a = begin - k
        BY <1>6, <4>1, <4>2
      <4>. QED  BY <1>9, <2>1, <4>3
    <3>. QED  BY <3>1, <3>2
  <2>4. p - first = u /\ MapFileExtents(call.sub, t) = x
    BY <1>3, <1>4, <2>1
  <2>5. (call.sub # NoSub => IsFile(call.sub)) /\ call.value \in Values
    BY <1>2
  <2>6. /\ p \in DOMAIN WantedBy(call.sub, t, first, call.value)
        /\ WantedBy(call.sub, t, first, call.value)[p] = WantedUnit(call.sub, t, first, call.value, p)
    BY ONLY <2>2, <2>5, t \in Nat, first \in Nat, p \in Nat, WantedAt
  <2>. QED  BY <1>2, <2>3, <2>4, <2>6 DEF WantedUnit
<1>11. PICK begin \in Nat : begin = Extent.start
  BY <1>5
<1>12. a = begin - k
  BY <1>5, <1>6, <1>11
<1>13. g \in Nat /\ g <= s /\ k + g <= begin /\ (g = s \/ k + g = begin)
  BY <1>9, <1>12
<1>. QED  BY <1>2, <1>8, <1>10, <1>11, <1>13

\* A buffer holds what the file has at the place reached, no more than is left of the extent and the
\* range; it is empty only behind the end of the file.
LEMMA PieceWanted ==
  ASSUME CallGood(call, out), MoreInExtent
  PROVE  /\ Piece \in Seq(Values) /\ Len(Piece) <= call.size /\ call.inPos + Len(Piece) <= Extent.end
         /\ Piece = << >> => call.sub.size <= call.inPos
         /\ \A p \in Nat : call.offset <= p /\ p < call.offset + Len(Piece) =>
              p \in DOMAIN call.wanted /\ call.wanted[p] = Piece[p - call.offset + 1]
<1>1. call.pc = "copy" /\ call.inPos < Extent.end /\ call.size > 0
  BY DEF MoreInExtent
<1>2. PICK s \in Nat, o \in Nat, k \in Nat, t \in Nat, first \in Nat :
        /\ s = call.size /\ o = call.offset /\ k = call.inPos /\ k <= o /\ t = s + k /\ first = o - k
        /\ call.value \in Values /\ (call.sub # NoSub => IsFile(call.sub))
        /\ call.wanted = WantedBy(call.sub, t, first, call.value)
  BY <1>1, CallParts
<1>3. call.e \in 1 .. Len(call.exts) /\ Len(call.exts) \in Nat /\ Extent.start <= k /\ k < Extent.end
  <2>1. InExtent(call)
    BY <1>1 DEF CallGood
  <2>. QED  BY <1>1, <1>2, <2>1, CallExtents DEF InExtent, Extent
<1>4. call.sub # NoSub /\ call.exts = MapFileExtents(call.sub, t)
  <2>1. call.exts # << >>
    BY <1>3
  <2>. QED  BY <1>1, <1>2, <2>1, CallExtents
<1>5. PICK begin \in Nat, to \in Nat : begin = Extent.start /\ to = Extent.end /\ begin <= k /\ k < to
  BY <1>1, <1>3, CallExtents DEF Extent
<1> DEFINE f == call.sub
<1>6. PICK length \in Nat : length = f.size /\ IsFile(f) /\ f.at \in [0 .. length - 1 -> Values]
  BY <1>2, <1>4 DEF IsFile
<1>7. PICK a \in Nat, b \in Nat, z \in Nat : a = to - k /\ a > 0 /\ b = Buf /\ b > 0 /\ z = s /\ z > 0
  <2>1. PICK a \in Nat, b \in Nat : a = to - k /\ a > 0 /\ b = Buf /\ b > 0
    BY <1>5, InsertImageAssumption
  <2>2. s > 0
    BY <1>1, <1>2
  <2>. QED  BY <2>1, <2>2
<1>8. PICK w : w = Min({a, b, z})
  OBVIOUS
<1>9. w \in Nat /\ w > 0 /\ w <= a /\ w <= z
  <2>1. a \in Int /\ b \in Int /\ z \in Int
    OBVIOUS
  <2>2. w \in {a, b, z} /\ w <= a /\ w <= z
    BY <1>8, <2>1, MinOfThree
  <2>. QED  BY <1>7, <2>2
<1>10. Wish = w
  BY <1>2, <1>5, <1>7, <1>8 DEF Wish
<1>11. PICK r \in Nat : r = IF length > k THEN length - k ELSE 0
  BY <1>2, <1>6
<1>12. PICK n : n = Min({w, r})
  OBVIOUS
<1>13. n \in Nat /\ n <= w /\ n <= r /\ (n = w \/ n = r)
  BY <1>9, <1>11, <1>12, MinOfTwo
<1>14. PICK piece : piece = [i \in 1 .. n |-> f.at[k + i - 1]]
  OBVIOUS
<1>15. Piece = piece
  <2>1. Min({Wish, IF f.size > k THEN f.size - k ELSE 0}) = n
    BY <1>6, <1>10, <1>11, <1>12
  <2>2. Piece = LET m == Min({Wish, IF f.size > k THEN f.size - k ELSE 0}) IN [i \in 1 .. m |-> f.at[k + i - 1]]
    BY <1>2, <1>6, Zenon DEF Piece
  <2>. QED  BY <1>14, <2>1, <2>2
<1>16. \A i \in 1 .. n : f.at[k + i - 1] \in Values
  <2> SUFFICES ASSUME NEW i \in 1 .. n PROVE f.at[k + i - 1] \in Values
    OBVIOUS
  <2>1. k + i - 1 \in 0 .. length - 1
    BY <1>11, <1>13
  <2>. QED  BY <1>6, <2>1
<1>17. piece \in Seq(Values) /\ Len(piece) = n
  BY <1>13, <1>14, <1>16
<1>18. ASSUME NEW p \in Nat, o <= p, p < o + n
       PROVE  p \in DOMAIN call.wanted /\ call.wanted[p] = piece[p - o + 1]
  <2>1. PICK u \in Nat : u = p - first /\ k <= u /\ u < k + n
    BY <1>2, <1>13, <1>18
  <2>2. first <= p /\ p < first + t
    BY <1>2, <1>7, <1>9, <1>13, <1>18
  <2>3. begin <= u /\ u < to
    BY <1>5, <1>7, <1>9, <1>13, <2>1
  <2>4. InExtents(MapFileExtents(f, t), u)
    <3>1. PICK i \in 1 .. Len(call.exts) : i = call.e
      BY <1>3
    <3>2. call.exts[i].start <= u /\ u < call.exts[i].end /\ i \in DOMAIN call.exts
      <4>1. DOMAIN call.exts = 1 .. Len(call.exts)
        BY <1>4, <1>6, ExtentsInOrder DEF InOrder
      <4>. QED  BY <1>5, <2>3, <3>1, <4>1 DEF Extent
    <3>. QED  BY <1>4, <1>6, <3>2 DEF InExtents
  <2>5. u < length
    BY <1>11, <1>13, <2>1
  <2>6. call.wanted[p] = f.at[u] /\ p \in DOMAIN call.wanted
    <3>1. p - first = u /\ f # NoSub
      BY <1>4, <1>6, <2>1
    <3>2. call.wanted = WantedBy(f, t, first, call.value)
      BY <1>2, <1>6
    <3>3. /\ p \in DOMAIN WantedBy(f, t, first, call.value)
          /\ WantedBy(f, t, first, call.value)[p] = WantedUnit(f, t, first, call.value, p)
      <4>1. (f # NoSub => IsFile(f)) /\ call.value \in Values
        BY <1>2, <1>6
      <4>. QED  BY ONLY <2>2, <4>1, t \in Nat, first \in Nat, p \in Nat, WantedAt
    <3>. QED  BY <1>6, <2>4, <2>5, <3>1, <3>2, <3>3 DEF WantedUnit
  <2>7. p - o + 1 \in 1 .. n /\ k + (p - o + 1) - 1 = u
    BY <1>2, <1>13, <1>18, <2>1
  <2>8. piece[p - o + 1] = f.at[k + (p - o + 1) - 1]
    BY <1>14, <2>7
  <2>. QED  BY <2>6, <2>7, <2>8
<1>19. piece = << >> => length <= k
  BY <1>9, <1>11, <1>13, <1>17
<1>20. n <= s /\ k + n <= to
  BY <1>5, <1>7, <1>9, <1>13
<1>. QED  BY <1>2, <1>5, <1>6, <1>15, <1>17, <1>18, <1>19, <1>20

\* Behind the last extent there is only padding left to write.
LEMMA RestWanted ==
  ASSUME CallGood(call, out), call.pc = "extent", ~AtExtent
  PROVE  \A p \in Nat : call.offset <= p /\ p < call.offset + call.size =>
           p \in DOMAIN call.wanted /\ call.wanted[p] = call.value
<1>2. PICK s \in Nat, o \in Nat, k \in Nat, t \in Nat, first \in Nat :
        /\ s = call.size /\ o = call.offset /\ k = call.inPos /\ k <= o /\ t = s + k /\ first = o - k
        /\ call.value \in Values /\ (call.sub # NoSub => IsFile(call.sub))
        /\ call.wanted = WantedBy(call.sub, t, first, call.value)
  BY CallParts
<1>3. /\ call.e \in 1 .. Len(call.exts) + 1 /\ Len(call.exts) \in Nat
      /\ call.sub # NoSub => call.exts = MapFileExtents(call.sub, t)
      /\ \A i \in 1 .. Len(call.exts) : call.exts[i].end \in Nat
  BY <1>2, CallExtents
<1> SUFFICES ASSUME NEW p \in Nat, o <= p, p < o + s
             PROVE  p \in DOMAIN call.wanted /\ call.wanted[p] = call.value
  BY <1>2
<1>4. s > 0
  BY <1>2
<1>5. call.e = Len(call.exts) + 1
  <2>1. call.size > 0
    BY <1>2, <1>4
  <2>2. ~(call.e <= Len(call.exts))
    BY <2>1 DEF AtExtent
  <2>. QED  BY <1>3, <2>2
<1>6. PICK u \in Nat : u = p - first /\ k <= u
  BY <1>2
<1>7. first <= p /\ p < first + t
  BY <1>2
<1>8. ASSUME call.sub # NoSub, u < call.sub.size PROVE ~InExtents(MapFileExtents(call.sub, t), u)
  <2>1. PICK length \in Nat : length = call.sub.size
    BY <1>2, <1>8 DEF IsFile
  <2>2. DOMAIN call.exts = 1 .. Len(call.exts)
    BY <1>2, <1>3, <1>8, ExtentsInOrder DEF InOrder
  <2>3. ASSUME NEW i \in 1 .. Len(call.exts), u < call.exts[i].end PROVE FALSE
    <3>1. DoneWith(call, i)
      BY <1>2, <1>3, <1>4, <1>5 DEF CallGood, ExtentsOf
    <3>2. PICK to \in Nat : to = call.exts[i].end
      BY <1>3
    <3>3. to <= k \/ length <= k
      BY <1>2, <2>1, <3>1, <3>2 DEF DoneWith
    <3>4. u < to /\ u < length
      BY <1>8, <2>1, <2>3, <3>2
    <3>. QED  BY <1>6, <3>3, <3>4
  <2>. QED  BY <1>3, <1>8, <2>2, <2>3 DEF InExtents
<1>9. p - first = u
  BY <1>6
<1>10. /\ p \in DOMAIN WantedBy(call.sub, t, first, call.value)
       /\ WantedBy(call.sub, t, first, call.value)[p] = WantedUnit(call.sub, t, first, call.value, p)
  <2>1. (call.sub # NoSub => IsFile(call.sub)) /\ call.value \in Values
    BY <1>2
  <2>. QED  BY ONLY <1>7, <2>1, t \in Nat, first \in Nat, p \in Nat, WantedAt
<1>. QED  BY <1>2, <1>8, <1>9, <1>10 DEF WantedUnit

-----------------------------------------------------------------------------
(***************************************************************************)
(* The steps of a call.                                                    *)
(***************************************************************************)
\* What a step does: it writes units of the range, each as it is to be, and nothing else.
StepWrites ==
  /\ IsFile(out') /\ out'.device = out.device
  /\ call'.pc \in {"extent", "copy", "ok", "failed"}
  /\ call'.wanted = call.wanted /\ call'.sub = call.sub /\ call'.value = call.value
  /\ call'.offset \in Nat /\ call'.size \in Nat /\ call'.offset + call'.size = call.offset + call.size
  /\ \A p \in Nat : Unit(out', p) # Unit(out, p) =>
       p \in DOMAIN call.wanted /\ Unit(out', p) = call.wanted[p]

\* As long as it does not fail the file ends where it ended, or at the place reached.
StepGrows ==
  call'.pc # "failed" =>
    /\ Reached(call') >= Reached(call)
    /\ out'.size = IF Reached(call') > Reached(call) /\ Reached(call') > out.size
                   THEN Reached(call') ELSE out.size

StepGood == CallGood(call', out') /\ StepWrites /\ StepGrows

\* A call moved on by n units, at pc, is the same call.
MovedOn(n, pc) ==
  CallOf(pc, call.sub, call.size - n, call.offset + n, call.value, call.inPos + n, call.exts, call.e,
         call.wanted, call.plain)

LEMMA AdvancedCall ==
  ASSUME CallGood(call, out), call.pc # "none", NEW n \in Nat, n <= call.size, NEW pc
  PROVE  /\ [Advanced(n) EXCEPT !.pc = pc] = MovedOn(n, pc) /\ Advanced(n) = MovedOn(n, call.pc)
         /\ [call EXCEPT !.pc = pc] = MovedOn(0, pc)
         /\ ShapeOf(MovedOn(n, pc)) /\ ArgumentsOf(MovedOn(n, pc))
<1>1. PICK p0, sub, size, offset, value, inPos, xs, e, w, pl :
        call = CallOf(p0, sub, size, offset, value, inPos, xs, e, w, pl)
  BY DEF CallGood, ShapeOf
<1>2. ArgumentsOf(call)
  BY DEF CallGood
<1>3. size \in Nat /\ offset \in Nat /\ inPos \in Nat /\ inPos <= offset /\ n <= size
  BY <1>1, <1>2 DEF ArgumentsOf, CallOf
<1>4. PICK s \in Nat, o \in Nat, k \in Nat : s = size - n /\ o = offset + n /\ k = inPos + n
  BY <1>3
<1>5. MovedOn(n, pc) = CallOf(pc, sub, s, o, value, k, xs, e, w, pl)
  BY <1>1, <1>4 DEF MovedOn, CallOf
<1>6. Advanced(n) = CallOf(p0, sub, s, o, value, k, xs, e, w, pl)
  <2>1. Advanced(n) = [call EXCEPT !.size = call.size - n, !.offset = call.offset + n, !.inPos = call.inPos + n]
    BY Zenon DEF Advanced
  <2>2. call.size - n = s /\ call.offset + n = o /\ call.inPos + n = k
    BY <1>1, <1>4 DEF CallOf
  <2>3. Advanced(n) = [call EXCEPT !.size = s, !.offset = o, !.inPos = k]
    BY <2>1, <2>2, Zenon
  <2>. QED  BY <1>1, <2>3 DEF CallOf
<1>7. [Advanced(n) EXCEPT !.pc = pc] = MovedOn(n, pc)
  BY <1>5, <1>6 DEF CallOf
<1>8. Advanced(n) = MovedOn(n, call.pc)
  BY <1>1, <1>4, <1>6 DEF MovedOn, CallOf
<1>9. [call EXCEPT !.pc = pc] = MovedOn(0, pc)
  <2>1. size - 0 = size /\ offset + 0 = offset /\ inPos + 0 = inPos
    BY <1>3
  <2>2. MovedOn(0, pc) = CallOf(pc, sub, size, offset, value, inPos, xs, e, w, pl)
    BY <1>1, <2>1 DEF MovedOn, CallOf
  <2>. QED  BY <1>1, <2>2 DEF CallOf
<1>10. ShapeOf(MovedOn(n, pc))
  BY <1>5 DEF ShapeOf, CallOf
<1>11. ArgumentsOf(MovedOn(n, pc))
  <2>1. PICK c : c = MovedOn(n, pc)
    OBVIOUS
  <2>2. c.size = s /\ c.offset = o /\ c.inPos = k /\ c.value = value /\ c.sub = sub /\ c.wanted = w
    BY <1>5, <2>1 DEF CallOf
  <2>3. s + k = size + inPos /\ o - k = offset - inPos /\ k <= o
    BY <1>3, <1>4
  <2>4. w = WantedBy(sub, size + inPos, offset - inPos, value) /\ (sub # NoSub => IsFile(sub)) /\ value \in Values
    BY <1>1, <1>2 DEF ArgumentsOf, CallOf
  <2>. QED  BY <2>1, <2>2, <2>3, <2>4 DEF ArgumentsOf
<1>. QED  BY <1>7, <1>8, <1>9, <1>10, <1>11

\* What was written stays written, and what is written now is as it is to be.
LEMMA WriteAdvances ==
  ASSUME CallGood(call, out), Busy, NEW n \in Nat, n <= call.size, NEW f,
         \A p \in Nat : Unit(f, p) = IF call.offset <= p /\ p < call.offset + n
                                     THEN call.wanted[p] ELSE Unit(out, p)
  PROVE  /\ \A p \in Nat : call.offset - call.inPos <= p /\ p < call.offset + n => Unit(f, p) = call.wanted[p]
         /\ \A p \in Nat : Unit(f, p) # Unit(out, p) => p \in DOMAIN call.wanted /\ Unit(f, p) = call.wanted[p]
<1>1. call.pc # "none" /\ call.pc # "ok" /\ WrittenSoFar(call, out)
  BY DEF CallGood, Busy
<1>2. PICK s \in Nat, o \in Nat, k \in Nat, t \in Nat, first \in Nat :
        /\ s = call.size /\ o = call.offset /\ k = call.inPos /\ k <= o /\ t = s + k /\ first = o - k
        /\ call.value \in Values /\ (call.sub # NoSub => IsFile(call.sub))
        /\ call.wanted = WantedBy(call.sub, t, first, call.value)
  BY <1>1, CallParts
<1>3. \A p \in Nat : first <= p /\ p < o => Unit(out, p) = call.wanted[p]
  BY <1>1, <1>2 DEF WrittenSoFar, Reached
<1>4. DOMAIN call.wanted = first .. first + t - 1
  <2>1. (call.sub # NoSub => IsFile(call.sub)) /\ call.value \in Values
    BY <1>2
  <2>2. /\ DOMAIN WantedBy(call.sub, t, first, call.value) = first .. first + t - 1
        /\ WantedBy(call.sub, t, first, call.value) \in [first .. first + t - 1 -> Values]
    BY ONLY <2>1, t \in Nat, first \in Nat, WantedType
  <2>. QED  BY <1>2, <2>2
<1>5. \A p \in Nat : o <= p /\ p < o + n => p \in DOMAIN call.wanted
  <2>1. n <= s /\ first <= o /\ first + t = o + s
    BY <1>2
  <2>. QED  BY <1>4, <2>1
<1>. QED  BY <1>2, <1>3, <1>5

LEMMA MovedFields ==
  ASSUME NEW n, NEW pc
  PROVE  /\ MovedOn(n, pc).pc = pc /\ MovedOn(n, pc).sub = call.sub /\ MovedOn(n, pc).size = call.size - n
         /\ MovedOn(n, pc).offset = call.offset + n /\ MovedOn(n, pc).value = call.value
         /\ MovedOn(n, pc).inPos = call.inPos + n /\ MovedOn(n, pc).exts = call.exts
         /\ MovedOn(n, pc).e = call.e /\ MovedOn(n, pc).wanted = call.wanted
BY DEF MovedOn, CallOf

\* The extents stay, and those done with are done with further on.
LEMMA MovedExtents ==
  ASSUME CallGood(call, out), call.pc \in {"extent", "copy"}, NEW n \in Nat, n <= call.size, NEW pc
  PROVE  ExtentsOf(MovedOn(n, pc))
<1>1. PICK s \in Nat, o \in Nat, k \in Nat, t \in Nat, first \in Nat :
        /\ s = call.size /\ o = call.offset /\ k = call.inPos /\ k <= o /\ t = s + k /\ first = o - k
        /\ call.value \in Values /\ (call.sub # NoSub => IsFile(call.sub))
        /\ call.wanted = WantedBy(call.sub, t, first, call.value)
  BY CallParts
<1>2. PICK c : c = MovedOn(n, pc)
  OBVIOUS
<1>3. /\ c.sub = call.sub /\ c.size = s - n /\ c.inPos = k + n /\ c.exts = call.exts /\ c.e = call.e
  BY <1>1, <1>2, MovedFields
<1>4. ExtentsOf(call)
  BY DEF CallGood
<1>5. c.size + c.inPos = t /\ call.size + call.inPos = t
  BY <1>1, <1>3
<1>6. ASSUME c.size > 0, NEW i \in 1 .. c.e - 1 PROVE DoneWith(c, i)
  <2>1. call.size > 0
    BY <1>1, <1>3, <1>6
  <2>2. DoneWith(call, i)
    BY <1>3, <1>4, <1>6, <2>1 DEF ExtentsOf
  <2>3. i \in 1 .. Len(call.exts) /\ call.exts # << >>
    BY <1>3, <1>6, CallExtents
  <2>4. PICK to \in Nat, length \in Nat : to = call.exts[i].end /\ length = call.sub.size
    BY <1>1, <2>3, CallExtents DEF IsFile
  <2>5. to <= k \/ length <= k
    BY <1>1, <2>2, <2>4 DEF DoneWith
  <2>6. to <= k + n \/ length <= k + n
    BY <2>5
  <2>. QED  BY <1>3, <2>4, <2>6 DEF DoneWith
<1>. QED  BY <1>2, <1>3, <1>4, <1>5, <1>6 DEF ExtentsOf

LEMMA OpenStep ==
  ASSUME CallGood(call, out), IsFile(out), OpenFiles
  PROVE  StepGood
<1>1. call.pc = "open" /\ out' = out
  BY DEF OpenFiles
<1>2. PICK s \in Nat, o \in Nat, k \in Nat, t \in Nat, first \in Nat :
        /\ s = call.size /\ o = call.offset /\ k = call.inPos /\ k <= o /\ t = s + k /\ first = o - k
        /\ call.value \in Values /\ (call.sub # NoSub => IsFile(call.sub))
        /\ call.wanted = WantedBy(call.sub, t, first, call.value)
  BY <1>1, CallParts
<1>3. k = 0 /\ call.e = 1 /\ t = s
  BY <1>1, <1>2 DEF CallGood
<1>4. PICK x : x = IF call.sub = NoSub THEN << >> ELSE MapFileExtents(call.sub, t)
  OBVIOUS
<1>5. call' = [call EXCEPT !.pc = "extent", !.exts = x]
  BY <1>2, <1>3, <1>4 DEF OpenFiles
<1>6. call' = CallOf("extent", call.sub, call.size, call.offset, call.value, call.inPos, x, call.e,
                     call.wanted, call.plain)
  <2>1. PICK p0, sub, size, offset, value, inPos, xs, e, w, pl :
          call = CallOf(p0, sub, size, offset, value, inPos, xs, e, w, pl)
    BY DEF CallGood, ShapeOf
  <2>. QED  BY <1>5, <2>1 DEF CallOf
<1>7. /\ call'.pc = "extent" /\ call'.sub = call.sub /\ call'.size = s /\ call'.offset = o
      /\ call'.value = call.value /\ call'.inPos = k /\ call'.exts = x /\ call'.e = 1
      /\ call'.wanted = call.wanted
  BY <1>2, <1>3, <1>6 DEF CallOf
<1>8. ShapeOf(call')
  BY <1>6 DEF ShapeOf, CallOf
<1>9. ArgumentsOf(call')
  BY <1>2, <1>7 DEF ArgumentsOf
<1>10. Len(x) \in Nat /\ \A i \in 1 .. Len(x) : x[i].start \in Nat
  <2>1. CASE call.sub = NoSub
    BY <1>4, <2>1
  <2>2. CASE call.sub # NoSub
    <3>1. InOrder(x, t)
      BY <1>2, <1>4, <2>2, ExtentsInOrder
    <3>2. PICK R : R = [start : Nat, end : Nat]
      OBVIOUS
    <3>3. \A i \in 1 .. Len(x) : x[i] \in R
      BY <3>1, <3>2, ElementOfSeq DEF InOrder
    <3>. QED  BY <3>1, <3>2, <3>3 DEF InOrder
  <2>. QED  BY <2>1, <2>2
<1>11. ExtentsOf(call')
  BY <1>2, <1>3, <1>4, <1>7, <1>10 DEF ExtentsOf
<1>12. \A i \in 1 .. Len(x) : k <= x[i].start
  BY <1>3, <1>10
<1>13. \A p \in Nat : ~(call'.offset - call'.inPos <= p /\ p < call'.offset)
  BY <1>2, <1>3, <1>7
<1>14. CallGood(call', out')
  <2>1. WrittenSoFar(call', out')
    BY <1>7, <1>13 DEF WrittenSoFar, Reached
  <2>. QED  BY <1>7, <1>8, <1>9, <1>11, <1>12, <2>1 DEF CallGood
<1>15. StepWrites
  BY <1>1, <1>2, <1>7 DEF StepWrites
<1>16. StepGrows
  BY <1>1, <1>2, <1>7 DEF StepGrows, Reached
<1>. QED  BY <1>14, <1>15, <1>16 DEF StepGood

\* A step that writes n units and moves on by them.
LEMMA MovedStep ==
  ASSUME CallGood(call, out), IsFile(out), call.pc \in {"extent", "copy"}, NEW n \in Nat, n <= call.size,
         NEW pc \in {"extent", "copy"}, call' = MovedOn(n, pc),
         IsFile(out'), out'.device = out.device,
         out'.size = IF n > 0 /\ call.offset + n > out.size THEN call.offset + n ELSE out.size,
         \A p \in Nat : Unit(out', p) = IF call.offset <= p /\ p < call.offset + n
                                        THEN call.wanted[p] ELSE Unit(out, p)
  PROVE  /\ StepWrites /\ StepGrows
         /\ ShapeOf(call') /\ ArgumentsOf(call') /\ ExtentsOf(call') /\ WrittenSoFar(call', out')
<1>1. PICK s \in Nat, o \in Nat, k \in Nat, t \in Nat, first \in Nat :
        /\ s = call.size /\ o = call.offset /\ k = call.inPos /\ k <= o /\ t = s + k /\ first = o - k
        /\ call.value \in Values /\ (call.sub # NoSub => IsFile(call.sub))
        /\ call.wanted = WantedBy(call.sub, t, first, call.value)
  BY CallParts
<1>2. /\ call'.pc = pc /\ call'.sub = call.sub /\ call'.size = s - n /\ call'.offset = o + n
      /\ call'.value = call.value /\ call'.inPos = k + n /\ call'.wanted = call.wanted
  BY <1>1, MovedFields
<1>3. ShapeOf(call') /\ ArgumentsOf(call')
  BY AdvancedCall
<1>4. ExtentsOf(call')
  BY MovedExtents
<1>5. PICK f : f = out'
  OBVIOUS
<1>6. Busy
  BY DEF Busy
<1>7. /\ \A p \in Nat : call.offset - call.inPos <= p /\ p < call.offset + n => Unit(f, p) = call.wanted[p]
      /\ \A p \in Nat : Unit(f, p) # Unit(out, p) => p \in DOMAIN call.wanted /\ Unit(f, p) = call.wanted[p]
  BY <1>5, <1>6, WriteAdvances
<1>8. WrittenSoFar(call', out')
  BY <1>1, <1>2, <1>5, <1>7 DEF WrittenSoFar, Reached
<1>9. StepWrites
  <2>1. call'.offset \in Nat /\ call'.size \in Nat /\ call'.offset + call'.size = call.offset + call.size
    BY <1>1, <1>2
  <2>. QED  BY <1>2, <1>5, <1>7, <2>1 DEF StepWrites
<1>10. StepGrows
  <2>1. Reached(call') = o + n /\ Reached(call) = o
    BY <1>1, <1>2 DEF Reached
  <2>2. out.size \in Nat
    BY DEF IsFile
  <2>. QED  BY <1>1, <2>1, <2>2 DEF StepGrows
<1>. QED  BY <1>3, <1>4, <1>8, <1>9, <1>10

LEMMA GapStep ==
  ASSUME CallGood(call, out), IsFile(out), WriteGap
  PROVE  StepGood
<1>1. call.pc = "extent" /\ call.e <= Len(call.exts) /\ call.size > 0 /\ AtExtent
  BY DEF WriteGap, AtExtent
<1>2. PICK s \in Nat, o \in Nat, k \in Nat, t \in Nat, first \in Nat :
        /\ s = call.size /\ o = call.offset /\ k = call.inPos /\ k <= o /\ t = s + k /\ first = o - k
        /\ call.value \in Values /\ (call.sub # NoSub => IsFile(call.sub))
        /\ call.wanted = WantedBy(call.sub, t, first, call.value)
  BY <1>1, CallParts
<1>3. PICK g \in Nat : /\ g = Gap /\ g <= s /\ k + g <= Extent.start /\ (g = s \/ k + g = Extent.start)
                       /\ \A p \in Nat : o <= p /\ p < o + g => call.wanted[p] = call.value
  BY <1>1, <1>2, GapWanted
<1>4. call' = MovedOn(g, "copy")
  <2>1. call' = [Advanced(g) EXCEPT !.pc = "copy"]
    BY <1>3 DEF WriteGap
  <2>. QED  BY <1>1, <1>2, <1>3, <2>1, AdvancedCall
<1>5. PICK f : f = out'
  OBVIOUS
<1>6. /\ IsFile(f) /\ f.device = out.device
      /\ f.size = IF g > 0 /\ o + g > out.size THEN o + g ELSE out.size
      /\ \A u \in Nat : Unit(f, u) = IF o <= u /\ u < o + g THEN call.value ELSE Unit(out, u)
  <2>1. f = WriteBytes(out, g, o, call.value)
    BY <1>2, <1>3, <1>5 DEF WriteGap
  <2>2. PICK v \in Values : v = call.value
    BY <1>2
  <2>. QED  BY <2>1, <2>2, WriteBytesFile
<1>7. /\ StepWrites /\ StepGrows
      /\ ShapeOf(call') /\ ArgumentsOf(call') /\ ExtentsOf(call') /\ WrittenSoFar(call', out')
  <2>1. /\ IsFile(out') /\ out'.device = out.device
        /\ out'.size = IF g > 0 /\ call.offset + g > out.size THEN call.offset + g ELSE out.size
    BY <1>2, <1>5, <1>6
  <2>2. \A p \in Nat : Unit(out', p) = IF call.offset <= p /\ p < call.offset + g
                                       THEN call.wanted[p] ELSE Unit(out, p)
    BY <1>2, <1>3, <1>5, <1>6
  <2>3. "copy" \in {"extent", "copy"} /\ call.pc \in {"extent", "copy"} /\ g <= call.size
    BY <1>1, <1>2, <1>3
  <2>. QED  BY <1>4, <2>1, <2>2, <2>3, MovedStep
<1>8. /\ call'.pc = "copy" /\ call'.size = s - g /\ call'.inPos = k + g /\ call'.exts = call.exts
      /\ call'.e = call.e
  BY <1>2, <1>4, MovedFields
<1>9. InExtent(call')
  <2>1. call.e \in 1 .. Len(call.exts) /\ Len(call.exts) \in Nat
    BY <1>1, CallExtents
  <2>2. PICK begin \in Nat, to \in Nat : begin = Extent.start /\ to = Extent.end /\ begin <= to
    BY <1>1, <2>1, CallExtents DEF Extent
  <2>3. s - g > 0 => begin <= k + g /\ k + g <= to
    BY <1>3, <2>2
  <2>. QED  BY <1>1, <1>8, <2>2, <2>3 DEF InExtent, Extent
<1>10. CallGood(call', out')
  BY <1>7, <1>8, <1>9 DEF CallGood
<1>. QED  BY <1>7, <1>10 DEF StepGood

LEMMA CopyStep ==
  ASSUME CallGood(call, out), IsFile(out), CopyBuffer
  PROVE  StepGood
<1>1. call.pc = "copy" /\ call.inPos < Extent.end /\ call.size > 0 /\ MoreInExtent
  BY DEF CopyBuffer, MoreInExtent
<1>2. PICK s \in Nat, o \in Nat, k \in Nat, t \in Nat, first \in Nat :
        /\ s = call.size /\ o = call.offset /\ k = call.inPos /\ k <= o /\ t = s + k /\ first = o - k
        /\ call.value \in Values /\ (call.sub # NoSub => IsFile(call.sub))
        /\ call.wanted = WantedBy(call.sub, t, first, call.value)
  BY <1>1, CallParts
<1>3. PICK data \in Seq(Values) : /\ data = Piece /\ Len(data) <= s /\ k + Len(data) <= Extent.end
                                  /\ \A p \in Nat : o <= p /\ p < o + Len(data) => call.wanted[p] = data[p - o + 1]
  BY <1>1, <1>2, PieceWanted
<1>4. PICK n \in Nat : n = Len(data) /\ n > 0
  <2>1. data # << >>
    BY <1>3 DEF CopyBuffer
  <2>. QED  BY <2>1
<1>5. call' = MovedOn(n, "copy")
  <2>1. call' = Advanced(n)
    BY <1>3, <1>4 DEF CopyBuffer
  <2>. QED  BY <1>1, <1>2, <1>3, <1>4, <2>1, AdvancedCall
<1>6. PICK f : f = out'
  OBVIOUS
<1>7. /\ IsFile(f) /\ f.device = out.device
      /\ f.size = IF o + n > out.size THEN o + n ELSE out.size
      /\ \A u \in Nat : Unit(f, u) = IF o <= u /\ u < o + n THEN data[u - o + 1] ELSE Unit(out, u)
  <2>1. f = Written(out, o, data)
    BY <1>2, <1>3, <1>6 DEF CopyBuffer
  <2>2. /\ IsFile(f) /\ f.device = out.device
        /\ f.size = IF o + Len(data) > out.size THEN o + Len(data) ELSE out.size
        /\ \A u \in Nat : Unit(f, u) = IF o <= u /\ u < o + Len(data) THEN data[u - o + 1] ELSE Unit(out, u)
    <3>1. /\ IsFile(Written(out, o, data)) /\ Written(out, o, data).device = out.device
          /\ Written(out, o, data).size = IF o + Len(data) > out.size THEN o + Len(data) ELSE out.size
          /\ \A u \in Nat : Unit(Written(out, o, data), u) =
               IF o <= u /\ u < o + Len(data) THEN data[u - o + 1] ELSE Unit(out, u)
      BY ONLY IsFile(out), o \in Nat, data \in Seq(Values), WrittenFile
    <3>. QED  BY <2>1, <3>1, Zenon
  <2>. QED  BY <1>4, <2>2
<1>8. /\ StepWrites /\ StepGrows
      /\ ShapeOf(call') /\ ArgumentsOf(call') /\ ExtentsOf(call') /\ WrittenSoFar(call', out')
  <2>1. /\ IsFile(out') /\ out'.device = out.device
        /\ out'.size = IF n > 0 /\ call.offset + n > out.size THEN call.offset + n ELSE out.size
    BY <1>2, <1>4, <1>6, <1>7
  <2>2. \A p \in Nat : Unit(out', p) = IF call.offset <= p /\ p < call.offset + n
                                       THEN call.wanted[p] ELSE Unit(out, p)
    BY <1>2, <1>3, <1>4, <1>6, <1>7
  <2>3. "copy" \in {"extent", "copy"} /\ call.pc \in {"extent", "copy"} /\ n <= call.size
    BY <1>1, <1>2, <1>3, <1>4
  <2>. QED  BY <1>5, <2>1, <2>2, <2>3, MovedStep
<1>9. /\ call'.pc = "copy" /\ call'.size = s - n /\ call'.inPos = k + n /\ call'.exts = call.exts
      /\ call'.e = call.e
  <2>1. PICK c : c = MovedOn(n, "copy")
    OBVIOUS
  <2>2. /\ c.pc = "copy" /\ c.size = call.size - n /\ c.inPos = call.inPos + n /\ c.exts = call.exts
        /\ c.e = call.e
    BY <2>1, MovedFields
  <2>. QED  BY <1>2, <1>5, <2>1, <2>2
<1>10. InExtent(call')
  <2>1. InExtent(call)
    BY <1>1 DEF CallGood
  <2>2. call.e \in 1 .. Len(call.exts) /\ Len(call.exts) \in Nat
    BY <1>1, <2>1, CallExtents DEF InExtent
  <2>3. PICK begin \in Nat, to \in Nat : begin = Extent.start /\ to = Extent.end
    BY <1>1, <2>2, CallExtents DEF Extent
  <2>4. begin <= k
    BY <1>1, <1>2, <2>1, <2>3 DEF InExtent, Extent
  <2>5. begin <= k + n /\ k + n <= to
    BY <1>3, <1>4, <2>3, <2>4
  <2>. QED  BY <1>9, <2>2, <2>3, <2>5 DEF InExtent, Extent
<1>11. CallGood(call', out')
  BY <1>8, <1>9, <1>10 DEF CallGood
<1>. QED  BY <1>8, <1>11 DEF StepGood

LEMMA NextExtentStep ==
  ASSUME CallGood(call, out), IsFile(out), NextExtent
  PROVE  StepGood
<1>1. call.pc = "copy" /\ out' = out
  BY DEF NextExtent
<1>2. PICK s \in Nat, o \in Nat, k \in Nat, t \in Nat, first \in Nat :
        /\ s = call.size /\ o = call.offset /\ k = call.inPos /\ k <= o /\ t = s + k /\ first = o - k
        /\ call.value \in Values /\ (call.sub # NoSub => IsFile(call.sub))
        /\ call.wanted = WantedBy(call.sub, t, first, call.value)
  BY <1>1, CallParts
<1>3. ExtentsOf(call) /\ ArgumentsOf(call) /\ InExtent(call) /\ WrittenSoFar(call, out)
  BY <1>1 DEF CallGood
<1>4. PICK e \in Nat : e = call.e /\ e \in 1 .. Len(call.exts) /\ Len(call.exts) \in Nat
  BY <1>1, <1>3, CallExtents DEF InExtent
<1>5. call' = CallOf("extent", call.sub, call.size, call.offset, call.value, call.inPos, call.exts, e + 1,
                     call.wanted, call.plain)
  <2>1. PICK p0, sub, size, offset, value, inPos, xs, e0, w, pl :
          call = CallOf(p0, sub, size, offset, value, inPos, xs, e0, w, pl)
    BY DEF CallGood, ShapeOf
  <2>2. PICK e2 : e2 = e + 1
    OBVIOUS
  <2>3. call' = [call EXCEPT !.pc = "extent", !.e = e2]
    <3>1. call' = [call EXCEPT !.pc = "extent", !.e = call.e + 1]
      BY Zenon DEF NextExtent
    <3>. QED  BY <1>4, <2>2, <3>1
  <2>. QED  BY <2>1, <2>2, <2>3 DEF CallOf
<1>6. /\ call'.pc = "extent" /\ call'.sub = call.sub /\ call'.size = s /\ call'.offset = o
      /\ call'.value = call.value /\ call'.inPos = k /\ call'.exts = call.exts /\ call'.e = e + 1
      /\ call'.wanted = call.wanted
  BY <1>2, <1>5 DEF CallOf
<1>7. ShapeOf(call')
  BY <1>5 DEF ShapeOf, CallOf
<1>8. ArgumentsOf(call')
  BY <1>2, <1>6 DEF ArgumentsOf
<1>9. ASSUME s > 0 PROVE call.exts[e].end <= k \/ call.sub.size <= k
  <2>1. Extent = call.exts[e] /\ call.exts[e].end \in Nat
    BY <1>1, <1>4, CallExtents DEF Extent
  <2>2. CASE MoreInExtent
    <3>1. Piece = << >>
      BY <2>2 DEF NextExtent
    <3>. QED  BY <1>2, <2>2, <3>1, PieceWanted
  <2>3. CASE ~MoreInExtent
    <3>1. ~(k < call.exts[e].end)
      BY <1>1, <1>2, <1>9, <2>1, <2>3 DEF MoreInExtent
    <3>. QED  BY <2>1, <3>1
  <2>. QED  BY <2>2, <2>3
<1>10. ExtentsOf(call')
  <2>1. ASSUME s > 0, NEW i \in 1 .. e PROVE DoneWith(call', i)
    <3>1. call.exts[i].end <= k \/ call.sub.size <= k
      <4>1. CASE i = e
        BY <1>9, <2>1, <4>1
      <4>2. CASE i # e
        <5>1. i \in 1 .. call.e - 1 /\ call.size > 0
          BY <1>2, <1>4, <2>1, <4>2
        <5>2. DoneWith(call, i)
          BY <1>3, <5>1 DEF ExtentsOf
        <5>. QED  BY <1>2, <5>2 DEF DoneWith
      <4>. QED  BY <4>1, <4>2
    <3>. QED  BY <1>6, <3>1 DEF DoneWith
  <2>2. call'.e \in 1 .. Len(call.exts) + 1 /\ call'.e - 1 = e
    BY <1>4, <1>6
  <2>. QED  BY <1>2, <1>3, <1>6, <2>1, <2>2 DEF ExtentsOf
<1>11. ASSUME s > 0, NEW i \in e + 1 .. Len(call.exts) PROVE k <= call.exts[i].start
  <2>1. i \in 1 .. Len(call.exts) /\ e < i
    BY <1>4, <1>11
  <2>2. PICK to \in Nat, begin \in Nat : to = call.exts[e].end /\ begin = call.exts[i].start /\ to <= begin
    BY <1>1, <1>4, <2>1, CallExtents
  <2>3. k <= to
    BY <1>2, <1>3, <1>4, <1>11, <2>2 DEF InExtent
  <2>. QED  BY <2>2, <2>3
<1>12. WrittenSoFar(call', out')
  BY <1>1, <1>2, <1>3, <1>6 DEF WrittenSoFar, Reached
<1>13. CallGood(call', out')
  BY <1>6, <1>7, <1>8, <1>10, <1>11, <1>12 DEF CallGood
<1>14. StepWrites
  BY <1>1, <1>2, <1>6 DEF StepWrites
<1>15. StepGrows
  BY <1>1, <1>2, <1>6 DEF StepGrows, Reached
<1>. QED  BY <1>13, <1>14, <1>15 DEF StepGood

LEMMA FillStep ==
  ASSUME CallGood(call, out), IsFile(out), Fill
  PROVE  StepGood
<1>1. call.pc = "extent" /\ ~AtExtent
  BY DEF Fill
<1>2. PICK s \in Nat, o \in Nat, k \in Nat, t \in Nat, first \in Nat :
        /\ s = call.size /\ o = call.offset /\ k = call.inPos /\ k <= o /\ t = s + k /\ first = o - k
        /\ call.value \in Values /\ (call.sub # NoSub => IsFile(call.sub))
        /\ call.wanted = WantedBy(call.sub, t, first, call.value)
  BY <1>1, CallParts
<1>3. \A p \in Nat : o <= p /\ p < o + s => call.wanted[p] = call.value
  BY <1>1, <1>2, RestWanted
<1>4. call' = MovedOn(0, "ok") /\ ShapeOf(call') /\ ArgumentsOf(call')
  <2>1. PICK q : q = "ok"
    OBVIOUS
  <2>2. PICK z \in Nat : z = 0
    OBVIOUS
  <2>3. call' = [call EXCEPT !.pc = q] /\ z <= call.size /\ call.pc # "none"
    BY <1>1, <1>2, <2>1, <2>2 DEF Fill
  <2>4. [call EXCEPT !.pc = q] = MovedOn(0, q) /\ ShapeOf(MovedOn(z, q)) /\ ArgumentsOf(MovedOn(z, q))
    BY <2>3, AdvancedCall
  <2>. QED  BY <2>1, <2>2, <2>3, <2>4
<1>5. /\ call'.pc = "ok" /\ call'.sub = call.sub /\ call'.size = s /\ call'.offset = o
      /\ call'.value = call.value /\ call'.inPos = k /\ call'.wanted = call.wanted
  <2>1. PICK c, z : c = MovedOn(z, "ok") /\ z = 0
    OBVIOUS
  <2>2. /\ c.pc = "ok" /\ c.sub = call.sub /\ c.size = call.size - z /\ c.offset = call.offset + z
        /\ c.value = call.value /\ c.inPos = call.inPos + z /\ c.wanted = call.wanted
    BY <2>1, MovedFields
  <2>3. call.size - z = s /\ call.offset + z = o /\ call.inPos + z = k
    BY <1>2, <2>1
  <2>. QED  BY <1>4, <2>1, <2>2, <2>3
<1>6. PICK f : f = out'
  OBVIOUS
<1>7. /\ IsFile(f) /\ f.device = out.device
      /\ f.size = IF s > 0 /\ o + s > out.size THEN o + s ELSE out.size
      /\ \A u \in Nat : Unit(f, u) = IF o <= u /\ u < o + s THEN call.value ELSE Unit(out, u)
  <2>1. f = WriteBytes(out, s, o, call.value)
    BY <1>2, <1>6 DEF Fill
  <2>2. PICK v \in Values : v = call.value
    BY <1>2
  <2>. QED  BY <2>1, <2>2, WriteBytesFile
<1>8. \A p \in Nat : Unit(f, p) = IF call.offset <= p /\ p < call.offset + s
                                  THEN call.wanted[p] ELSE Unit(out, p)
  BY <1>2, <1>3, <1>7
<1>9. /\ \A p \in Nat : call.offset - call.inPos <= p /\ p < call.offset + s => Unit(f, p) = call.wanted[p]
      /\ \A p \in Nat : Unit(f, p) # Unit(out, p) => p \in DOMAIN call.wanted /\ Unit(f, p) = call.wanted[p]
  <2>1. Busy /\ s <= call.size
    BY <1>1, <1>2 DEF Busy
  <2>. QED  BY <1>8, <2>1, WriteAdvances
<1>10. CallGood(call', out')
  <2>1. Reached(call') = o + s
    BY <1>5 DEF Reached
  <2>2. WrittenSoFar(call', out')
    BY <1>2, <1>5, <1>6, <1>9, <2>1 DEF WrittenSoFar
  <2>. QED  BY <1>4, <1>5, <2>2 DEF CallGood
<1>11. StepWrites
  BY <1>2, <1>5, <1>6, <1>7, <1>9 DEF StepWrites
<1>12. StepGrows
  <2>1. Reached(call') = o + s /\ Reached(call) = o
    BY <1>1, <1>2, <1>5 DEF Reached
  <2>2. out.size \in Nat
    BY DEF IsFile
  <2>. QED  BY <1>2, <1>6, <1>7, <2>1, <2>2 DEF StepGrows
<1>. QED  BY <1>10, <1>11, <1>12 DEF StepGood

\* What a failing step writes is the beginning of what it would have written.
LEMMA FailStep ==
  ASSUME CallGood(call, out), IsFile(out), InsertFails
  PROVE  StepGood
<1>1. Busy /\ call.pc \in {"open", "extent", "copy"} /\ call.pc # "none"
  BY DEF InsertFails, Busy
<1>2. PICK s \in Nat, o \in Nat, k \in Nat, t \in Nat, first \in Nat :
        /\ s = call.size /\ o = call.offset /\ k = call.inPos /\ k <= o /\ t = s + k /\ first = o - k
        /\ call.value \in Values /\ (call.sub # NoSub => IsFile(call.sub))
        /\ call.wanted = WantedBy(call.sub, t, first, call.value)
  BY <1>1, CallParts
<1>3. call' = MovedOn(0, "failed") /\ ShapeOf(call') /\ ArgumentsOf(call')
  <2>1. PICK q : q = "failed"
    OBVIOUS
  <2>2. PICK z \in Nat : z = 0
    OBVIOUS
  <2>3. call' = [call EXCEPT !.pc = q] /\ z <= call.size /\ call.pc # "none"
    BY <1>1, <1>2, <2>1, <2>2 DEF InsertFails
  <2>4. [call EXCEPT !.pc = q] = MovedOn(0, q) /\ ShapeOf(MovedOn(z, q)) /\ ArgumentsOf(MovedOn(z, q))
    BY <2>3, AdvancedCall
  <2>. QED  BY <2>1, <2>2, <2>3, <2>4
<1>4. /\ call'.pc = "failed" /\ call'.sub = call.sub /\ call'.size = s /\ call'.offset = o
      /\ call'.value = call.value /\ call'.inPos = k /\ call'.wanted = call.wanted
  <2>1. PICK c, z : c = MovedOn(z, "failed") /\ z = 0
    OBVIOUS
  <2>2. /\ c.pc = "failed" /\ c.sub = call.sub /\ c.size = call.size - z /\ c.offset = call.offset + z
        /\ c.value = call.value /\ c.inPos = call.inPos + z /\ c.wanted = call.wanted
    BY <2>1, MovedFields
  <2>3. call.size - z = s /\ call.offset + z = o /\ call.inPos + z = k
    BY <1>2, <2>1
  <2>. QED  BY <1>3, <2>1, <2>2, <2>3
<1>5. \A v \in Values, n \in Nat : /\ Repeated(v, n) \in Seq(Values) /\ Len(Repeated(v, n)) = n
                                   /\ \A i \in 1 .. n : Repeated(v, n)[i] = v
  BY DEF Repeated
<1>6. PICK data \in Seq(Values) :
        /\ data = Partial /\ Len(data) <= s
        /\ \A p \in Nat : o <= p /\ p < o + Len(data) => call.wanted[p] = data[p - o + 1]
  <2>1. CASE AtExtent
    <3>1. PICK g \in Nat : /\ g = Gap /\ g <= s
                           /\ \A p \in Nat : o <= p /\ p < o + g => call.wanted[p] = call.value
      BY <1>2, <2>1, GapWanted
    <3>2. PICK data \in Seq(Values) : data = Repeated(call.value, g) /\ Len(data) = g
                                      /\ \A i \in 1 .. g : data[i] = call.value
      <4>1. call.value \in Values
        BY <1>2
      <4>2. /\ Repeated(call.value, g) \in Seq(Values) /\ Len(Repeated(call.value, g)) = g
            /\ \A i \in 1 .. g : Repeated(call.value, g)[i] = call.value
        BY <1>5, <4>1
      <4>. QED  BY <4>2
    <3>3. Partial = data
      BY <2>1, <3>1, <3>2 DEF Partial
    <3>4. \A p \in Nat : o <= p /\ p < o + g => data[p - o + 1] = call.value
      BY <3>2
    <3>. QED  BY <3>1, <3>2, <3>3, <3>4
  <2>2. CASE ~AtExtent /\ MoreInExtent
    <3>1. Partial = Piece
      BY <2>2 DEF Partial
    <3>. QED  BY <1>2, <2>2, <3>1, PieceWanted
  <2>3. CASE ~AtExtent /\ ~MoreInExtent /\ call.pc = "extent"
    <3>1. \A p \in Nat : o <= p /\ p < o + s => call.wanted[p] = call.value
      BY <1>2, <2>3, RestWanted
    <3>2. PICK data \in Seq(Values) : data = Repeated(call.value, s) /\ Len(data) = s
                                      /\ \A i \in 1 .. s : data[i] = call.value
      <4>1. call.value \in Values
        BY <1>2
      <4>2. /\ Repeated(call.value, s) \in Seq(Values) /\ Len(Repeated(call.value, s)) = s
            /\ \A i \in 1 .. s : Repeated(call.value, s)[i] = call.value
        BY <1>5, <4>1
      <4>. QED  BY <4>2
    <3>3. Partial = data
      BY <1>2, <2>3, <3>2 DEF Partial
    <3>4. \A p \in Nat : o <= p /\ p < o + s => data[p - o + 1] = call.value
      BY <3>2
    <3>. QED  BY <3>1, <3>2, <3>3, <3>4
  <2>4. CASE ~AtExtent /\ ~MoreInExtent /\ call.pc # "extent"
    <3>1. Partial = << >>
      BY <2>4 DEF Partial
    <3>2. PICK data \in Seq(Values) : data = << >> /\ Len(data) = 0
      <4>1. << >> \in Seq(Values) /\ Len(<< >>) = 0
        OBVIOUS
      <4>. QED  BY <4>1, Zenon
    <3>3. \A p \in Nat : ~(o <= p /\ p < o + Len(data))
      BY <3>2
    <3>4. data = Partial /\ Len(data) <= s
      BY <3>1, <3>2
    <3>. QED  BY <3>3, <3>4
  <2>. QED  BY <2>1, <2>2, <2>3, <2>4
<1>7. PICK n \in 0 .. Len(data) : out' = IF n = 0 THEN out ELSE Written(out, o, SubSeq(data, 1, n))
  BY <1>2, <1>6 DEF InsertFails
<1>8. n \in Nat /\ n <= s /\ n <= Len(data)
  BY <1>6, <1>7
<1>9. PICK f : f = out'
  OBVIOUS
<1>10. /\ IsFile(f) /\ f.device = out.device
       /\ \A p \in Nat : Unit(f, p) = IF o <= p /\ p < o + n THEN call.wanted[p] ELSE Unit(out, p)
  <2>1. CASE n = 0
    <3>1. f = out /\ \A p \in Nat : ~(o <= p /\ p < o + n)
      BY <1>2, <1>7, <1>9, <2>1
    <3>. QED  BY <3>1
  <2>2. CASE n # 0
    <3>1. PICK piece \in Seq(Values) : piece = SubSeq(data, 1, n) /\ Len(piece) = n
                                       /\ \A i \in 1 .. n : piece[i] = data[i]
      <4>1. 1 \in 1 .. Len(data) + 1 /\ n \in 0 .. Len(data)
        BY <1>6, <1>8
      <4>2. SubSeq(data, 1, n) = [i \in 1 .. n |-> data[i]]
        BY <1>6, <1>8
      <4>3. \A i \in 1 .. n : data[i] \in Values
        BY <1>6, <1>8
      <4>4. SubSeq(data, 1, n) \in [1 .. n -> Values]
        BY <4>2, <4>3
      <4>5. \A y \in [1 .. n -> Values] : y \in Seq(Values) /\ Len(y) = n
        BY <1>8
      <4>. QED  BY <4>2, <4>4, <4>5
    <3>2. f = Written(out, o, piece)
      BY <1>7, <1>9, <2>2, <3>1
    <3>3. /\ IsFile(Written(out, o, piece)) /\ Written(out, o, piece).device = out.device
          /\ Written(out, o, piece).size = IF o + Len(piece) > out.size THEN o + Len(piece) ELSE out.size
          /\ \A u \in Nat : Unit(Written(out, o, piece), u) =
               IF o <= u /\ u < o + Len(piece) THEN piece[u - o + 1] ELSE Unit(out, u)
      BY ONLY IsFile(out), o \in Nat, piece \in Seq(Values), WrittenFile
    <3>4. /\ IsFile(f) /\ f.device = out.device
          /\ \A u \in Nat : Unit(f, u) = IF o <= u /\ u < o + Len(piece) THEN piece[u - o + 1] ELSE Unit(out, u)
      BY <3>2, <3>3, Zenon
    <3>5. \A p \in Nat : o <= p /\ p < o + n => piece[p - o + 1] = call.wanted[p]
      <4> SUFFICES ASSUME NEW p \in Nat, o <= p, p < o + n PROVE piece[p - o + 1] = call.wanted[p]
        OBVIOUS
      <4>1. p - o + 1 \in 1 .. n /\ p < o + Len(data)
        BY <1>8
      <4>. QED  BY <1>6, <3>1, <4>1
    <3>. QED  BY <3>1, <3>4, <3>5
  <2>. QED  BY <2>1, <2>2
<1>11. \A p \in Nat : Unit(f, p) # Unit(out, p) => p \in DOMAIN call.wanted /\ Unit(f, p) = call.wanted[p]
  <2>1. n <= call.size /\ \A p \in Nat : Unit(f, p) = IF call.offset <= p /\ p < call.offset + n
                                                      THEN call.wanted[p] ELSE Unit(out, p)
    BY <1>2, <1>8, <1>10
  <2>. QED  BY <1>1, <1>8, <2>1, WriteAdvances
<1>12. StepWrites
  BY <1>2, <1>4, <1>9, <1>10, <1>11 DEF StepWrites
<1>13. CallGood(call', out')
  BY <1>3, <1>4 DEF CallGood
<1>14. StepGrows
  BY <1>4 DEF StepGrows
<1>. QED  BY <1>12, <1>13, <1>14 DEF StepGood

\* Every step of insert_image.
LEMMA InsertStepGood ==
  ASSUME CallGood(call, out), IsFile(out), InsertStep
  PROVE  StepGood
BY OpenStep, GapStep, CopyStep, NextExtentStep, FillStep, FailStep DEF InsertStep

-----------------------------------------------------------------------------
(***************************************************************************)
(* The invariant of the pipeline.                                          *)
(***************************************************************************)
Phases == {"file setup", "setup", "sparse setup", "file", "image", "sparse", "ok", "failed"}
FlashPhases == {"setup", "ready", "clear", "parts", "pad", "padded", "insert", "done", "refused", "failed"}

\* Where genimage is, and what cannot have happened there yet.
PhaseInv ==
  /\ cfg \in Configs /\ ppc \in Phases
  /\ sourceThere \in BOOLEAN /\ childThere \in BOOLEAN /\ childSize \in Nat
  /\ ppc \notin {"sparse", "ok", "failed"} => spc \in {"setup", "refused", "open"}

\* The size of the file image once it is set up.
Given == IF cfg.declared = 0 THEN StSize(Source) ELSE cfg.declared

LayoutInv ==
  /\ typed \in BOOLEAN /\ last \in BOOLEAN /\ parts \in Seq(Partition)
  /\ imageSize \in Nat /\ partsize \in Nat /\ end \in Nat /\ faults \in Nat
  /\ at \in 1 .. Len(parts) + 1 /\ fpc \in FlashPhases
  /\ cfg.kind = "hd" => parts = cfg.parts
  /\ cfg.kind # "flash" => fpc \in {"ready", "clear", "parts", "insert", "failed"}

\* The partitions that have their place, in order and behind one another.
NumPlaced == IF fpc = "setup" THEN at - 1 ELSE Len(parts)

PlacedInv ==
  cfg.kind = "flash" /\ fpc # "refused" =>
    /\ partsize = IF NumPlaced = 0 THEN 0 ELSE PartEnd(parts[NumPlaced])
    /\ fpc # "setup" => partsize <= FlashSize
    /\ \A i \in 1 .. NumPlaced :
         /\ PartEnd(parts[i]) <= partsize
         /\ \A j \in 1 .. i - 1 : PartEnd(parts[j]) <= parts[i].offset
         /\ parts[i].image # NoChild => Given <= parts[i].size
    /\ ppc = "setup" => childSize = Given

SubOf(p) == IF p.image = NoChild THEN NoSub ELSE Child

\* The call each step of the handlers waits for.
CallInv ==
  /\ IsFile(out) /\ CallGood(call, out)
  /\ fpc \in {"setup", "ready", "parts", "padded", "done"} => call.pc = "none"
  /\ fpc \in {"clear", "pad", "insert"} => call.pc # "none"
  /\ fpc \in {"pad", "padded", "insert"} => at <= Len(parts)
  /\ cfg.kind = "flash" =>
       /\ fpc = "pad" =>
            /\ end < Part.offset /\ call.offset + call.size = Part.offset
            /\ call.wanted = WantedBy(NoSub, Part.offset - end, end, Erased)
       /\ fpc = "insert" =>
            /\ call.offset + call.size = PartEnd(Part)
            /\ call.wanted = WantedBy(SubOf(Part), Part.size, Part.offset, Erased)

\* Where the partition before ends, and how far the flash image is filled and reaches.
EndBefore == IF at = 1 THEN 0 ELSE PartEnd(parts[at - 1])
Filled == IF fpc \in {"padded", "insert"} THEN Part.offset ELSE end
Reach == IF fpc \in {"pad", "insert"} THEN Reached(call) ELSE Filled

GapsErased == \A u \in Nat : u < Filled /\ ~InSomePart(u) => Unit(out, u) = Erased

FlashInv ==
  cfg.kind = "flash" =>
    /\ fpc \in {"setup", "ready", "clear"} => end = 0
    /\ fpc \in {"ready", "clear"} => at = 1
    /\ fpc = "clear" => out.device
    /\ fpc \in {"parts", "pad", "padded", "insert", "done"} =>
         /\ end = EndBefore
         /\ \A i \in 1 .. at - 1 : PartHolds(parts[i])
         /\ GapsErased
         /\ ~out.device /\ call.pc # "failed" =>
              out.size = IF imageSize >= Reach THEN imageSize ELSE Reach
    /\ fpc = "done" => at = Len(parts) + 1

ChunkRecord == [type : {RAW, FILL, DONTCARE, CRC32}, blocks : Nat, size : Nat, data : Seq(Values)]

\* The extents the sparse image is made of are extents of the input, and what is left to read of one is in it.
SparseInv ==
  /\ blockSize \in Nat /\ ei \in Nat \ {0} /\ left \in Nat /\ block \in Nat /\ pos \in Nat
  /\ spc \in {"setup", "refused", "open", "crash", "merge", "extent", "block", "ok", "failed"}
  /\ exts \in Seq([start : Nat, end : Nat])
  /\ chunks \in Seq(ChunkRecord)
  /\ ch \in [type : {"none", RAW, FILL}, blocks : Nat, size : Nat]
  /\ header \in [blocks : Nat, chunks : Nat]
  /\ crc \in Seq(Values)
  /\ spc \in {"merge", "extent", "block", "ok"} => blockSize > 0
  /\ spc \in {"merge", "extent", "block"} =>
       \A i \in 1 .. Len(exts) : exts[i].start <= exts[i].end /\ exts[i].end <= StSize(Input)
  /\ spc = "merge" => \A i, j \in 1 .. Len(exts) : i < j /\ ei <= j => exts[i].start <= exts[j].start
  /\ spc = "block" => ei <= Len(exts) /\ left <= Length(exts[ei])

Inv == PhaseInv /\ LayoutInv /\ PlacedInv /\ CallInv /\ FlashInv /\ SparseInv

\* What is known of a configuration.
LEMMA ConfigOf ==
  ASSUME cfg \in Configs
  PROVE  /\ cfg.kind \in Kinds /\ cfg.copy \in BOOLEAN /\ cfg.names \in Names
         /\ IsFile(Source) /\ Source # NoSub /\ IsFile(cfg.out) /\ cfg.declared \in Nat
         /\ cfg.typed \in BOOLEAN /\ cfg.imageSize \in Nat /\ cfg.blockSize \in Nat
         /\ cfg.parts \in Seq(Partition) /\ Source.size \in Nat /\ Given \in Nat
         /\ \A i \in DOMAIN cfg.parts : cfg.kind = "hd" => cfg.parts[i].offset + cfg.parts[i].size <= MaxPos + 1
BY ConfigsAssumption, PositionsAssumption, StSizeOf DEF Source, IsFile, Given

\* The file image is a file, as long as its input.
LEMMA ChildOf ==
  ASSUME cfg \in Configs
  PROVE  IsFile(Child) /\ Child # NoSub /\ Child.size = Source.size /\ Child.size \in Nat
<1>1. IsFile(Source) /\ Source # NoSub /\ Source.size \in Nat /\ Copied(Source) # NoSub
  BY ConfigOf, ConfigsAssumption DEF Source
<1>2. ASSUME Source.device PROVE IsFile(Copied(Source)) /\ Copied(Source).size = Source.size
  <2>1. PICK f : f = Source
    OBVIOUS
  <2>2. /\ f = [size |-> f.size, at |-> f.at, alloc |-> f.alloc, broken |-> f.broken, device |-> f.device]
        /\ f.at \in [0 .. f.size - 1 -> Values] /\ f.size \in Nat /\ f.broken \subseteq Nat
    BY <1>1, <2>1 DEF IsFile
  <2>3. PICK a, g : /\ a = BlocksOf(0 .. f.size - 1)
                   /\ g = [size |-> f.size, at |-> f.at, alloc |-> a, broken |-> f.broken, device |-> FALSE]
    OBVIOUS
  <2>4. Copied(f) = g
    <3>1. Copied(f) = [f EXCEPT !.device = FALSE, !.alloc = a]
      BY <1>2, <2>1, <2>3, Zenon DEF Copied
    <3>. QED  BY <2>2, <2>3, <3>1
  <2>5. \A u \in 0 .. f.size - 1 : u \div FsBlock \in BlocksOf(0 .. f.size - 1)
    BY DEF BlocksOf
  <2>6. IsFile(g)
    BY <2>2, <2>3, <2>5 DEF IsFile
  <2>. QED  BY <2>1, <2>3, <2>4, <2>6
<1>3. IsFile(Copied(Source)) /\ Copied(Source).size = Source.size
  BY <1>1, <1>2 DEF Copied
<1>. QED  BY <1>1, <1>3 DEF Child

LEMMA PartOf ==
  ASSUME parts \in Seq(Partition), NEW i \in 1 .. Len(parts)
  PROVE  /\ parts[i] \in Partition /\ parts[i].size \in Nat /\ parts[i].offset \in Nat
         /\ parts[i].image \in {"child", NoChild} /\ PartEnd(parts[i]) \in Nat
         /\ PartEnd(parts[i]) = parts[i].offset + parts[i].size
<1>1. parts[i] \in Partition
  BY ElementOfSeq
<1>2. \A p \in Partition : p.size \in Nat /\ p.offset \in Nat /\ p.image \in {"child", NoChild}
  BY DEF Partition
<1>. QED  BY <1>1, <1>2 DEF PartEnd

LEMMA NoCallGood == \A f : CallGood(NoCall, f)
BY DEF CallGood, NoCall, ShapeOf, CallOf

\* The invariant holds at the start.
LEMMA InitInv == Init => Inv
<1> SUFFICES ASSUME Init PROVE Inv
  OBVIOUS
<1>1. cfg \in Configs
  BY DEF Init
<1>2. /\ ppc = "file setup" /\ sourceThere \in BOOLEAN /\ childSize = 0 /\ childThere = FALSE
      /\ typed = cfg.typed /\ parts = cfg.parts /\ imageSize = cfg.imageSize
      /\ fpc = (IF cfg.kind = "flash" THEN "setup" ELSE "ready")
      /\ at = 1 /\ partsize = 0 /\ last = FALSE /\ end = 0
      /\ out = cfg.out /\ call = NoCall /\ faults = 0
  BY DEF Init
<1>3. /\ blockSize = cfg.blockSize /\ spc = "setup"
      /\ exts = << >> /\ ei = 1 /\ left = 0 /\ block = 0
      /\ chunks = << >> /\ ch = NoChunk /\ pos = 1
      /\ header = [blocks |-> 0, chunks |-> 0] /\ crc = << >>
  BY DEF Init
<1>4. PhaseInv
  BY <1>1, <1>2, <1>3 DEF PhaseInv, Phases
<1>5. LayoutInv
  <2>1. 1 \in 1 .. Len(parts) + 1
    <3>1. parts \in Seq(Partition)
      BY <1>1, <1>2, ConfigOf
    <3>2. Len(parts) \in Nat
      BY <3>1
    <3>. QED  BY <3>2
  <2>. QED  BY <1>1, <1>2, <2>1, ConfigOf DEF LayoutInv, FlashPhases
<1>6. PlacedInv
  <2> SUFFICES ASSUME cfg.kind = "flash" PROVE PlacedInv
    BY DEF PlacedInv
  <2>1. NumPlaced = 0 /\ fpc = "setup" /\ ppc # "setup" /\ partsize = 0
    <3>1. fpc = "setup" /\ at = 1
      BY <1>2
    <3>2. NumPlaced = 1 - 1
      BY <3>1 DEF NumPlaced
    <3>3. ppc # "setup" /\ partsize = 0
      BY <1>2
    <3>. QED  BY <3>1, <3>2, <3>3
  <2>2. \A i \in 1 .. 0 : FALSE
    OBVIOUS
  <2>. QED  BY <2>1, <2>2 DEF PlacedInv
<1>7. CallInv
  BY <1>1, <1>2, ConfigOf, NoCallGood DEF CallInv, NoCall
<1>8. FlashInv
  BY <1>2 DEF FlashInv
<1>9. SparseInv
  <2>1. /\ << >> \in Seq([start : Nat, end : Nat]) /\ << >> \in Seq(ChunkRecord) /\ << >> \in Seq(Values)
    OBVIOUS
  <2>2. NoChunk \in [type : {"none", RAW, FILL}, blocks : Nat, size : Nat]
    BY DEF NoChunk
  <2>3. [blocks |-> 0, chunks |-> 0] \in [blocks : Nat, chunks : Nat]
    OBVIOUS
  <2>. QED  BY <1>1, <1>3, <2>1, <2>2, <2>3, ConfigOf DEF SparseInv
<1>. QED  BY <1>4, <1>5, <1>6, <1>7, <1>8, <1>9 DEF Inv

-----------------------------------------------------------------------------
(***************************************************************************)
(* The flash image and the hdimage.                                        *)
(***************************************************************************)
Core == cfg \in Configs /\ childSize \in Nat /\ LayoutInv /\ PlacedInv /\ CallInv /\ FlashInv

\* Steps that are not about the image that is put together.
LEMMA CoreFrame ==
  ASSUME Core, cfg' = cfg, childSize' \in Nat, UNCHANGED <<flash, out, call, faults>>,
         ppc' = "setup" /\ cfg.kind = "flash" /\ fpc # "refused" => childSize' = Given
  PROVE  Core'
<1>1. /\ typed' = typed /\ parts' = parts /\ imageSize' = imageSize /\ fpc' = fpc /\ at' = at
      /\ partsize' = partsize /\ last' = last /\ end' = end /\ out' = out /\ call' = call /\ faults' = faults
  BY DEF flash
<1>2. LayoutInv'
  BY <1>1 DEF Core, LayoutInv
<1>3. PlacedInv'
  BY <1>1 DEF Core, PlacedInv, NumPlaced, Given, Source
<1>4. CallInv'
  BY <1>1 DEF Core, CallInv, Part, SubOf, Child, Source
<1>5. FlashInv'
  <2>1. PICK c : c = Child
    OBVIOUS
  <2>2. Child' = c
    BY <2>1 DEF Child, Source
  <2>3. \A p : PartHolds(p)' <=> PartHolds(p)
    BY <1>1, <2>1, <2>2 DEF PartHolds
  <2>4. /\ EndBefore' = EndBefore /\ Filled' = Filled /\ Reach' = Reach /\ (GapsErased' <=> GapsErased)
    BY <1>1 DEF EndBefore, GapsErased, Filled, Reach, Part, InSomePart
  <2>. QED  BY <1>1, <2>3, <2>4 DEF Core, FlashInv
<1>. QED  BY <1>2, <1>3, <1>4, <1>5 DEF Core

\* The partitions before the one the handler is at end where it begins, or before.
LEMMA PlacedBefore ==
  ASSUME Core, cfg.kind = "flash", fpc \notin {"setup", "refused"}
  PROVE  /\ Len(parts) \in Nat /\ EndBefore \in Nat /\ EndBefore <= partsize
         /\ \A i \in 1 .. at - 1 : PartEnd(parts[i]) <= EndBefore
         /\ at <= Len(parts) =>
              /\ Part \in Partition /\ Part.size \in Nat /\ Part.offset \in Nat /\ PartEnd(Part) \in Nat
              /\ PartEnd(Part) = Part.offset + Part.size
              /\ EndBefore <= Part.offset /\ PartEnd(Part) <= partsize
         /\ at = Len(parts) + 1 => EndBefore = partsize
         /\ partsize <= FlashSize
<1>1. /\ parts \in Seq(Partition) /\ at \in 1 .. Len(parts) + 1 /\ partsize \in Nat
      /\ NumPlaced = Len(parts)
  BY DEF Core, LayoutInv, NumPlaced
<1>2. PICK n \in Nat : n = Len(parts)
  BY <1>1
<1>3. /\ partsize = IF n = 0 THEN 0 ELSE PartEnd(parts[n])
      /\ partsize <= FlashSize
      /\ \A i \in 1 .. n : /\ PartEnd(parts[i]) <= partsize
                           /\ \A j \in 1 .. i - 1 : PartEnd(parts[j]) <= parts[i].offset
  BY <1>1, <1>2 DEF Core, PlacedInv
<1>4. \A i \in 1 .. n : /\ parts[i] \in Partition /\ parts[i].size \in Nat /\ parts[i].offset \in Nat
                        /\ PartEnd(parts[i]) \in Nat /\ PartEnd(parts[i]) = parts[i].offset + parts[i].size
  BY <1>1, <1>2, PartOf
<1>5. CASE at = 1
  BY <1>1, <1>2, <1>3, <1>4, <1>5 DEF EndBefore, Part
<1>6. CASE at # 1
  <2>1. PICK b \in 1 .. n : b = at - 1
    BY <1>1, <1>2, <1>6
  <2>2. EndBefore = PartEnd(parts[b]) /\ at = b + 1 /\ b \in Nat
    BY <1>1, <1>6, <2>1 DEF EndBefore
  <2>3. \A i \in 1 .. b : PartEnd(parts[i]) <= PartEnd(parts[b])
    <3> SUFFICES ASSUME NEW i \in 1 .. b, i # b PROVE PartEnd(parts[i]) <= PartEnd(parts[b])
      BY <1>4
    <3>1. i \in 1 .. b - 1 /\ i \in 1 .. n
      BY <2>1
    <3>2. PartEnd(parts[i]) <= parts[b].offset
      BY <1>3, <2>1, <3>1
    <3>. QED  BY <1>4, <2>1, <3>1, <3>2
  <2>4. \A i \in 1 .. at - 1 : PartEnd(parts[i]) <= EndBefore
    BY <2>2, <2>3
  <2>5. at <= n => EndBefore <= Part.offset
    BY <1>3, <2>1, <2>2 DEF Part
  <2>6. at = n + 1 => EndBefore = partsize
    BY <1>3, <2>1, <2>2
  <2>7. at <= n => at \in 1 .. n
    BY <2>1, <2>2
  <2>. QED  BY <1>2, <1>3, <1>4, <2>1, <2>2, <2>4, <2>5, <2>6, <2>7 DEF Part
<1>. QED  BY <1>5, <1>6

\* What the steps of the image keep.
Same == cfg' = cfg /\ childSize' = childSize /\ (ppc' = "setup" => ppc = "setup")

\* flash_setup gives the partition it is at its place behind the ones before it.
LEMMA PartPlaced ==
  ASSUME Core, Same, ppc = "setup", FlashSetupPart(childSize), ~PartRefused(Part, childSize), UNCHANGED <<out, call, faults>>
  PROVE  Core'
<1>1. /\ fpc = "setup" /\ cfg.kind = "flash" /\ fpc' = fpc /\ typed' = typed /\ imageSize' = imageSize /\ end' = end
      /\ out' = out /\ call' = call /\ faults' = faults
      /\ parts' = [parts EXCEPT ![at].size = Size(Part), ![at].offset = Offset(Part)]
      /\ last' = (last \/ Part.size = 0) /\ partsize' = Offset(Part) + Size(Part) /\ at' = at + 1
  BY DEF FlashSetupPart, Core, LayoutInv
<1>2. /\ parts \in Seq(Partition) /\ at \in 1 .. Len(parts) + 1 /\ at <= Len(parts) /\ partsize \in Nat
      /\ typed \in BOOLEAN /\ last \in BOOLEAN
      /\ imageSize \in Nat /\ end \in Nat /\ faults \in Nat
  BY DEF Core, LayoutInv, FlashSetupPart
<1>3. PICK n, a \in Nat : n = Len(parts) /\ a = at /\ a \in 1 .. n
  BY <1>2
<1>4. /\ Part = parts[a] /\ parts[a] \in Partition /\ Part.size \in Nat /\ Part.offset \in Nat
      /\ Part.image \in {"child", NoChild}
  BY <1>2, <1>3, PartOf DEF Part
<1>5. FlashSize \in Nat /\ Given \in Nat /\ childSize = Given /\ childSize \in Nat
  BY <1>1, FlashAssumption, ConfigOf DEF FlashSize, Core, PlacedInv
<1>6. PICK s, o \in Nat : s = Size(Part) /\ o = Offset(Part) /\ partsize <= o /\ (Part.image # NoChild => Given <= s)
  <2>1. /\ Part.size = 0 => partsize <= FlashSize
        /\ Part.offset # 0 => partsize <= Part.offset
        /\ Part.image # NoChild => childSize <= Size(Part)
    <3>1. /\ ~(Part.size = 0 /\ partsize > FlashSize)
          /\ ~(Part.offset # 0 /\ partsize > Part.offset)
          /\ ~(Part.image # NoChild /\ childSize > Size(Part))
      BY Zenon DEF PartRefused
    <3>2. Size(Part) \in Int
      BY <1>2, <1>4, <1>5 DEF Size
    <3>. QED  BY <1>2, <1>4, <1>5, <3>1, <3>2
  <2>2. Size(Part) \in Nat
    BY <1>2, <1>4, <1>5, <2>1 DEF Size
  <2>3. Offset(Part) \in Nat /\ partsize <= Offset(Part)
    BY <1>2, <1>4, <2>1 DEF Offset
  <2>. QED  BY <1>5, <2>1, <2>2, <2>3
<1>7. PICK q : q = [size |-> s, offset |-> o, image |-> Part.image]
  OBVIOUS
<1>8. parts' = [parts EXCEPT ![a] = q]
  <2>1. parts[a] = [size |-> Part.size, offset |-> Part.offset, image |-> Part.image]
    BY <1>4 DEF Partition
  <2>2. parts' = [[parts EXCEPT ![a].size = s] EXCEPT ![a].offset = o]
    BY <1>1, <1>3, <1>6
  <2>3. PICK r : r = [parts EXCEPT ![a].size = s]
    OBVIOUS
  <2>4. r = [parts EXCEPT ![a] = [size |-> s, offset |-> Part.offset, image |-> Part.image]]
    <3>1. [parts[a] EXCEPT !.size = s] = [size |-> s, offset |-> Part.offset, image |-> Part.image]
      BY <2>1
    <3>. QED  BY <2>3, <3>1, Zenon
  <2>5. a \in DOMAIN parts
    BY <1>2, <1>3
  <2>6. r[a] = [size |-> s, offset |-> Part.offset, image |-> Part.image]
    BY <2>4, <2>5
  <2>7. [r[a] EXCEPT !.offset = o] = q
    BY <1>7, <2>6
  <2>8. parts' = [r EXCEPT ![a] = q]
    BY <2>2, <2>3, <2>7
  <2>. QED  BY <2>4, <2>8
<1>9. q \in Partition /\ q.size = s /\ q.offset = o /\ q.image = Part.image /\ PartEnd(q) = o + s
  BY <1>4, <1>7 DEF Partition, PartEnd
<1>10. /\ parts' \in Seq(Partition) /\ Len(parts') = n /\ parts'[a] = q
       /\ \A i \in 1 .. n : i # a => parts'[i] = parts[i]
  BY <1>2, <1>3, <1>8, <1>9
<1>11. LayoutInv'
  BY <1>1, <1>2, <1>3, <1>6, <1>10 DEF LayoutInv, FlashPhases, Same
<1>12. PlacedInv'
  <2>1. /\ partsize = IF a - 1 = 0 THEN 0 ELSE PartEnd(parts[a - 1])
        /\ \A i \in 1 .. a - 1 : /\ PartEnd(parts[i]) <= partsize
                                 /\ \A j \in 1 .. i - 1 : PartEnd(parts[j]) <= parts[i].offset
                                 /\ parts[i].image # NoChild => Given <= parts[i].size
    BY <1>1, <1>3 DEF Core, PlacedInv, NumPlaced
  <2>2. partsize' \in Nat /\ partsize' = o + s /\ partsize' = PartEnd(parts'[a]) /\ partsize <= partsize'
    <3>1. partsize' = o + s
      BY <1>1, <1>6
    <3>2. PartEnd(parts'[a]) = o + s
      BY <1>9, <1>10
    <3>. QED  BY <1>2, <1>6, <3>1, <3>2
  <2>3. \A i \in 1 .. a - 1 : parts'[i] = parts[i] /\ PartEnd(parts[i]) \in Nat
    BY <1>2, <1>3, <1>10, PartOf
  <2>4. ASSUME NEW i \in 1 .. a
        PROVE  /\ PartEnd(parts'[i]) <= partsize'
               /\ \A j \in 1 .. i - 1 : PartEnd(parts'[j]) <= parts'[i].offset
               /\ parts'[i].image # NoChild => Given <= parts'[i].size
    <3>1. CASE i = a
      <4>1. \A j \in 1 .. a - 1 : PartEnd(parts'[j]) <= o
        BY <1>2, <1>6, <2>1, <2>3
      <4>. QED  BY <1>6, <1>9, <1>10, <2>2, <3>1, <4>1
    <3>2. CASE i # a
      <4>1. i \in 1 .. a - 1 /\ \A j \in 1 .. i - 1 : j \in 1 .. a - 1
        BY <3>2
      <4>2. parts'[i] = parts[i] /\ \A j \in 1 .. i - 1 : parts'[j] = parts[j]
        BY <2>3, <4>1
      <4>3. PartEnd(parts[i]) <= partsize /\ PartEnd(parts[i]) \in Nat
        BY <2>1, <2>3, <4>1
      <4>4. PartEnd(parts'[i]) <= partsize'
        <5>1. PICK b, c, e \in Nat : b = PartEnd(parts[i]) /\ c = partsize /\ e = partsize'
          BY <1>2, <2>2, <4>3
        <5>2. b <= c /\ c <= e
          BY <2>2, <4>3, <5>1
        <5>. QED  BY <4>2, <5>1, <5>2
      <4>. QED  BY <2>1, <4>1, <4>2, <4>4
    <3>. QED  BY <3>1, <3>2
  <2>5. NumPlaced' = a /\ Given' = Given /\ fpc' = "setup" /\ childSize' = Given
    BY <1>1, <1>3, <1>5 DEF NumPlaced, Given, Source, Same
  <2>6. a # 0 /\ partsize' = PartEnd(parts'[a])
    BY <1>3, <2>2
  <2>. QED  BY <2>4, <2>5, <2>6 DEF PlacedInv, PartEnd
<1>13. CallInv'
  BY <1>1 DEF Core, CallInv
<1>14. FlashInv'
  BY <1>1 DEF Core, FlashInv
<1>. QED  BY <1>5, <1>11, <1>12, <1>13, <1>14 DEF Core, Same

LEMMA SetupKept ==
  ASSUME Core, Same, ppc = "setup", FlashSetup(childSize)
  PROVE  Core'
<1>1. UNCHANGED <<out, call, faults>>
  BY DEF FlashSetup
<1>2. CASE FlashSetupPart(childSize) /\ ~PartRefused(Part, childSize)
  BY <1>1, <1>2, PartPlaced
<1>3. CASE FlashSetupRefused \/ (FlashSetupPart(childSize) /\ PartRefused(Part, childSize)) \/ (FlashSetupEnd /\ partsize > FlashSize)
  <2>1. /\ fpc = "setup" /\ cfg.kind = "flash" /\ fpc' = "refused" /\ at' = at /\ end' = end
        /\ typed' = typed /\ parts' = parts /\ imageSize' = imageSize /\ partsize' = partsize /\ last' = last
    BY <1>3 DEF FlashSetupRefused, FlashSetupPart, FlashSetupEnd, Refuse, Core, LayoutInv, layout
  <2>2. LayoutInv'
    BY <1>1, <2>1 DEF Core, LayoutInv, FlashPhases, Same
  <2>3. PlacedInv' /\ FlashInv'
    BY <2>1 DEF PlacedInv, FlashInv
  <2>4. CallInv'
    BY <1>1, <2>1 DEF Core, CallInv
  <2>. QED  BY <2>2, <2>3, <2>4 DEF Core, Same
<1>4. CASE FlashSetupEnd /\ ~(partsize > FlashSize)
  <2>1. /\ fpc = "setup" /\ cfg.kind = "flash" /\ fpc' = "ready" /\ at' = 1 /\ end' = end /\ at > Len(parts)
        /\ typed' = typed /\ parts' = parts /\ partsize' = partsize /\ last' = last
        /\ imageSize' = IF imageSize = 0 THEN partsize ELSE imageSize
    BY <1>4 DEF FlashSetupEnd, Core, LayoutInv
  <2>2. parts \in Seq(Partition) /\ at \in 1 .. Len(parts) + 1 /\ partsize \in Nat /\ imageSize \in Nat
    BY DEF Core, LayoutInv
  <2>3. Len(parts) \in Nat
    BY <2>2
  <2>4. LayoutInv'
    BY <1>1, <2>1, <2>2, <2>3 DEF Core, LayoutInv, FlashPhases, Same
  <2>5. NumPlaced = Len(parts) /\ NumPlaced' = Len(parts) /\ Given' = Given /\ childSize' = childSize
    BY <2>1, <2>2, <2>3 DEF NumPlaced, Given, Source, Same
  <2>6. partsize <= FlashSize
    BY <1>4, <2>2, FlashAssumption DEF FlashSize
  <2>7. PlacedInv'
    BY <2>1, <2>5, <2>6 DEF Core, PlacedInv, PartEnd
  <2>8. CallInv'
    BY <1>1, <2>1 DEF Core, CallInv
  <2>9. end = 0
    BY <2>1 DEF Core, FlashInv
  <2>10. FlashInv'
    BY <2>1, <2>9 DEF FlashInv
  <2>. QED  BY <2>4, <2>7, <2>8, <2>10 DEF Core, Same
<1>. QED  BY <1>1, <1>2, <1>3, <1>4 DEF FlashSetup

\* The handlers keep the layout while they generate.
LEMMA LaidOut ==
  ASSUME Core, Same, UNCHANGED layout, fpc \notin {"setup", "refused"},
         fpc' \in {"ready", "clear", "parts", "pad", "padded", "insert", "done", "failed"},
         cfg.kind # "flash" => fpc' \in {"ready", "clear", "parts", "insert", "failed"},
         at' \in 1 .. Len(parts) + 1, end' \in Nat, faults' \in Nat
  PROVE  LayoutInv' /\ PlacedInv'
<1>1. /\ typed' = typed /\ parts' = parts /\ imageSize' = imageSize /\ partsize' = partsize /\ last' = last
  BY DEF layout
<1>2. LayoutInv'
  BY <1>1 DEF Core, LayoutInv, FlashPhases, Same
<1>3. NumPlaced = Len(parts) /\ NumPlaced' = Len(parts) /\ Given' = Given
  BY <1>1 DEF NumPlaced, Given, Source, Same
<1>4. PlacedInv'
  BY <1>1, <1>3 DEF Core, PlacedInv, PartEnd, Same
<1>. QED  BY <1>2, <1>4

\* A call that is made.
LEMMA CallMade ==
  ASSUME NEW sub, sub # NoSub => IsFile(sub), NEW size \in Nat, NEW offset \in Nat, NEW value \in Values,
         InsertImage(sub, size, offset, value)
  PROVE  /\ \A f : CallGood(call', f)
         /\ call'.pc = "open" /\ call'.size = size /\ call'.offset = offset /\ call'.inPos = 0
         /\ call'.wanted = WantedBy(sub, size, offset, value)
         /\ call'.offset + call'.size = offset + size
<1>1. PICK w, q : w = WantedBy(sub, size, offset, value) /\ q = PlainCopy(sub, size, offset, value)
  OBVIOUS
<1>2. call' = CallOf("open", sub, size, offset, value, 0, << >>, 1, w, q)
  BY <1>1 DEF InsertImage, NoCall, CallOf
<1>3. ShapeOf(call')
  BY <1>2 DEF ShapeOf, CallOf
<1>4. /\ call'.pc = "open" /\ call'.size = size /\ call'.offset = offset /\ call'.inPos = 0 /\ call'.e = 1
      /\ call'.sub = sub /\ call'.value = value /\ call'.wanted = w
  BY <1>2 DEF CallOf
<1>5. ArgumentsOf(call')
  <2>1. PICK z \in Nat : z = 0
    OBVIOUS
  <2>2. size + z = size /\ offset - z = offset /\ z <= offset
    BY <2>1
  <2>3. call'.size + call'.inPos = size /\ call'.offset - call'.inPos = offset
    BY <1>4, <2>1, <2>2
  <2>. QED  BY <1>1, <1>4, <2>1, <2>2, <2>3 DEF ArgumentsOf
<1>6. \A f : WrittenSoFar(call', f)
  BY <1>4 DEF WrittenSoFar, Reached
<1>. QED  BY <1>1, <1>3, <1>4, <1>5, <1>6 DEF CallGood

\* A call that returned 0 has written its range.
LEMMA OkSettled ==
  ASSUME CallGood(call, out), call.pc = "ok"
  PROVE  \A p \in DOMAIN call.wanted : p \in Nat /\ Unit(out, p) = call.wanted[p]
<1>1. PICK s \in Nat, o \in Nat, k \in Nat, t \in Nat, first \in Nat :
        /\ s = call.size /\ o = call.offset /\ k = call.inPos /\ k <= o /\ t = s + k /\ first = o - k
        /\ call.value \in Values
        /\ (call.sub # NoSub => IsFile(call.sub))
        /\ call.wanted = WantedBy(call.sub, t, first, call.value)
  BY CallParts
<1>2. DOMAIN call.wanted = first .. first + t - 1
  <2>1. PICK b, v : b = call.sub /\ v = call.value
    OBVIOUS
  <2>2. (b # NoSub => IsFile(b)) /\ v \in Values /\ call.wanted = WantedBy(b, t, first, v)
    BY <1>1, <2>1
  <2>3. DOMAIN WantedBy(b, t, first, v) = first .. first + t - 1
    BY ONLY <2>2, t \in Nat, first \in Nat, WantedType
  <2>. QED  BY <2>2, <2>3
<1>3. \A p \in Nat : first <= p /\ p < o + s => Unit(out, p) = call.wanted[p]
  <2>1. Reached(call) = o + s
    BY <1>1 DEF Reached
  <2>2. \A p \in Nat : call.offset - call.inPos <= p /\ p < Reached(call) => Unit(out, p) = call.wanted[p]
    BY DEF CallGood, WrittenSoFar
  <2>3. call.offset - call.inPos = first
    BY <1>1
  <2>. QED  BY <2>1, <2>2, <2>3
<1>4. first + t = o + s
  <2>1. t = s + k /\ first = o - k
    BY <1>1
  <2>. QED  BY <2>1
<1>5. \A p \in first .. first + t - 1 : p \in Nat /\ first <= p /\ p < o + s
  BY <1>4
<1>. QED  BY <1>2, <1>3, <1>5

\* What a call for padding alone writes, and what one for a partition writes.
LEMMA PadWanted ==
  ASSUME NEW size \in Nat, NEW offset \in Nat, NEW value \in Values, NEW p \in Nat, offset <= p, p < offset + size
  PROVE  /\ p \in DOMAIN WantedBy(NoSub, size, offset, value)
         /\ WantedBy(NoSub, size, offset, value)[p] = value
<1>1. PICK b : b = NoSub
  OBVIOUS
<1>2. b # NoSub => IsFile(b)
  BY <1>1
<1>3. /\ p \in DOMAIN WantedBy(b, size, offset, value)
      /\ WantedBy(b, size, offset, value)[p] = WantedUnit(b, size, offset, value, p)
  BY <1>2, WantedAt
<1>4. WantedUnit(b, size, offset, value, p) = value
  BY <1>1 DEF WantedUnit
<1>. QED  BY <1>1, <1>3, <1>4

LEMMA PartWanted ==
  ASSUME cfg \in Configs, NEW q \in Partition, NEW u \in Nat, u < q.size
  PROVE  /\ q.offset + u \in Nat /\ q.offset + u \in DOMAIN WantedBy(SubOf(q), q.size, q.offset, Erased)
         /\ WantedBy(SubOf(q), q.size, q.offset, Erased)[q.offset + u] =
              IF q.image # NoChild /\ u < Child.size /\ (HaveFiemap => ~IsHole(Child, u)) THEN Unit(Child, u) ELSE Erased
<1>1. PICK s \in Nat, o \in Nat, p \in Nat : s = q.size /\ o = q.offset /\ p = o + u
  BY DEF Partition
<1>2. PICK b : b = SubOf(q)
  OBVIOUS
<1>3. IsFile(Child) /\ Child # NoSub /\ Erased \in Values /\ Child.size \in Nat
  BY ChildOf, FlashAssumption
<1>4. b # NoSub => IsFile(b)
  BY <1>2, <1>3 DEF SubOf
<1>5. o <= p /\ p < o + s /\ p - o = u
  BY <1>1
<1>6. /\ p \in DOMAIN WantedBy(b, s, o, Erased)
      /\ WantedBy(b, s, o, Erased)[p] = WantedUnit(b, s, o, Erased, p)
  <2>1. PICK v \in Values : v = Erased
    BY <1>3
  <2>2. /\ p \in DOMAIN WantedBy(b, s, o, v)
        /\ WantedBy(b, s, o, v)[p] = WantedUnit(b, s, o, v, p)
    BY ONLY <1>4, <1>5, s \in Nat, o \in Nat, p \in Nat, v \in Values, WantedAt
  <2>. QED  BY <2>1, <2>2
<1>7. CASE q.image = NoChild
  <2>1. b = NoSub
    BY <1>2, <1>7 DEF SubOf
  <2>2. WantedUnit(b, s, o, Erased, p) = Erased
    BY <2>1 DEF WantedUnit
  <2>. QED  BY <1>1, <1>2, <1>6, <1>7, <2>2
<1>8. CASE q.image # NoChild
  <2>1. b = Child /\ b # NoSub
    BY <1>2, <1>3, <1>8 DEF SubOf
  <2>2. InExtents(MapFileExtents(b, s), u) <=> (HaveFiemap => ~IsHole(b, u))
    BY <1>1, <1>3, <2>1, ExtentsCover
  <2>3. WantedUnit(b, s, o, Erased, p) =
          IF u < b.size /\ InExtents(MapFileExtents(b, s), u) THEN b.at[u] ELSE Erased
    BY <1>5, <2>1 DEF WantedUnit
  <2>4. u < b.size => b.at[u] = Unit(b, u)
    BY DEF Unit
  <2>5. WantedUnit(b, s, o, Erased, p) =
          IF u < b.size /\ (HaveFiemap => ~IsHole(b, u)) THEN Unit(b, u) ELSE Erased
    BY <2>2, <2>3, <2>4
  <2>. QED  BY <1>1, <1>2, <1>6, <1>8, <2>1, <2>5
<1>. QED  BY <1>7, <1>8

\* Writing behind the end of the partition before disturbs nothing that is done.
LEMMA HeldBefore ==
  ASSUME Core, cfg' = cfg, cfg.kind = "flash", fpc \in {"parts", "pad", "padded", "insert"}, parts' = parts,
         \A p \in Nat : p < end => Unit(out', p) = Unit(out, p)
  PROVE  \A i \in 1 .. at - 1 : PartHolds(parts[i])'
<1>1. end = EndBefore /\ \A i \in 1 .. at - 1 : PartHolds(parts[i])
  BY DEF Core, FlashInv
<1>2. \A i \in 1 .. at - 1 : PartEnd(parts[i]) <= EndBefore
  BY PlacedBefore
<1>3. ASSUME NEW i \in 1 .. at - 1, NEW u \in 0 .. parts[i].size - 1
      PROVE  Unit(out', parts[i].offset + u) = Unit(out, parts[i].offset + u)
  <2>1. i \in 1 .. Len(parts) /\ parts \in Seq(Partition)
    <3>1. at \in 1 .. Len(parts) + 1 /\ parts \in Seq(Partition)
      BY DEF Core, LayoutInv
    <3>2. Len(parts) \in Nat
      BY <3>1
    <3>. QED  BY <3>1, <3>2
  <2>2. PICK s \in Nat, o \in Nat : s = parts[i].size /\ o = parts[i].offset /\ PartEnd(parts[i]) = o + s
    BY <2>1, PartOf
  <2>3. o + s <= end /\ end \in Nat
    BY <1>1, <1>2, <2>2 DEF Core, LayoutInv
  <2>4. o + u \in Nat /\ o + u < end
    BY <2>2, <2>3
  <2>. QED  BY <2>2, <2>4
<1>4. Child' = Child
  BY DEF Child, Source
<1>5. ASSUME NEW i \in 1 .. at - 1 PROVE PartHolds(parts[i])'
  <2>1. \A u \in 0 .. parts[i].size - 1 :
          Unit(out, parts[i].offset + u) =
            IF parts[i].image # NoChild /\ u < Child.size /\ (HaveFiemap => ~IsHole(Child, u)) THEN Unit(Child, u) ELSE Erased
    BY <1>1, <1>5 DEF PartHolds
  <2>2. \A u \in 0 .. parts[i].size - 1 :
          Unit(out', parts[i].offset + u) =
            IF parts[i].image # NoChild /\ u < Child.size /\ (HaveFiemap => ~IsHole(Child, u)) THEN Unit(Child, u) ELSE Erased
    BY <1>3, <2>1
  <2>. QED  BY <1>4, <2>2 DEF PartHolds
<1>. QED  BY <1>5

\* prepare_image, for a file and for a device.
LEMMA PrepareKept ==
  ASSUME Core, Same, FlashPrepareFile \/ FlashPrepareDevice
  PROVE  Core'
<1>1. UNCHANGED layout /\ at' = at /\ end' = end /\ fpc = "ready" /\ Idle /\ parts' = parts /\ imageSize' = imageSize
  BY DEF FlashPrepareFile, FlashPrepareDevice, layout
<1>2. /\ at \in 1 .. Len(parts) + 1 /\ end \in Nat /\ imageSize \in Nat /\ faults \in Nat /\ IsFile(out)
      /\ call = NoCall /\ CallGood(call, out)
  BY <1>1 DEF Core, LayoutInv, CallInv, CallGood, Idle
<1>3. CASE FlashPrepareFile
  <2>1. /\ call' = call /\ ~out.device
        /\ \/ out' = Prepared(out, imageSize) /\ fpc' = "parts" /\ faults' = faults
           \/ faults' = faults + 1 /\ fpc' = "failed" /\ out' = out
    BY <1>3 DEF FlashPrepareFile
  <2>2. LayoutInv' /\ PlacedInv'
    BY <1>1, <1>2, <2>1, LaidOut
  <2>3. CASE out' = Prepared(out, imageSize) /\ fpc' = "parts" /\ faults' = faults
    <3>1. IsFile(Empty)
      BY DEF IsFile, Empty
    <3>2. out' = Resized(Empty, imageSize)
      BY <2>3 DEF Prepared
    <3>3. IsFile(out') /\ out'.size = imageSize
      BY <1>2, <3>1, <3>2, ResizedFile
    <3>4. CallInv'
      <4>1. CallGood(call', out')
        BY <1>2, <2>1, NoCallGood
      <4>. QED  BY <1>2, <2>1, <2>3, <3>3, <4>1 DEF CallInv, NoCall
    <3>5. FlashInv'
      <4> SUFFICES ASSUME cfg'.kind = "flash" PROVE FlashInv'
        BY DEF FlashInv
      <4>1. at' = 1 /\ end' = 0
        BY <1>1 DEF Core, FlashInv, Same
      <4>2. EndBefore' = 0 /\ Filled' = 0 /\ Reach' = 0
        BY <2>3, <4>1 DEF EndBefore, Filled, Reach
      <4>3. GapsErased'
        BY <4>2 DEF GapsErased
      <4>4. out'.size = IF imageSize' >= Reach' THEN imageSize' ELSE Reach'
        BY <1>1, <1>2, <3>3, <4>2
      <4>5. \A i \in 1 .. at' - 1 : FALSE
        BY <4>1
      <4>. QED  BY <2>3, <4>1, <4>2, <4>3, <4>4, <4>5 DEF FlashInv
    <3>. QED  BY <2>2, <3>4, <3>5 DEF Core, Same
  <2>4. CASE fpc' = "failed" /\ out' = out
    <3>1. CallInv'
      BY <1>2, <2>1, <2>4 DEF CallInv
    <3>2. FlashInv'
      BY <2>4 DEF FlashInv
    <3>. QED  BY <2>2, <3>1, <3>2 DEF Core, Same
  <2>. QED  BY <2>1, <2>3, <2>4
<1>4. CASE FlashPrepareDevice
  <2>1. /\ InsertImage(NoSub, Buf \div 2, 0, 0) /\ fpc' = "clear" /\ out' = out /\ faults' = faults /\ out.device
    BY <1>4 DEF FlashPrepareDevice
  <2>2. LayoutInv' /\ PlacedInv'
    BY <1>1, <1>2, <2>1, LaidOut
  <2>3. CallGood(call', out') /\ call'.pc = "open"
    <3>1. PICK b : b = NoSub
      OBVIOUS
    <3>2. PICK n \in Nat : n = Buf \div 2
      BY InsertImageAssumption
    <3>3. PICK z \in Nat : z = 0 /\ z \in Values
      BY ImageFileAssumption
    <3>4. InsertImage(b, n, z, z) /\ (b # NoSub => IsFile(b))
      BY <2>1, <3>1, <3>2, <3>3
    <3>. QED  BY <3>3, <3>4, CallMade
  <2>4. CallInv'
    BY <1>2, <2>1, <2>3 DEF CallInv
  <2>5. FlashInv'
    BY <1>1, <2>1 DEF Core, FlashInv, Same
  <2>. QED  BY <2>2, <2>4, <2>5 DEF Core, Same
<1>. QED  BY <1>3, <1>4

\* The handler goes on after a device was cleared, or was not.
LEMMA PreparedKept ==
  ASSUME Core, Same, FlashPrepared
  PROVE  Core'
<1>1. /\ UNCHANGED layout /\ at' = at /\ end' = end /\ fpc = "clear" /\ fpc' = "parts" /\ out' = out
      /\ faults' = faults /\ parts' = parts /\ imageSize' = imageSize /\ call' = NoCall
  BY DEF FlashPrepared, layout
<1>2. at \in 1 .. Len(parts) + 1 /\ end \in Nat /\ faults \in Nat /\ IsFile(out)
  BY DEF Core, LayoutInv, CallInv
<1>3. LayoutInv' /\ PlacedInv'
  BY <1>1, <1>2, LaidOut
<1>4. CallInv'
  <2>1. CallGood(call', out')
    BY <1>1, NoCallGood
  <2>. QED  BY <1>1, <1>2, <2>1 DEF CallInv, NoCall
<1>5. FlashInv'
  <2> SUFFICES ASSUME cfg'.kind = "flash" PROVE FlashInv'
    BY DEF FlashInv
  <2>1. at' = 1 /\ end' = 0 /\ out'.device
    BY <1>1 DEF Core, FlashInv, Same
  <2>2. EndBefore' = 0 /\ Filled' = 0
    BY <1>1, <2>1 DEF EndBefore, Filled
  <2>3. GapsErased'
    BY <2>2 DEF GapsErased
  <2>4. \A i \in 1 .. at' - 1 : FALSE
    BY <2>1
  <2>. QED  BY <1>1, <2>1, <2>2, <2>3, <2>4 DEF FlashInv
<1>. QED  BY <1>3, <1>4, <1>5 DEF Core, Same

\* The gap in front of a partition.
LEMMA PadKept ==
  ASSUME Core, Same, cfg.kind = "flash", FlashPad
  PROVE  Core'
<1>1. /\ UNCHANGED layout /\ at' = at /\ end' = end /\ fpc = "parts" /\ fpc' = "pad" /\ out' = out
      /\ faults' = faults /\ parts' = parts /\ imageSize' = imageSize
      /\ at <= Len(parts) /\ Part.offset > end /\ InsertImage(NoSub, Part.offset - end, end, Erased)
  BY DEF FlashPad, layout
<1>2. at \in 1 .. Len(parts) + 1 /\ end \in Nat /\ faults \in Nat /\ IsFile(out) /\ Erased \in Values
  BY FlashAssumption DEF Core, LayoutInv, CallInv
<1>3. LayoutInv' /\ PlacedInv'
  BY <1>1, <1>2, LaidOut
<1>4. Part' = Part /\ Part.offset \in Nat
  BY <1>1, PlacedBefore DEF Part
<1>5. /\ CallGood(call', out') /\ call'.pc = "open" /\ call'.offset = end
      /\ call'.wanted = WantedBy(NoSub, Part.offset - end, end, Erased)
      /\ call'.offset + call'.size = Part.offset
  <2>1. PICK b : b = NoSub
    OBVIOUS
  <2>2. PICK n \in Nat, o \in Nat : n = Part.offset - end /\ o = end
    BY <1>1, <1>2, <1>4
  <2>3. PICK v \in Values : v = Erased
    BY <1>2
  <2>4. InsertImage(b, n, o, v) /\ (b # NoSub => IsFile(b))
    BY <1>1, <2>1, <2>2, <2>3
  <2>5. /\ \A f : CallGood(call', f)
        /\ call'.pc = "open" /\ call'.size = n /\ call'.offset = o /\ call'.inPos = 0
        /\ call'.wanted = WantedBy(b, n, o, v)
        /\ call'.offset + call'.size = o + n
    BY <2>4, CallMade
  <2>6. o + n = Part.offset
    BY <1>2, <1>4, <2>2
  <2>. QED  BY <2>1, <2>2, <2>3, <2>5, <2>6
<1>6. CallInv'
  BY <1>1, <1>2, <1>4, <1>5 DEF CallInv
<1>7. FlashInv'
  <2>1. /\ end = EndBefore /\ (\A i \in 1 .. at - 1 : PartHolds(parts[i])) /\ GapsErased
        /\ ~out.device /\ call.pc # "failed" => out.size = IF imageSize >= Reach THEN imageSize ELSE Reach
    BY <1>1 DEF Core, FlashInv
  <2>2. EndBefore' = EndBefore /\ Filled' = Filled /\ Reach = end
    BY <1>1 DEF EndBefore, Filled, Reach
  <2>3. Reach' = end
    BY <1>1, <1>5 DEF Reach, Reached
  <2>4. \A i \in 1 .. at - 1 : PartHolds(parts[i])'
    BY <1>1, HeldBefore DEF Same
  <2>5. GapsErased'
    BY <1>1, <2>1, <2>2 DEF GapsErased, InSomePart
  <2>6. call.pc = "none"
    BY <1>1 DEF Core, CallInv
  <2>. QED  BY <1>1, <1>5, <2>1, <2>2, <2>3, <2>4, <2>5, <2>6 DEF FlashInv, Same
<1>. QED  BY <1>3, <1>6, <1>7 DEF Core, Same

LEMMA PadDoneKept ==
  ASSUME Core, Same, cfg.kind = "flash", FlashPadDone
  PROVE  Core'
<1>1. /\ UNCHANGED layout /\ at' = at /\ end' = end /\ fpc = "pad" /\ fpc' = "padded" /\ out' = out
      /\ faults' = faults /\ parts' = parts /\ imageSize' = imageSize /\ call.pc = "ok" /\ call' = NoCall
  BY DEF FlashPadDone, layout
<1>2. /\ at \in 1 .. Len(parts) + 1 /\ end \in Nat /\ faults \in Nat /\ IsFile(out) /\ Erased \in Values
      /\ CallGood(call, out)
      /\ at <= Len(parts) /\ end < Part.offset /\ call.offset + call.size = Part.offset
      /\ call.wanted = WantedBy(NoSub, Part.offset - end, end, Erased)
  BY <1>1, FlashAssumption DEF Core, LayoutInv, CallInv
<1>3. LayoutInv' /\ PlacedInv'
  BY <1>1, <1>2, LaidOut
<1>4. Part' = Part /\ Part.offset \in Nat
  BY <1>1, <1>2, PlacedBefore DEF Part
<1>5. CallInv'
  <2>1. CallGood(call', out')
    BY <1>1, NoCallGood
  <2>. QED  BY <1>1, <1>2, <2>1 DEF CallInv, NoCall
<1>6. FlashInv'
  <2>1. /\ end = EndBefore /\ (\A i \in 1 .. at - 1 : PartHolds(parts[i])) /\ GapsErased
        /\ ~out.device /\ call.pc # "failed" => out.size = IF imageSize >= Reach THEN imageSize ELSE Reach
    BY <1>1 DEF Core, FlashInv
  <2>2. EndBefore' = EndBefore /\ Filled = end /\ Filled' = Part.offset /\ Reach' = Part.offset
    BY <1>1, <1>4 DEF EndBefore, Filled, Reach
  <2>3. Reach = Part.offset
    BY <1>1, <1>2 DEF Reach, Reached
  <2>4. \A i \in 1 .. at - 1 : PartHolds(parts[i])'
    BY <1>1, HeldBefore DEF Same
  <2>5. ASSUME NEW u \in Nat, u < Part.offset, ~InSomePart(u) PROVE Unit(out, u) = Erased
    <3>1. CASE u < end
      BY <2>1, <2>2, <2>5, <3>1 DEF GapsErased
    <3>2. CASE ~(u < end)
      <4>1. PICK n \in Nat, o \in Nat : n = Part.offset - end /\ o = end
        BY <1>2, <1>4
      <4>2. o <= u /\ u < o + n
        BY <1>4, <2>5, <3>2, <4>1
      <4>3. PICK v \in Values : v = Erased
        BY <1>2
      <4>4. u \in DOMAIN WantedBy(NoSub, n, o, v) /\ WantedBy(NoSub, n, o, v)[u] = v
        BY ONLY <4>2, u \in Nat, n \in Nat, o \in Nat, v \in Values, PadWanted
      <4>5. call.wanted = WantedBy(NoSub, n, o, v)
        BY <1>2, <4>1, <4>3
      <4>6. u \in DOMAIN call.wanted /\ call.wanted[u] = Erased
        BY <4>3, <4>4, <4>5
      <4>. QED  BY <1>1, <1>2, <4>6, OkSettled
    <3>. QED  BY <3>1, <3>2
  <2>6. GapsErased'
    BY <1>1, <2>2, <2>5 DEF GapsErased, InSomePart
  <2>. QED  BY <1>1, <2>1, <2>2, <2>3, <2>4, <2>6 DEF FlashInv, Same
<1>. QED  BY <1>3, <1>5, <1>6 DEF Core, Same

\* A partition is begun where the gap in front of it, or the partition before, ends.
LEMMA PartKept ==
  ASSUME Core, Same, cfg.kind = "flash", FlashPart(Child)
  PROVE  Core'
<1>1. /\ UNCHANGED layout /\ at' = at /\ end' = end /\ fpc \in {"parts", "padded"} /\ fpc' = "insert" /\ out' = out
      /\ faults' = faults /\ parts' = parts /\ imageSize' = imageSize
      /\ at <= Len(parts) /\ (fpc = "parts" => Part.offset <= end)
      /\ InsertImage(SubOf(Part), Part.size, Part.offset, Erased)
  BY DEF FlashPart, layout, SubOf
<1>2. at \in 1 .. Len(parts) + 1 /\ end \in Nat /\ faults \in Nat /\ IsFile(out) /\ Erased \in Values /\ cfg \in Configs
  BY FlashAssumption DEF Core, LayoutInv, CallInv
<1>3. LayoutInv' /\ PlacedInv'
  BY <1>1, <1>2, LaidOut
<1>4. Part' = Part /\ Part.offset \in Nat /\ Part.size \in Nat /\ PartEnd(Part) = Part.offset + Part.size
      /\ EndBefore <= Part.offset /\ EndBefore \in Nat
  BY <1>1, PlacedBefore DEF Part
<1>5. /\ CallGood(call', out') /\ call'.pc = "open" /\ call'.offset = Part.offset
      /\ call'.wanted = WantedBy(SubOf(Part), Part.size, Part.offset, Erased)
      /\ call'.offset + call'.size = PartEnd(Part)
  <2>1. PICK b : b = SubOf(Part)
    OBVIOUS
  <2>2. PICK n \in Nat, o \in Nat : n = Part.size /\ o = Part.offset
    BY <1>4
  <2>3. PICK v \in Values : v = Erased
    BY <1>2
  <2>4. b # NoSub => IsFile(b)
    BY <1>2, <2>1, ChildOf DEF SubOf
  <2>5. InsertImage(b, n, o, v)
    BY <1>1, <2>1, <2>2, <2>3
  <2>6. /\ \A f : CallGood(call', f)
        /\ call'.pc = "open" /\ call'.size = n /\ call'.offset = o /\ call'.inPos = 0
        /\ call'.wanted = WantedBy(b, n, o, v)
        /\ call'.offset + call'.size = o + n
    BY <2>4, <2>5, CallMade
  <2>. QED  BY <1>4, <2>1, <2>2, <2>3, <2>6
<1>6. CallInv'
  <2>1. SubOf(Part)' = SubOf(Part) /\ PartEnd(Part)' = PartEnd(Part)
    BY <1>4 DEF SubOf, PartEnd, Child, Source, Same
  <2>. QED  BY <1>1, <1>2, <1>4, <1>5, <2>1 DEF CallInv
<1>7. FlashInv'
  <2>1. /\ end = EndBefore /\ (\A i \in 1 .. at - 1 : PartHolds(parts[i])) /\ GapsErased
        /\ ~out.device /\ call.pc # "failed" => out.size = IF imageSize >= Reach THEN imageSize ELSE Reach
    BY <1>1 DEF Core, FlashInv
  <2>2. EndBefore' = EndBefore /\ Filled' = Part.offset /\ Reach = Filled
    BY <1>1, <1>4 DEF EndBefore, Filled, Reach
  <2>3. Filled = Part.offset
    BY <1>1, <1>2, <1>4, <2>1 DEF Filled
  <2>4. Reach' = Part.offset
    BY <1>1, <1>5 DEF Reach, Reached
  <2>5. \A i \in 1 .. at - 1 : PartHolds(parts[i])'
    BY <1>1, HeldBefore DEF Same
  <2>6. GapsErased'
    BY <1>1, <2>1, <2>2, <2>3 DEF GapsErased, InSomePart
  <2>7. call.pc = "none"
    BY <1>1 DEF Core, CallInv
  <2>. QED  BY <1>1, <1>5, <2>1, <2>2, <2>3, <2>4, <2>5, <2>6, <2>7 DEF FlashInv, Same
<1>. QED  BY <1>3, <1>6, <1>7 DEF Core, Same

LEMMA PartDoneKept ==
  ASSUME Core, Same, cfg.kind = "flash", FlashPartDone
  PROVE  Core'
<1>1. /\ UNCHANGED layout /\ at' = at + 1 /\ end' = Part.offset + Part.size
      /\ fpc = "insert" /\ fpc' = "parts" /\ out' = out
      /\ faults' = faults /\ parts' = parts /\ imageSize' = imageSize /\ call.pc = "ok" /\ call' = NoCall
  BY DEF FlashPartDone, layout
<1>2. /\ at \in 1 .. Len(parts) + 1 /\ parts \in Seq(Partition) /\ end \in Nat /\ faults \in Nat /\ IsFile(out)
      /\ Erased \in Values /\ CallGood(call, out) /\ cfg \in Configs
      /\ at <= Len(parts) /\ call.offset + call.size = PartEnd(Part)
      /\ call.wanted = WantedBy(SubOf(Part), Part.size, Part.offset, Erased)
  BY <1>1, FlashAssumption DEF Core, LayoutInv, CallInv
<1>3. /\ Part \in Partition /\ Part.offset \in Nat /\ Part.size \in Nat /\ PartEnd(Part) = Part.offset + Part.size
      /\ EndBefore <= Part.offset /\ EndBefore \in Nat /\ Len(parts) \in Nat
  BY <1>1, <1>2, PlacedBefore
<1>4. at' \in 1 .. Len(parts) + 1 /\ end' \in Nat
  BY <1>1, <1>2, <1>3
<1>5. LayoutInv' /\ PlacedInv'
  BY <1>1, <1>2, <1>4, LaidOut
<1>6. CallInv'
  <2>1. CallGood(call', out')
    BY <1>1, NoCallGood
  <2>. QED  BY <1>1, <1>2, <2>1 DEF CallInv, NoCall
<1>7. FlashInv'
  <2>1. /\ end = EndBefore /\ (\A i \in 1 .. at - 1 : PartHolds(parts[i])) /\ GapsErased
        /\ ~out.device /\ call.pc # "failed" => out.size = IF imageSize >= Reach THEN imageSize ELSE Reach
    BY <1>1 DEF Core, FlashInv
  <2>2. PICK a \in Nat : a = at /\ a \in 1 .. Len(parts) /\ at' = a + 1 /\ at' - 1 = a
    BY <1>1, <1>2, <1>3
  <2>3. EndBefore' = PartEnd(Part) /\ Filled = Part.offset /\ Filled' = PartEnd(Part) /\ Reach' = PartEnd(Part)
        /\ end' = PartEnd(Part)
    <3>1. end' = PartEnd(Part)
      BY <1>1, <1>3
    <3>2. EndBefore' = PartEnd(Part)
      BY <1>1, <2>2 DEF EndBefore, PartEnd, Part
    <3>. QED  BY <1>1, <3>1, <3>2 DEF Filled, Reach
  <2>4. Reach = PartEnd(Part)
    BY <1>1, <1>2 DEF Reach, Reached
  <2>5. \A i \in 1 .. at - 1 : PartHolds(parts[i])'
    BY <1>1, HeldBefore DEF Same
  <2>6. PartHolds(parts[a])'
    <3>1. ASSUME NEW u \in 0 .. Part.size - 1
          PROVE  Unit(out, Part.offset + u) =
                   IF Part.image # NoChild /\ u < Child.size /\ (HaveFiemap => ~IsHole(Child, u))
                   THEN Unit(Child, u) ELSE Erased
      <4>1. PICK q \in Partition : q = Part
        BY <1>3
      <4>2. u \in Nat /\ u < q.size
        BY <1>3, <4>1
      <4>3. /\ q.offset + u \in DOMAIN WantedBy(SubOf(q), q.size, q.offset, Erased)
            /\ WantedBy(SubOf(q), q.size, q.offset, Erased)[q.offset + u] =
                 IF q.image # NoChild /\ u < Child.size /\ (HaveFiemap => ~IsHole(Child, u)) THEN Unit(Child, u) ELSE Erased
        BY <1>2, <4>2, PartWanted
      <4>4. Unit(out, q.offset + u) = call.wanted[q.offset + u]
        BY <1>1, <1>2, <4>1, <4>3, OkSettled
      <4>. QED  BY <1>2, <4>1, <4>3, <4>4
    <3>2. parts'[a] = Part /\ Child' = Child
      BY <1>1, <2>2 DEF Part, Child, Source, Same
    <3>. QED  BY <1>1, <3>1, <3>2 DEF PartHolds
  <2>7. \A i \in 1 .. at' - 1 : PartHolds(parts[i])'
    <3>1. \A i \in 1 .. at' - 1 : i \in 1 .. at - 1 \/ i = a
      BY <2>2
    <3>. QED  BY <2>5, <2>6, <3>1
  <2>8. GapsErased'
    <3> SUFFICES ASSUME NEW u \in Nat, u < PartEnd(Part), ~InSomePart(u) PROVE Unit(out, u) = Erased
      BY <1>1, <2>3 DEF GapsErased, InSomePart
    <3>1. ~(Part.offset <= u)
      BY <1>2, <2>2 DEF InSomePart, Part
    <3>. QED  BY <1>3, <2>1, <2>3, <3>1 DEF GapsErased
  <2>. QED  BY <1>1, <2>1, <2>3, <2>4, <2>7, <2>8 DEF FlashInv, Same
<1>. QED  BY <1>5, <1>6, <1>7 DEF Core, Same

\* The generation of the flash image ends.
LEMMA EndKept ==
  ASSUME Core, Same, cfg.kind = "flash", FlashFails \/ FlashDone
  PROVE  Core'
<1>1. /\ UNCHANGED layout /\ at' = at /\ end' = end /\ out' = out /\ faults' = faults /\ parts' = parts
      /\ imageSize' = imageSize /\ call' = call
      /\ \/ fpc \in {"pad", "insert"} /\ fpc' = "failed"
         \/ fpc = "parts" /\ fpc' = "done" /\ at > Len(parts) /\ call.pc = "none"
  BY DEF FlashFails, FlashDone, Idle, layout
<1>2. at \in 1 .. Len(parts) + 1 /\ parts \in Seq(Partition) /\ end \in Nat /\ faults \in Nat
  BY DEF Core, LayoutInv
<1>3. LayoutInv' /\ PlacedInv'
  BY <1>1, <1>2, LaidOut
<1>4. CallInv'
  BY <1>1 DEF Core, CallInv
<1>5. FlashInv'
  <2>1. CASE fpc' = "failed"
    BY <2>1 DEF FlashInv
  <2>2. CASE fpc' = "done"
    <3>1. /\ end = EndBefore /\ (\A i \in 1 .. at - 1 : PartHolds(parts[i])) /\ GapsErased
          /\ ~out.device /\ call.pc # "failed" => out.size = IF imageSize >= Reach THEN imageSize ELSE Reach
      BY <1>1, <2>2 DEF Core, FlashInv
    <3>2. EndBefore' = EndBefore /\ Filled' = Filled /\ Reach = Filled /\ Reach' = Filled
      BY <1>1, <2>2 DEF EndBefore, Filled, Reach, PartEnd
    <3>3. \A i \in 1 .. at - 1 : PartHolds(parts[i])'
      BY <1>1, <2>2, HeldBefore DEF Same
    <3>4. GapsErased'
      BY <1>1, <3>1, <3>2 DEF GapsErased, InSomePart, PartEnd
    <3>5. at = Len(parts) + 1
      <4>1. Len(parts) \in Nat
        BY <1>2
      <4>. QED  BY <1>1, <1>2, <2>2, <4>1
    <3>. QED  BY <1>1, <2>2, <3>1, <3>2, <3>3, <3>4, <3>5 DEF FlashInv, Same
  <2>. QED  BY <1>1, <2>1, <2>2
<1>. QED  BY <1>3, <1>4, <1>5 DEF Core, Same

\* A step of insert_image writes in the gap or the partition it was called for.
LEMMA InsertKept ==
  ASSUME Core, Same, fpc \in {"clear", "pad", "insert"}, InsertStep, UNCHANGED flash
  PROVE  Core'
<1>1. UNCHANGED layout /\ at' = at /\ end' = end /\ fpc' = fpc /\ parts' = parts /\ imageSize' = imageSize
  BY DEF flash, layout
<1>2. /\ at \in 1 .. Len(parts) + 1 /\ end \in Nat /\ faults \in Nat /\ IsFile(out) /\ CallGood(call, out)
      /\ Erased \in Values /\ imageSize \in Nat
  BY FlashAssumption DEF Core, LayoutInv, CallInv
<1>3. /\ CallGood(call', out') /\ IsFile(out') /\ out'.device = out.device
      /\ call'.pc \in {"extent", "copy", "ok", "failed"}
      /\ call'.wanted = call.wanted /\ call'.offset + call'.size = call.offset + call.size
      /\ \A p \in Nat : Unit(out', p) # Unit(out, p) => p \in DOMAIN call.wanted
      /\ StepGrows
  BY <1>2, InsertStepGood DEF StepGood, StepWrites
<1>4. faults' \in Nat
  BY <1>2, InsertImageAssumption DEF InsertStep, OpenFiles, WriteGap, CopyBuffer, NextExtent, Fill, InsertFails
<1>5. LayoutInv' /\ PlacedInv'
  <2>1. cfg.kind # "flash" => fpc \in {"ready", "clear", "parts", "insert", "failed"}
    BY DEF Core, LayoutInv
  <2>. QED  BY <1>1, <1>2, <1>4, <2>1, LaidOut
<1>6. Part' = Part
  BY <1>1 DEF Part
<1>7. CallInv'
  <2>1. SubOf(Part)' = SubOf(Part) /\ PartEnd(Part)' = PartEnd(Part)
    BY <1>6 DEF SubOf, PartEnd, Child, Source, Same
  <2>2. /\ fpc \in {"pad", "insert"} => at <= Len(parts)
        /\ cfg.kind = "flash" =>
             /\ fpc = "pad" =>
                  /\ end < Part.offset /\ call.offset + call.size = Part.offset
                  /\ call.wanted = WantedBy(NoSub, Part.offset - end, end, Erased)
             /\ fpc = "insert" =>
                  /\ call.offset + call.size = PartEnd(Part)
                  /\ call.wanted = WantedBy(SubOf(Part), Part.size, Part.offset, Erased)
    BY DEF Core, CallInv
  <2>. QED  BY <1>1, <1>3, <1>6, <2>1, <2>2 DEF CallInv, Same
<1>8. ASSUME cfg.kind = "flash", fpc \in {"pad", "insert"} PROVE FlashInv'
  <2>1. /\ end = EndBefore /\ (\A i \in 1 .. at - 1 : PartHolds(parts[i])) /\ GapsErased
        /\ ~out.device /\ call.pc # "failed" => out.size = IF imageSize >= Reach THEN imageSize ELSE Reach
    BY <1>8 DEF Core, FlashInv
  <2>2. /\ Part.offset \in Nat /\ Part.size \in Nat /\ EndBefore <= Part.offset
    BY <1>8, PlacedBefore DEF Core, CallInv
  <2>3. EndBefore' = EndBefore /\ Filled' = Filled /\ Reach' = Reached(call') /\ Reach = Reached(call)
    BY <1>1, <1>6, <1>8 DEF EndBefore, Filled, Reach
  <2>4. end <= Filled /\ Filled \in Nat
    BY <1>2, <1>8, <2>1, <2>2 DEF Filled
  <2>5. \A p \in DOMAIN call.wanted : p \in Nat /\ Filled <= p
    <3>1. CASE fpc = "pad"
      <4>1. call.wanted = WantedBy(NoSub, Part.offset - end, end, Erased) /\ end < Part.offset
        BY <1>8, <3>1 DEF Core, CallInv
      <4>2. PICK n \in Nat, o \in Nat : n = Part.offset - end /\ o = end
        BY <1>2, <2>2, <4>1
      <4>3. PICK b : b = NoSub
        OBVIOUS
      <4>4. PICK v \in Values : v = Erased
        BY <1>2
      <4>5. b # NoSub => IsFile(b)
        BY <4>3
      <4>6. DOMAIN WantedBy(b, n, o, v) = o .. o + n - 1
        BY ONLY <4>5, n \in Nat, o \in Nat, v \in Values, WantedType
      <4>7. Filled = o
        BY <3>1, <4>2 DEF Filled
      <4>. QED  BY <4>1, <4>2, <4>3, <4>4, <4>6, <4>7
    <3>2. CASE fpc = "insert"
      <4>1. call.wanted = WantedBy(SubOf(Part), Part.size, Part.offset, Erased)
        BY <1>8, <3>2 DEF Core, CallInv
      <4>2. PICK n \in Nat, o \in Nat : n = Part.size /\ o = Part.offset
        BY <2>2
      <4>3. PICK b : b = SubOf(Part)
        OBVIOUS
      <4>4. PICK v \in Values : v = Erased
        BY <1>2
      <4>5. b # NoSub => IsFile(b)
        BY <4>3, ChildOf DEF SubOf, Core
      <4>6. DOMAIN WantedBy(b, n, o, v) = o .. o + n - 1
        BY ONLY <4>5, n \in Nat, o \in Nat, v \in Values, WantedType
      <4>7. Filled = o
        BY <3>2, <4>2 DEF Filled
      <4>. QED  BY <4>1, <4>2, <4>3, <4>4, <4>6, <4>7
    <3>. QED  BY <1>8, <3>1, <3>2
  <2>6. \A p \in Nat : p < Filled => Unit(out', p) = Unit(out, p)
    <3>1. \A p \in Nat : p < Filled => p \notin DOMAIN call.wanted
      BY <2>4, <2>5
    <3>. QED  BY <1>3, <3>1
  <2>7. \A i \in 1 .. at - 1 : PartHolds(parts[i])'
    <3>1. \A p \in Nat : p < end => Unit(out', p) = Unit(out, p)
      <4>1. \A p \in Nat : p < end => p < Filled
        BY <1>2, <2>4
      <4>. QED  BY <2>6, <4>1
    <3>. QED  BY <1>1, <1>8, <3>1, HeldBefore DEF Same
  <2>8. GapsErased'
    BY <1>1, <2>1, <2>3, <2>6 DEF GapsErased, InSomePart, PartEnd
  <2>9. ~out'.device /\ call'.pc # "failed" => out'.size = IF imageSize' >= Reach' THEN imageSize' ELSE Reach'
    <3> SUFFICES ASSUME ~out.device, call'.pc # "failed" PROVE out'.size = IF imageSize >= Reach' THEN imageSize ELSE Reach'
      BY <1>1, <1>3
    <3>1. call.pc # "failed" /\ call.pc # "none"
      BY DEF InsertStep, OpenFiles, WriteGap, CopyBuffer, NextExtent, Fill, InsertFails, AtExtent, MoreInExtent, Busy
    <3>2. PICK r \in Nat : r = Reached(call)
      <4>1. call.size \in Nat /\ call.offset \in Nat
        BY <1>2, <3>1 DEF CallGood, ArgumentsOf
      <4>. QED  BY <4>1 DEF Reached
    <3>3. PICK m \in Nat : m = Reached(call')
      <4>1. call'.size \in Nat /\ call'.offset \in Nat
        BY <1>3 DEF CallGood, ArgumentsOf
      <4>. QED  BY <4>1 DEF Reached
    <3>4. out.size = IF imageSize >= r THEN imageSize ELSE r
      BY <2>1, <2>3, <3>1, <3>2
    <3>5. m >= r /\ out'.size = IF m > r /\ m > out.size THEN m ELSE out.size
      BY <1>3, <3>2, <3>3 DEF StepGrows
    <3>. QED  BY <1>2, <2>3, <3>3, <3>4, <3>5
  <2>10. end' = EndBefore' /\ \A i \in 1 .. at' - 1 : PartHolds(parts[i])'
    BY <1>1, <2>1, <2>3, <2>7
  <2>11. CASE fpc = "pad"
    BY <1>1, <2>8, <2>9, <2>10, <2>11 DEF FlashInv
  <2>12. CASE fpc = "insert"
    BY <1>1, <2>8, <2>9, <2>10, <2>12 DEF FlashInv
  <2>. QED  BY <1>8, <2>11, <2>12
<1>9. ASSUME cfg.kind # "flash" \/ fpc = "clear" PROVE FlashInv'
  <2>1. CASE cfg.kind # "flash"
    BY <2>1 DEF FlashInv, Same
  <2>2. CASE cfg.kind = "flash" /\ fpc = "clear"
    <3>1. at = 1 /\ end = 0 /\ out.device
      BY <2>2 DEF Core, FlashInv
    <3>. QED  BY <1>1, <1>3, <2>2, <3>1 DEF FlashInv
  <2>. QED  BY <1>9, <2>1, <2>2
<1>. QED  BY <1>5, <1>7, <1>8, <1>9 DEF Core, Same

\* The partitions of an hdimage without a table.
LEMMA HdKept ==
  ASSUME Core, Same, cfg.kind = "hd", HdSkip \/ HdPart \/ HdPartDone
  PROVE  Core'
<1>1. /\ UNCHANGED layout /\ end' = end /\ out' = out /\ faults' = faults
      /\ fpc \in {"parts", "insert"} /\ at <= Len(parts)
      /\ \/ at' = at + 1 /\ fpc' = "parts" /\ call' = NoCall
         \/ at' = at /\ fpc' = fpc /\ call' = call
         \/ at' = at /\ fpc' = "insert" /\ InsertImage(Child, childSize, Part.offset, 0) /\ fpc = "parts"
  <2>1. fpc = "insert" => at <= Len(parts)
    BY DEF Core, CallInv
  <2>2. CASE HdSkip
    <3>1. call = NoCall
      BY <2>2 DEF Core, CallInv, CallGood, HdSkip, Idle
    <3>. QED  BY <2>2, <3>1 DEF HdSkip
  <2>3. CASE HdPart
    BY <2>3 DEF HdPart
  <2>4. CASE HdPartDone
    BY <2>1, <2>4 DEF HdPartDone
  <2>. QED  BY <2>2, <2>3, <2>4
<1>2. /\ at \in 1 .. Len(parts) + 1 /\ parts \in Seq(Partition) /\ end \in Nat /\ faults \in Nat /\ IsFile(out)
      /\ CallGood(call, out) /\ cfg \in Configs /\ childSize \in Nat
  BY DEF Core, LayoutInv, CallInv
<1>3. Len(parts) \in Nat
  BY <1>2
<1>4. at' \in 1 .. Len(parts) + 1 /\ fpc' \in {"parts", "insert"} /\ parts' = parts
  BY <1>1, <1>2, <1>3 DEF layout
<1>5. LayoutInv' /\ PlacedInv'
  BY <1>1, <1>2, <1>4, LaidOut
<1>6. CallInv'
  <2>1. CASE at' = at + 1 /\ fpc' = "parts" /\ call' = NoCall
    <3>1. CallGood(call', out')
      BY <2>1, NoCallGood
    <3>. QED  BY <1>1, <1>2, <2>1, <3>1 DEF CallInv, NoCall, Same
  <2>2. CASE at' = at /\ fpc' = fpc /\ call' = call
    BY <1>1, <1>4, <2>2 DEF Core, CallInv, Same
  <2>3. CASE at' = at /\ fpc' = "insert" /\ InsertImage(Child, childSize, Part.offset, 0)
    <3>1. PICK b : b = Child
      OBVIOUS
    <3>2. b # NoSub => IsFile(b)
      BY <1>2, <3>1, ChildOf
    <3>3. at \in 1 .. Len(parts)
      BY <1>1, <1>2, <1>3
    <3>4. PICK n \in Nat, o \in Nat : n = childSize /\ o = Part.offset
      BY <1>2, <3>3, PartOf DEF Part
    <3>5. PICK v \in Values : v = 0
      BY ImageFileAssumption
    <3>6. InsertImage(b, n, o, v)
      BY <2>3, <3>1, <3>4, <3>5
    <3>7. (\A f : CallGood(call', f)) /\ call'.pc = "open"
      BY <3>2, <3>6, CallMade
    <3>. QED  BY <1>1, <1>2, <1>4, <2>3, <3>7 DEF CallInv, Same
  <2>. QED  BY <1>1, <2>1, <2>2, <2>3
<1>7. FlashInv'
  BY DEF FlashInv, Same
<1>. QED  BY <1>5, <1>6, <1>7 DEF Core, Same

\* Every step of the pipeline keeps what is said of the image.
LEMMA CoreKept ==
  ASSUME Core, PhaseInv, [Next]_vars
  PROVE  Core'
<1>1. ASSUME cfg' = cfg, childSize' = childSize, ppc' = "setup" => ppc = "setup", UNCHANGED <<flash, out, call, faults>>
      PROVE  Core'
  <2>1. ppc = "setup" /\ cfg.kind = "flash" /\ fpc # "refused" => childSize = Given
    BY DEF Core, PlacedInv
  <2>2. childSize' \in Nat
    BY <1>1 DEF Core
  <2>. QED  BY <1>1, <2>1, <2>2, CoreFrame
<1>2. CASE UNCHANGED vars
  <2>1. cfg' = cfg /\ childSize' = childSize /\ ppc' = ppc /\ UNCHANGED <<flash, out, call, faults>>
    BY <1>2 DEF vars, pipeline
  <2>. QED  BY <1>1, <2>1
<1>3. CASE FileSetup
  <2>1. cfg' = cfg /\ UNCHANGED <<flash, out, call, faults>>
    BY <1>3 DEF FileSetup
  <2>2. Given \in Nat /\ Source.size \in Nat
    BY ConfigOf DEF Core
  <2>3. childSize' \in Nat
    BY <1>3, <2>2 DEF FileSetup, Given, Core
  <2>4. ppc' = "setup" => childSize' = Given
    BY <1>3 DEF FileSetup, Given, Go
  <2>. QED  BY <2>1, <2>3, <2>4, CoreFrame
<1>4. CASE ContainerSetup
  <2>1. Same /\ ppc = "setup" /\ FlashSetup(childSize)
    BY <1>4 DEF ContainerSetup, Same
  <2>. QED  BY <2>1, SetupKept
<1>5. CASE SparseImageSetup \/ FileStays \/ FileCopy \/ FileCopyFails \/ SparseImageGenerate
  <2>1. /\ cfg' = cfg /\ childSize' = childSize /\ UNCHANGED <<flash, out, call, faults>>
        /\ ppc' = "setup" => ppc = "setup"
    BY <1>5 DEF SparseImageSetup, FileStays, FileCopy, FileCopyFails, SparseImageGenerate, Go, AfterFile
  <2>. QED  BY <1>1, <2>1
<1>6. CASE FlashImageGenerate
  <2>1. Same /\ cfg.kind = "flash" /\ FlashGenerate(Child)
    BY <1>6 DEF FlashImageGenerate, Unchanged, Same, Go
  <2>2. CASE FlashPrepareFile \/ FlashPrepareDevice
    BY <2>1, <2>2, PrepareKept
  <2>3. CASE FlashPrepared
    BY <2>1, <2>3, PreparedKept
  <2>4. CASE FlashPad
    BY <2>1, <2>4, PadKept
  <2>5. CASE FlashPadDone
    BY <2>1, <2>5, PadDoneKept
  <2>6. CASE FlashPart(Child)
    BY <2>1, <2>6, PartKept
  <2>7. CASE FlashPartDone
    BY <2>1, <2>7, PartDoneKept
  <2>8. CASE FlashFails \/ FlashDone
    BY <2>1, <2>8, EndKept
  <2>9. CASE fpc \in {"clear", "pad", "insert"} /\ InsertStep /\ UNCHANGED flash
    BY <2>1, <2>9, InsertKept
  <2>. QED  BY <2>1, <2>2, <2>3, <2>4, <2>5, <2>6, <2>7, <2>8, <2>9 DEF FlashGenerate
<1>7. CASE HdImageGenerate
  <2>1. /\ cfg' = cfg /\ childSize' = childSize /\ cfg.kind = "hd"
        /\ (HdPrepare \/ HdSkip \/ HdPart \/ HdPartDone \/ HdDone \/ HdInsert)
    BY <1>7 DEF HdImageGenerate, Unchanged
  <2>2. ppc' = "setup" => ppc = "setup"
    BY <2>1 DEF HdPrepare, HdSkip, HdPart, HdPartDone, HdDone, HdInsert, Go
  <2>3. Same
    BY <2>1, <2>2 DEF Same
  <2>4. CASE HdPrepare
    BY <2>3, <2>4, PrepareKept, PreparedKept DEF HdPrepare
  <2>5. CASE HdSkip \/ HdPart \/ HdPartDone
    BY <2>1, <2>3, <2>5, HdKept
  <2>6. CASE HdDone
    <3>1. UNCHANGED <<flash, out, call, faults>>
      BY <2>6 DEF HdDone
    <3>. QED  BY <1>1, <2>1, <2>2, <3>1
  <2>7. CASE HdInsert
    <3>1. fpc \in {"clear", "pad", "insert"} /\ InsertStep /\ UNCHANGED flash
      BY <2>7 DEF HdInsert
    <3>. QED  BY <2>3, <3>1, InsertKept
  <2>. QED  BY <2>1, <2>4, <2>5, <2>6, <2>7
<1>8. CASE Over
  BY <1>2, <1>8 DEF Over
<1>. QED  BY <1>2, <1>3, <1>4, <1>5, <1>6, <1>7, <1>8 DEF Next, Step

-----------------------------------------------------------------------------
(***************************************************************************)
(* The sparse image.                                                       *)
(***************************************************************************)
ExtentRecord == [start : Nat, end : Nat]

\* The fields of an extent, and of a chunk.
LEMMA ExtentFields ==
  \A x : x \in ExtentRecord <=> x = [start |-> x.start, end |-> x.end] /\ x.start \in Nat /\ x.end \in Nat
BY DEF ExtentRecord

LEMMA MakeChunk ==
  \A h, data : h.type \in {RAW, FILL, DONTCARE, CRC32} /\ h.blocks \in Nat /\ h.size \in Nat /\ data \in Seq(Values) =>
    Chunk(h, data) \in ChunkRecord
BY DEF Chunk, ChunkRecord

\* A nonempty set of numbers below n has a greatest one.
LEMMA GreatestOf ==
  ASSUME NEW n \in Nat, NEW S \in SUBSET (0 .. n), S # {}
  PROVE  Max(S) \in S
<1>1. PICK D : D = {n - x : x \in S}
  OBVIOUS
<1>2. D \in SUBSET Nat /\ D # {}
  <2>1. \A x \in S : n - x \in Nat /\ n - x \in D
    BY <1>1
  <2>2. \A d \in D : \E x \in S : d = n - x
    BY <1>1
  <2>3. \A d \in D : d \in Nat
    BY <2>1, <2>2
  <2>. QED  BY <2>1, <2>3
<1>3. PICK d \in D : \A e \in D : d <= e
  BY <1>2, LeastOf
<1>4. PICK x \in S : d = n - x
  BY <1>1, <1>3
<1>5. \A y \in S : x >= y
  <2> SUFFICES ASSUME NEW y \in S PROVE x >= y
    OBVIOUS
  <2>1. n - y \in D
    BY <1>1
  <2>2. d <= n - y
    BY <1>3, <2>1
  <2>. QED  BY <1>4, <2>2
<1>6. \E z \in S : \A y \in S : z >= y
  BY <1>5
<1>. QED  BY <1>6 DEF Max

\* An extent stays in the file when it is aligned, and begins no later.
LEMMA Aligned ==
  ASSUME blockSize \in Nat, blockSize > 0, NEW x \in ExtentRecord, NEW size \in Nat, x.start <= x.end, x.end <= size
  PROVE  /\ AlignedExtent(x, size) \in ExtentRecord
         /\ AlignedExtent(x, size).start <= x.start /\ x.start <= AlignedExtent(x, size).end
         /\ AlignedExtent(x, size).end <= size
<1>1. PICK s \in Nat, e \in Nat, b \in Nat : s = x.start /\ e = x.end /\ b = blockSize /\ b > 0
  BY ExtentFields
<1>2. PICK a \in Nat : a = (s \div b) * b /\ a <= s
  <2>1. PICK q \in Nat : q = s \div b
    BY <1>1
  <2>2. q * b \in Nat /\ q * b <= s
    BY <1>1, <2>1
  <2>. QED  BY <2>1, <2>2
<1>3. PICK r \in Nat : r = RoundUp(e) /\ e <= r
  <2>1. PICK q \in Nat : q = (e + b - 1) \div b
    BY <1>1
  <2>2. q * b \in Nat /\ e <= q * b
    BY <1>1, <2>1
  <2>3. RoundUp(e) = q * b
    BY <1>1, <2>1 DEF RoundUp
  <2>. QED  BY <2>2, <2>3
<1>4. PICK m \in Nat : m = Min({r, size}) /\ m <= size /\ s <= m
  <2>1. Min({r, size}) = IF r <= size THEN r ELSE size
    BY MinOfTwo
  <2>2. s <= r /\ s <= size
    BY <1>1, <1>3
  <2>. QED  BY <2>1, <2>2
<1>5. AlignedExtent(x, size) = [start |-> a, end |-> m]
  BY <1>1, <1>2, <1>3, <1>4 DEF AlignedExtent
<1>. QED  BY <1>1, <1>2, <1>4, <1>5 DEF ExtentRecord

\* The extent another one is joined to is one before it.
LEMMA PreviousBefore ==
  ASSUME NEW e \in Nat, e > 1
  PROVE  PreviousExtent(e) \in 1 .. e - 1
<1>1. PICK S : S = {j \in 2 .. e - 1 : exts[j].end # 0}
  OBVIOUS
<1>2. CASE S = {}
  <2>1. ~ \E j \in 2 .. e - 1 : exts[j].end # 0
    BY <1>1, <1>2
  <2>. QED  BY <2>1 DEF PreviousExtent
<1>3. CASE S # {}
  <2>1. S \in SUBSET (0 .. e)
    BY <1>1
  <2>2. Max(S) \in S
    BY <1>3, <2>1, GreatestOf
  <2>3. \E j \in 2 .. e - 1 : exts[j].end # 0
    BY <1>1, <1>3
  <2>4. PreviousExtent(e) = Max(S)
    BY <1>1, <2>3 DEF PreviousExtent
  <2>. QED  BY <1>1, <2>2, <2>4
<1>. QED  BY <1>2, <1>3

\* Extents that are aligned and joined are still extents of the input, in the order they begin.
LEMMA MergeKept ==
  ASSUME cfg \in Configs, IsFile(Input), SparseInv, SparseMerge(Input), Input' = Input
  PROVE  SparseInv'
<1>1. /\ spc = "merge" /\ ei <= Len(exts) /\ exts' = MergedExtents(StSize(Input))
      /\ (spc' = "failed" /\ ei' = ei) \/ (spc' = "merge" /\ ei' = ei + 1)
      /\ UNCHANGED <<blockSize, left, block, chunks, ch, pos, header, crc>>
  BY DEF SparseMerge
<1>2. /\ blockSize \in Nat /\ blockSize > 0 /\ ei \in Nat \ {0} /\ exts \in Seq(ExtentRecord)
      /\ \A i \in 1 .. Len(exts) : exts[i].start <= exts[i].end /\ exts[i].end <= StSize(Input)
      /\ \A i, j \in 1 .. Len(exts) : i < j /\ ei <= j => exts[i].start <= exts[j].start
  BY <1>1 DEF SparseInv, ExtentRecord
<1>3. PICK n \in Nat, e \in Nat, size \in Nat : n = Len(exts) /\ e = ei /\ e \in 1 .. n /\ size = StSize(Input)
  BY <1>1, <1>2, StSizeOf
<1>4. \A i \in 1 .. n : exts[i] \in ExtentRecord /\ exts[i].start \in Nat /\ exts[i].end \in Nat
  <2>1. \A i \in 1 .. n : exts[i] \in ExtentRecord
    BY <1>2, <1>3, ElementOfSeq
  <2>. QED  BY <2>1, ExtentFields
<1>5. PICK x \in ExtentRecord : /\ x = AlignedExtent(exts[e], size)
                                /\ x.start <= exts[e].start /\ exts[e].start <= x.end /\ x.end <= size
                                /\ x.start \in Nat /\ x.end \in Nat
  <2>1. PICK y \in ExtentRecord : y = exts[e] /\ y.start <= y.end /\ y.end <= size
    BY <1>2, <1>3, <1>4
  <2>2. blockSize \in Nat /\ blockSize > 0
    BY <1>2
  <2>3. /\ AlignedExtent(y, size) \in ExtentRecord
        /\ AlignedExtent(y, size).start <= y.start /\ y.start <= AlignedExtent(y, size).end
        /\ AlignedExtent(y, size).end <= size
    BY ONLY y \in ExtentRecord, size \in Nat, <2>1, <2>2, Aligned
  <2>. QED  BY <2>1, <2>3, ExtentFields
<1>6. PICK R : R = Removed /\ R \in ExtentRecord /\ R.start = 0 /\ R.end = 0
  <2>1. PICK r : r = [start |-> 0, end |-> 0]
    OBVIOUS
  <2>2. r \in [start : Nat, end : Nat] /\ r.start = 0 /\ r.end = 0
    BY <2>1
  <2>. QED  BY <2>1, <2>2 DEF Removed, ExtentRecord
<1>7. PICK j : j = PreviousExtent(e) /\ (e > 1 => j \in 1 .. e - 1)
  BY <1>3, PreviousBefore
<1>8. exts' = IF e > 1 /\ x.start <= exts[j].end
              THEN [exts EXCEPT ![j].end = x.end, ![e] = Removed]
              ELSE [exts EXCEPT ![e] = x]
  BY <1>1, <1>3, <1>5, <1>7 DEF MergedExtents
<1>9. /\ exts' \in Seq(ExtentRecord) /\ Len(exts') = n
      /\ \A i \in 1 .. n : /\ exts'[i].start \in Nat /\ exts'[i].end \in Nat
                           /\ exts'[i].start <= exts'[i].end /\ exts'[i].end <= size
                           /\ exts'[i].start <= exts[i].start
                           /\ i > e => exts'[i] = exts[i]
  <2>1. CASE e > 1 /\ x.start <= exts[j].end
    <3>1. j \in 1 .. n /\ j < e
      BY <1>3, <1>7, <2>1
    <3>2. PICK y : y = [start |-> exts[j].start, end |-> x.end]
      OBVIOUS
    <3>3. y \in ExtentRecord /\ y.start = exts[j].start /\ y.end = x.end
      BY <1>4, <1>5, <3>1, <3>2 DEF ExtentRecord
    <3>4. PICK z : z = x.end
      OBVIOUS
    <3>5. exts' = [[exts EXCEPT ![j].end = z] EXCEPT ![e] = R]
      BY <1>6, <1>8, <2>1, <3>4
    <3>6. [exts[j] EXCEPT !.end = z] = y
      BY <1>4, <3>1, <3>2, <3>4 DEF ExtentRecord
    <3>7. exts' = [[exts EXCEPT ![j] = y] EXCEPT ![e] = R]
      BY <3>5, <3>6, Zenon
    <3>8. PICK X : X = [exts EXCEPT ![j] = y]
      OBVIOUS
    <3>9. X \in Seq(ExtentRecord) /\ Len(X) = n /\ X[j] = y /\ \A i \in 1 .. n : i # j => X[i] = exts[i]
      BY <1>2, <1>3, <3>1, <3>3, <3>8
    <3>10. exts' = [X EXCEPT ![e] = R]
      BY <3>7, <3>8
    <3>11. exts' \in Seq(ExtentRecord) /\ Len(exts') = n /\ exts'[e] = R /\ \A i \in 1 .. n : i # e => exts'[i] = X[i]
      BY <1>3, <1>6, <3>9, <3>10
    <3>12. exts[j].start <= exts[e].start
      BY <1>2, <1>3, <3>1
    <3>13. exts'[j] = y /\ exts'[e] = R /\ \A i \in 1 .. n : i # j /\ i # e => exts'[i] = exts[i]
      BY <3>1, <3>9, <3>11
    <3>14. y.start <= y.end /\ y.end <= size
      <4>1. exts[j].start \in Nat /\ exts[e].start \in Nat
        BY <1>3, <1>4, <3>1
      <4>. QED  BY <1>5, <3>3, <3>12, <4>1
    <3>15. ASSUME NEW i \in 1 .. n
           PROVE  /\ exts'[i].start \in Nat /\ exts'[i].end \in Nat
                  /\ exts'[i].start <= exts'[i].end /\ exts'[i].end <= size
                  /\ exts'[i].start <= exts[i].start
                  /\ i > e => exts'[i] = exts[i]
      <4>1. CASE i = j
        BY <1>4, <1>5, <3>1, <3>3, <3>13, <3>14, <4>1
      <4>2. CASE i = e
        BY <1>3, <1>4, <1>6, <3>13, <4>2
      <4>3. CASE i # j /\ i # e
        BY <1>2, <1>3, <1>4, <3>13, <4>3
      <4>. QED  BY <4>1, <4>2, <4>3
    <3>. QED  BY <3>11, <3>15
  <2>2. CASE ~(e > 1 /\ x.start <= exts[j].end)
    <3>1. exts' = [exts EXCEPT ![e] = x]
      BY <1>8, <2>2
    <3>2. /\ exts' \in Seq(ExtentRecord) /\ Len(exts') = n /\ exts'[e] = x
          /\ \A i \in 1 .. n : i # e => exts'[i] = exts[i]
      BY <1>2, <1>3, <3>1
    <3>3. x.start <= x.end
      BY <1>3, <1>4, <1>5
    <3>4. ASSUME NEW i \in 1 .. n
          PROVE  /\ exts'[i].start \in Nat /\ exts'[i].end \in Nat
                 /\ exts'[i].start <= exts'[i].end /\ exts'[i].end <= size
                 /\ exts'[i].start <= exts[i].start
                 /\ i > e => exts'[i] = exts[i]
      <4>1. CASE i = e
        BY <1>3, <1>5, <3>2, <3>3, <4>1
      <4>2. CASE i # e
        BY <1>2, <1>3, <1>4, <3>2, <4>2
      <4>. QED  BY <4>1, <4>2
    <3>. QED  BY <3>2, <3>4
  <2>. QED  BY <2>1, <2>2
<1>10. ASSUME NEW i \in 1 .. n, NEW k \in 1 .. n, i < k, e + 1 <= k
       PROVE  exts'[i].start <= exts'[k].start
  <2>1. exts'[k] = exts[k] /\ exts[i].start <= exts[k].start
    BY <1>2, <1>3, <1>9, <1>10
  <2>2. exts'[i].start <= exts[i].start /\ exts'[i].start \in Nat /\ exts[i].start \in Nat /\ exts[k].start \in Nat
    BY <1>4, <1>9
  <2>. QED  BY <2>1, <2>2
<1>11. ei' \in Nat \ {0} /\ (spc' = "merge" => ei' = e + 1)
  BY <1>1, <1>2, <1>3
<1>. QED  BY <1>1, <1>2, <1>3, <1>9, <1>10, <1>11 DEF SparseInv, ExtentRecord

\* The header of the chunk being written goes over the one written before.
LEMMA FlushedChunks ==
  ASSUME NEW cs \in Seq(ChunkRecord), ch \in [type : {"none", RAW, FILL}, blocks : Nat, size : Nat], pos \in Nat
  PROVE  Flushed(cs) \in Seq(ChunkRecord) /\ Len(Flushed(cs)) = Len(cs)
<1>1. CASE ch.type = "none"
  BY <1>1 DEF Flushed
<1>2. CASE ch.type # "none" /\ pos \notin 1 .. Len(cs)
  <2>1. PICK x : x = Chunk(ch, cs[pos].data)
    OBVIOUS
  <2>2. Flushed(cs) = [cs EXCEPT ![pos] = x]
    BY <1>2, <2>1, Zenon DEF Flushed
  <2>3. DOMAIN cs = 1 .. Len(cs)
    OBVIOUS
  <2>4. [cs EXCEPT ![pos] = x] = cs
    BY <1>2, <2>3
  <2>. QED  BY <2>2, <2>4
<1>3. CASE ch.type # "none" /\ pos \in 1 .. Len(cs)
  <2>1. PICK x : x = Chunk(ch, cs[pos].data)
    OBVIOUS
  <2>2. Flushed(cs) = [cs EXCEPT ![pos] = x]
    BY <1>3, <2>1, Zenon DEF Flushed
  <2>3. cs[pos] \in ChunkRecord
    BY <1>3, ElementOfSeq
  <2>4. cs[pos].data \in Seq(Values)
    BY <2>3 DEF ChunkRecord
  <2>5. ch.type \in {RAW, FILL} /\ ch.blocks \in Nat /\ ch.size \in Nat
    BY <1>3
  <2>6. x \in ChunkRecord
    BY <2>1, <2>4, <2>5, MakeChunk
  <2>. QED  BY <1>3, <2>2, <2>6
<1>. QED  BY <1>1, <1>2, <1>3

LEMMA PayloadChunks ==
  ASSUME NEW cs \in Seq(ChunkRecord), NEW p \in Nat, NEW data \in Seq(Values)
  PROVE  Payload(cs, p, data) \in Seq(ChunkRecord) /\ Len(Payload(cs, p, data)) = Len(cs)
<1>1. PICK x : x = [cs[p] EXCEPT !.data = cs[p].data \o data]
  OBVIOUS
<1>2. Payload(cs, p, data) = [cs EXCEPT ![p] = x]
  BY <1>1, Zenon DEF Payload
<1>3. CASE p \notin 1 .. Len(cs)
  <2>1. DOMAIN cs = 1 .. Len(cs)
    OBVIOUS
  <2>2. [cs EXCEPT ![p] = x] = cs
    BY <1>3, <2>1
  <2>. QED  BY <1>2, <2>2
<1>4. CASE p \in 1 .. Len(cs)
  <2>1. PICK y \in ChunkRecord : y = cs[p]
    BY <1>4, ElementOfSeq
  <2>2. PICK d \in Seq(Values) : d = y.data \o data
    <3>1. PICK z \in Seq(Values) : z = y.data
      BY DEF ChunkRecord
    <3>. QED  BY <3>1, ConcatProperties
  <2>3. x = [y EXCEPT !.data = d]
    BY <1>1, <2>1, <2>2
  <2>4. x \in ChunkRecord
    BY <2>3 DEF ChunkRecord
  <2>. QED  BY <1>2, <1>4, <2>4
<1>. QED  BY <1>3, <1>4

\* A block of the input.
LEMMA BlockType ==
  ASSUME SparseInv, IsFile(Input), spc = "block", left > 0
  PROVE  /\ BlockData(Input) \in Seq(Values) /\ Len(BlockData(Input)) = blockSize /\ blockSize > 0
         /\ BlockData(Input)[1] \in Values
         /\ Now \in Nat /\ Now <= left
<1>1. /\ blockSize \in Nat /\ blockSize > 0 /\ ei \in Nat \ {0} /\ left \in Nat /\ exts \in Seq(ExtentRecord)
      /\ \A i \in 1 .. Len(exts) : exts[i].start <= exts[i].end /\ exts[i].end <= StSize(Input)
      /\ ei <= Len(exts) /\ left <= Length(exts[ei])
  BY DEF SparseInv, ExtentRecord
<1>2. ei \in 1 .. Len(exts)
  BY <1>1
<1>3. exts[ei] \in ExtentRecord
  BY <1>1, <1>2, ElementOfSeq
<1>4. PICK s \in Nat, e \in Nat, size \in Nat, l \in Nat, b \in Nat :
        /\ s = exts[ei].start /\ e = exts[ei].end /\ size = StSize(Input) /\ s <= e /\ e <= size /\ size = Input.size
        /\ l = left /\ l > 0 /\ l <= e - s /\ b = blockSize /\ b > 0
  BY <1>1, <1>2, <1>3, ExtentFields, StSizeOf DEF Length
<1>5. PICK n \in Nat : n = Now /\ n <= l /\ n <= b
  BY <1>4, MinOfTwo DEF Now
<1>6. PICK t : t = Input.at /\ t \in [0 .. size - 1 -> Values]
  BY <1>4 DEF IsFile
<1>7. BlockData(Input) = [i \in 1 .. b |-> IF i <= n THEN t[e - l + i - 1] ELSE 0]
  BY <1>4, <1>5, <1>6 DEF BlockData
<1>8. ASSUME NEW i \in 1 .. b PROVE (IF i <= n THEN t[e - l + i - 1] ELSE 0) \in Values
  <2>1. i <= n => e - l + i - 1 \in 0 .. size - 1
    BY <1>4, <1>5
  <2>. QED  BY <1>6, <2>1, ImageFileAssumption
<1>9. BlockData(Input) \in [1 .. b -> Values]
  BY <1>7, <1>8
<1>10. 1 \in 1 .. b
  BY <1>4
<1>. QED  BY <1>4, <1>5, <1>9, <1>10

\* The chunk a block is added to.
LEMMA BlockKept ==
  ASSUME IsFile(Input), SparseInv, SparseBlock(Input), Input' = Input
  PROVE  SparseInv'
<1>1. PICK data : data = BlockData(Input)
  OBVIOUS
<1>2. PICK h : h = IF Continues(data) THEN ch ELSE NewHeader(data)
  OBVIOUS
<1>3. PICK p : p = IF Continues(data) THEN pos ELSE Len(chunks) + 1
  OBVIOUS
<1>4. PICK cs : cs = IF Continues(data) THEN chunks
                     ELSE Append(Flushed(chunks), Chunk(h, IF IsFill(data) THEN <<data[1]>> ELSE << >>))
  OBVIOUS
<1>5. /\ spc = "block" /\ left > 0 /\ left' = left - Now
      /\ header' = IF Continues(data) THEN header ELSE Added(1)
      /\ pos' = p
      /\ IF IsFill(data)
         THEN ch' = [h EXCEPT !.blocks = @ + 1] /\ chunks' = cs
         ELSE /\ ch' = [h EXCEPT !.blocks = @ + 1, !.size = (@ + blockSize) % SizeMod]
              /\ chunks' = Payload(cs, p, data)
      /\ crc' = crc \o data
      /\ UNCHANGED <<blockSize, spc, exts, ei, block>>
  BY <1>1, <1>2, <1>3, <1>4, Zenon DEF SparseBlock
<1>6. /\ data \in Seq(Values) /\ Len(data) = blockSize /\ blockSize > 0 /\ data[1] \in Values
      /\ Now \in Nat /\ Now <= left
  BY <1>1, <1>5, BlockType
<1>7. /\ blockSize \in Nat /\ left \in Nat /\ pos \in Nat /\ chunks \in Seq(ChunkRecord)
      /\ ch \in [type : {"none", RAW, FILL}, blocks : Nat, size : Nat]
      /\ header \in [blocks : Nat, chunks : Nat] /\ crc \in Seq(Values)
      /\ ei <= Len(exts) /\ left <= Length(exts[ei])
  BY <1>5 DEF SparseInv
<1>8. SizeMod \in Nat \ {0} /\ ChunkHeader \in Nat
  BY SparseAssumption
<1>9. Continues(data) => ch.type \in {RAW, FILL}
  BY DEF Continues
<1>10. h \in [type : {RAW, FILL}, blocks : Nat, size : Nat]
  <2>1. CASE Continues(data)
    BY <1>2, <1>7, <1>9, <2>1
  <2>2. CASE ~Continues(data)
    <3>1. PICK k \in Nat : k = ChunkHeader + IF IsFill(data) THEN 1 ELSE 0
      BY <1>8
    <3>2. PICK t \in {RAW, FILL} : t = IF IsFill(data) THEN FILL ELSE RAW
      OBVIOUS
    <3>3. NewHeader(data) = [type |-> t, blocks |-> 0, size |-> k]
      BY <3>1, <3>2 DEF NewHeader
    <3>. QED  BY <1>2, <2>2, <3>1, <3>2, <3>3
  <2>. QED  BY <2>1, <2>2
<1>11. PICK t \in {RAW, FILL}, b \in Nat, z \in Nat : h = [type |-> t, blocks |-> b, size |-> z]
  BY <1>10
<1>12. ch' \in [type : {"none", RAW, FILL}, blocks : Nat, size : Nat]
  <2>1. CASE IsFill(data)
    <3>1. ch' = [h EXCEPT !.blocks = h.blocks + 1]
      BY <1>5, <2>1, Zenon
    <3>2. ch' = [type |-> t, blocks |-> b + 1, size |-> z]
      BY <1>11, <3>1
    <3>. QED  BY <3>2
  <2>2. CASE ~IsFill(data)
    <3>1. ch' = [h EXCEPT !.blocks = h.blocks + 1, !.size = (h.size + blockSize) % SizeMod]
      BY <1>5, <2>2, Zenon
    <3>2. PICK m \in Nat : m = (z + blockSize) % SizeMod
      BY <1>7, <1>8
    <3>3. ch' = [type |-> t, blocks |-> b + 1, size |-> m]
      BY <1>11, <3>1, <3>2
    <3>. QED  BY <3>3
  <2>. QED  BY <2>1, <2>2
<1>13. p \in Nat
  BY <1>3, <1>7
<1>14. cs \in Seq(ChunkRecord)
  <2>1. CASE Continues(data)
    BY <1>4, <1>7, <2>1
  <2>2. CASE ~Continues(data)
    <3>1. PICK d \in Seq(Values) : d = IF IsFill(data) THEN <<data[1]>> ELSE << >>
      <4>1. PICK v \in Values : v = data[1]
        BY <1>6
      <4>2. <<v>> \in Seq(Values) /\ << >> \in Seq(Values)
        OBVIOUS
      <4>. QED  BY <4>1, <4>2
    <3>2. PICK x : x = Chunk(h, d)
      OBVIOUS
    <3>3. x \in ChunkRecord
      BY <1>11, <3>2, MakeChunk
    <3>4. PICK fs \in Seq(ChunkRecord) : fs = Flushed(chunks)
      BY <1>7, FlushedChunks
    <3>5. cs = Append(fs, x)
      BY <1>4, <2>2, <3>1, <3>2, <3>4
    <3>. QED  BY <3>3, <3>5
  <2>. QED  BY <2>1, <2>2
<1>15. chunks' \in Seq(ChunkRecord)
  BY <1>5, <1>6, <1>13, <1>14, PayloadChunks
<1>16. header' \in [blocks : Nat, chunks : Nat]
  <2>1. Added(1) \in [blocks : Nat, chunks : Nat]
    <3>1. PICK x \in Nat, y \in Nat : header = [blocks |-> x, chunks |-> y]
      BY <1>7
    <3>2. Added(1) = [header EXCEPT !.chunks = header.chunks + 1]
      BY Zenon DEF Added
    <3>3. Added(1) = [blocks |-> x, chunks |-> y + 1]
      BY <3>1, <3>2
    <3>. QED  BY <3>3
  <2>. QED  BY <1>5, <1>7, <2>1
<1>17. crc' \in Seq(Values)
  BY <1>5, <1>6, <1>7, ConcatProperties
<1>18. left' \in Nat /\ left' <= left
  <2>1. PICK l \in Nat, k \in Nat : l = left /\ k = Now /\ k <= l
    BY <1>6, <1>7
  <2>2. left' = l - k
    BY <1>5, <2>1
  <2>. QED  BY <2>1, <2>2
<1>19. left' <= Length(exts[ei])
  <2>1. Length(exts[ei]) \in Nat
    <3>1. ei \in 1 .. Len(exts) /\ exts \in Seq(ExtentRecord) /\ exts[ei].start <= exts[ei].end
      <4>1. /\ ei \in Nat \ {0} /\ ei <= Len(exts) /\ exts \in Seq(ExtentRecord)
            /\ \A i \in 1 .. Len(exts) : exts[i].start <= exts[i].end
        BY <1>5 DEF SparseInv, ExtentRecord
      <4>2. ei \in 1 .. Len(exts)
        BY <4>1
      <4>. QED  BY <4>1, <4>2
    <3>2. exts[ei] \in ExtentRecord
      BY <3>1, ElementOfSeq
    <3>. QED  BY <3>1, <3>2, ExtentFields DEF Length
  <2>. QED  BY <1>7, <1>18, <2>1
<1>20. Length(exts[ei])' = Length(exts[ei])
  BY <1>5 DEF Length
<1>. QED  BY <1>5, <1>12, <1>3, <1>13, <1>15, <1>16, <1>17, <1>18, <1>19, <1>20 DEF SparseInv

\* The extents of the input are read.
LEMMA OpenKept ==
  ASSUME IsFile(Input), SparseInv, SparseOpen(Input), Input' = Input
  PROVE  SparseInv'
<1>1. UNCHANGED <<blockSize, ei, left, block, chunks, ch, pos, crc>> /\ spc = "open"
  BY DEF SparseOpen
<1>2. PICK n \in Nat : n = StSize(Input)
  BY StSizeOf
<1>3. CASE UNCHANGED <<exts, header>> /\ spc' \in {"crash", "failed"}
  BY <1>1, <1>3 DEF SparseInv
<1>4. CASE /\ blockSize # 0 /\ exts' = MapFileExtents(Input, n) /\ spc' = "merge"
           /\ header' = [blocks |-> RoundUp(n) \div blockSize, chunks |-> 0]
  <2>1. PICK b \in Nat : b = blockSize /\ b > 0
    BY <1>4 DEF SparseInv
  <2>2. PICK q \in Nat : q = RoundUp(n) \div blockSize
    <3>1. PICK a \in Nat : a = (n + b - 1) \div b
      BY <2>1
    <3>2. RoundUp(n) = a * b /\ a * b \in Nat
      BY <2>1, <3>1 DEF RoundUp
    <3>3. (a * b) \div b \in Nat
      BY <2>1, <3>1
    <3>. QED  BY <2>1, <3>2, <3>3
  <2>3. header' \in [blocks : Nat, chunks : Nat]
    BY <1>4, <2>2
  <2>4. InOrder(exts', n)
    BY <1>4, ExtentsInOrder
  <2>5. /\ exts' \in Seq(ExtentRecord)
        /\ \A i \in 1 .. Len(exts') : exts'[i].start <= exts'[i].end /\ exts'[i].end <= n
        /\ \A i, j \in 1 .. Len(exts') : i < j => exts'[i].end <= exts'[j].start
    BY <2>4 DEF InOrder, ExtentRecord
  <2>6. \A i \in 1 .. Len(exts') : exts'[i].start \in Nat /\ exts'[i].end \in Nat
    <3>1. \A i \in 1 .. Len(exts') : exts'[i] \in ExtentRecord
      BY <2>5, ElementOfSeq
    <3>. QED  BY <3>1, ExtentFields
  <2>7. \A i, j \in 1 .. Len(exts') : i < j => exts'[i].start <= exts'[j].start
    <3> SUFFICES ASSUME NEW i \in 1 .. Len(exts'), NEW j \in 1 .. Len(exts'), i < j
                 PROVE  exts'[i].start <= exts'[j].start
      OBVIOUS
    <3>1. exts'[i].end <= exts'[j].start /\ exts'[i].start <= exts'[i].end
      BY <2>5
    <3>. QED  BY <2>6, <3>1
  <2>. QED  BY <1>1, <1>2, <1>4, <2>1, <2>3, <2>5, <2>7 DEF SparseInv, ExtentRecord
<1>. QED  BY <1>2, <1>3, <1>4 DEF SparseOpen

\* An extent is begun, with the hole in front of it, and ended.
LEMMA ExtentKept ==
  ASSUME SparseInv, SparseExtent, Input' = Input
  PROVE  SparseInv'
<1>1. /\ spc = "extent" /\ ei <= Len(exts) /\ Length(exts[ei]) > 0 /\ spc' = "block"
      /\ left' = Length(exts[ei]) /\ ch' = NoChunk /\ pos' = Len(chunks') + 1 /\ UNCHANGED <<blockSize, exts, ei>>
  BY DEF SparseExtent
<1>2. /\ blockSize \in Nat /\ blockSize > 0 /\ ei \in Nat \ {0} /\ exts \in Seq(ExtentRecord) /\ block \in Nat
      /\ chunks \in Seq(ChunkRecord) /\ header \in [blocks : Nat, chunks : Nat] /\ crc \in Seq(Values)
      /\ \A i \in 1 .. Len(exts) : exts[i].start <= exts[i].end
  BY <1>1 DEF SparseInv, ExtentRecord
<1>3. ei \in 1 .. Len(exts)
  BY <1>1, <1>2
<1>4. exts[ei] \in ExtentRecord
  BY <1>2, <1>3, ElementOfSeq
<1>5. PICK q \in Nat : q = exts[ei].start \div blockSize
  <2>1. PICK s \in Nat, b \in Nat : s = exts[ei].start /\ b = blockSize /\ b > 0
    BY <1>2, <1>4, ExtentFields
  <2>2. s \div b \in Nat
    BY <2>1
  <2>. QED  BY <2>1, <2>2
<1>6. Length(exts[ei]) \in Nat
  <2>1. PICK s \in Nat, e \in Nat : s = exts[ei].start /\ e = exts[ei].end /\ s <= e
    BY <1>2, <1>3, <1>4, ExtentFields
  <2>. QED  BY <2>1 DEF Length
<1>7. PICK hole : hole = Chunk([type |-> DONTCARE, blocks |-> q - block, size |-> ChunkHeader], << >>)
  OBVIOUS
<1>8. \/ /\ q - block > 0 /\ chunks' = Append(chunks, hole) /\ header' = Added(1) /\ block' = q
         /\ crc' = crc \o Zeros((q - block) * blockSize)
      \/ UNCHANGED <<chunks, header, block, crc>>
  BY <1>5, <1>7 DEF SparseExtent
<1>9. /\ chunks' \in Seq(ChunkRecord) /\ header' \in [blocks : Nat, chunks : Nat] /\ block' \in Nat
      /\ crc' \in Seq(Values)
  <2>1. CASE UNCHANGED <<chunks, header, block, crc>>
    BY <1>2, <2>1
  <2>2. CASE /\ q - block > 0 /\ chunks' = Append(chunks, hole) /\ header' = Added(1) /\ block' = q
             /\ crc' = crc \o Zeros((q - block) * blockSize)
    <3>1. PICK k \in Nat : k = q - block
      BY <1>2, <2>2
    <3>2. PICK m \in Nat : m = k * blockSize
      BY <1>2, <3>1
    <3>3. Zeros(m) \in Seq(Values)
      <4>1. Zeros(m) \in [1 .. m -> Values]
        BY ImageFileAssumption DEF Zeros
      <4>. QED  BY <4>1
    <3>4. hole \in ChunkRecord
      <4>1. PICK h : h = [type |-> DONTCARE, blocks |-> k, size |-> ChunkHeader]
        OBVIOUS
      <4>2. h.type = DONTCARE /\ h.blocks = k /\ h.size = ChunkHeader /\ ChunkHeader \in Nat
        BY <4>1, SparseAssumption
      <4>3. << >> \in Seq(Values)
        OBVIOUS
      <4>4. Chunk(h, << >>) \in ChunkRecord
        BY <4>2, <4>3, MakeChunk
      <4>. QED  BY <1>7, <3>1, <4>1, <4>4
    <3>5. Added(1) \in [blocks : Nat, chunks : Nat]
      <4>1. PICK x \in Nat, y \in Nat : header = [blocks |-> x, chunks |-> y]
        BY <1>2
      <4>2. Added(1) = [header EXCEPT !.chunks = header.chunks + 1]
        BY Zenon DEF Added
      <4>3. Added(1) = [blocks |-> x, chunks |-> y + 1]
        BY <4>1, <4>2
      <4>. QED  BY <4>3
    <3>6. chunks' \in Seq(ChunkRecord)
      BY <1>2, <2>2, <3>4
    <3>7. crc' \in Seq(Values)
      BY <1>2, <2>2, <3>1, <3>2, <3>3, ConcatProperties
    <3>. QED  BY <2>2, <3>5, <3>6, <3>7
  <2>. QED  BY <1>8, <2>1, <2>2
<1>10. NoChunk \in [type : {"none", RAW, FILL}, blocks : Nat, size : Nat]
  BY DEF NoChunk
<1>11. pos' \in Nat
  BY <1>1, <1>9
<1>12. Length(exts[ei])' = Length(exts[ei]) /\ left' <= Length(exts[ei])
  BY <1>1, <1>6 DEF Length
<1>. QED  BY <1>1, <1>6, <1>9, <1>10, <1>11, <1>12 DEF SparseInv

LEMMA ExtentEndKept ==
  ASSUME SparseInv, SparseExtentEnd, Input' = Input
  PROVE  SparseInv'
<1>1. /\ spc = "block" /\ chunks' = Flushed(chunks) /\ block' = exts[ei].end \div blockSize
      /\ ei' = ei + 1 /\ spc' = "extent" /\ UNCHANGED <<blockSize, exts, left, ch, pos, header, crc>>
  BY DEF SparseExtentEnd
<1>2. /\ blockSize \in Nat /\ blockSize > 0 /\ ei \in Nat \ {0} /\ ei <= Len(exts) /\ exts \in Seq(ExtentRecord)
      /\ chunks \in Seq(ChunkRecord) /\ pos \in Nat /\ ch \in [type : {"none", RAW, FILL}, blocks : Nat, size : Nat]
  BY <1>1 DEF SparseInv, ExtentRecord
<1>3. chunks' \in Seq(ChunkRecord)
  BY <1>1, <1>2, FlushedChunks
<1>4. block' \in Nat
  <2>1. ei \in 1 .. Len(exts)
    BY <1>2
  <2>2. exts[ei] \in ExtentRecord
    BY <1>2, <2>1, ElementOfSeq
  <2>3. PICK e \in Nat, b \in Nat : e = exts[ei].end /\ b = blockSize /\ b > 0
    BY <1>2, <2>2, ExtentFields
  <2>4. e \div b \in Nat
    BY <2>3
  <2>. QED  BY <1>1, <2>3, <2>4
<1>5. ei' \in Nat \ {0}
  BY <1>1, <1>2
<1>. QED  BY <1>1, <1>3, <1>4, <1>5 DEF SparseInv

LEMMA FinishKept ==
  ASSUME SparseInv, SparseFinish, Input' = Input
  PROVE  SparseInv'
<1>1. /\ spc = "extent" /\ spc' = "ok" /\ header' = Added(1)
      /\ chunks' = Append(chunks, Chunk([type |-> CRC32, blocks |-> 0, size |-> ChunkHeader + 1], << >>))
      /\ UNCHANGED <<blockSize, exts, ei, left, block, ch, pos, crc>>
  BY DEF SparseFinish
<1>2. chunks \in Seq(ChunkRecord) /\ header \in [blocks : Nat, chunks : Nat]
  BY DEF SparseInv
<1>3. chunks' \in Seq(ChunkRecord)
  <2>1. PICK h : h = [type |-> CRC32, blocks |-> 0, size |-> ChunkHeader + 1]
    OBVIOUS
  <2>2. h.type = CRC32 /\ h.blocks \in Nat /\ h.size \in Nat
    BY <2>1, SparseAssumption
  <2>3. << >> \in Seq(Values)
    OBVIOUS
  <2>4. Chunk(h, << >>) \in ChunkRecord
    BY <2>2, <2>3, MakeChunk
  <2>. QED  BY <1>1, <1>2, <2>1, <2>4
<1>4. header' \in [blocks : Nat, chunks : Nat]
  <2>1. PICK x \in Nat, y \in Nat : header = [blocks |-> x, chunks |-> y]
    BY <1>2
  <2>2. header' = [header EXCEPT !.chunks = header.chunks + 1]
    BY <1>1, Zenon DEF Added
  <2>3. header' = [blocks |-> x, chunks |-> y + 1]
    BY <2>1, <2>2
  <2>. QED  BY <2>3
<1>. QED  BY <1>1, <1>3, <1>4 DEF SparseInv

\* Every step of the handler keeps what is said of the sparse image.
LEMMA SparseStepKept ==
  ASSUME cfg \in Configs, IsFile(Input), SparseInv, SparseGenerate(Input), Input' = Input
  PROVE  SparseInv'
<1>1. CASE SparseOpen(Input)
  BY <1>1, OpenKept
<1>2. CASE SparseMerge(Input)
  BY <1>2, MergeKept
<1>3. CASE SparseCreate
  <2>1. << >> \in Seq(ChunkRecord)
    OBVIOUS
  <2>2. 1 \in Nat \ {0}
    OBVIOUS
  <2>. QED  BY <1>3, <2>1, <2>2 DEF SparseCreate, SparseInv
<1>4. CASE SkipExtent
  <2>1. ei' \in Nat \ {0} /\ spc = "extent" /\ spc' = "extent"
    BY <1>4 DEF SkipExtent, SparseInv
  <2>. QED  BY <1>4, <2>1 DEF SkipExtent, SparseInv
<1>5. CASE SparseExtent
  BY <1>5, ExtentKept
<1>6. CASE SparseBlock(Input)
  BY <1>6, BlockKept
<1>7. CASE SparseExtentEnd
  BY <1>7, ExtentEndKept
<1>8. CASE SparseFinish
  BY <1>8, FinishKept
<1>9. CASE SparseFails
  BY <1>9 DEF SparseFails, SparseInv
<1>. QED  BY <1>1, <1>2, <1>3, <1>4, <1>5, <1>6, <1>7, <1>8, <1>9 DEF SparseGenerate

\* Before the sparse image is begun there are no extents of its input to speak of.
LEMMA SparseFrame ==
  ASSUME SparseInv, UNCHANGED sparse, spc \in {"setup", "refused", "open"} \/ Input' = Input
  PROVE  SparseInv'
<1>1. /\ blockSize' = blockSize /\ spc' = spc /\ exts' = exts /\ ei' = ei /\ left' = left /\ block' = block
      /\ chunks' = chunks /\ ch' = ch /\ pos' = pos /\ header' = header /\ crc' = crc
  BY DEF sparse
<1>2. CASE spc \in {"setup", "refused", "open"}
  BY <1>1, <1>2 DEF SparseInv
<1>3. CASE Input' = Input
  BY <1>1, <1>3 DEF SparseInv, Length
<1>. QED  BY <1>2, <1>3

LEMMA PhaseKept ==
  ASSUME Inv, [Next]_vars
  PROVE  PhaseInv' /\ SparseInv'
<1>1. /\ PhaseInv /\ SparseInv /\ cfg \in Configs /\ IsFile(out) /\ IsFile(Source)
  BY ConfigOf DEF Inv, PhaseInv, CallInv
<1>2. IsFile(Input)
  BY <1>1, ChildOf DEF Input
<1>3. ASSUME Core' PROVE cfg' \in Configs /\ childSize' \in Nat
  BY <1>3 DEF Core
<1>4. Core'
  BY CoreKept DEF Inv, Core, PhaseInv
<1>5. CASE UNCHANGED vars
  <2>1. /\ cfg' = cfg /\ ppc' = ppc /\ sourceThere' = sourceThere /\ childSize' = childSize
        /\ childThere' = childThere /\ out' = out /\ UNCHANGED sparse /\ spc' = spc
    BY <1>5 DEF vars, pipeline, sparse
  <2>2. Input' = Input
    BY <2>1 DEF Input, Child, Source
  <2>. QED  BY <1>1, <2>1, <2>2, SparseFrame DEF PhaseInv
<1>6. CASE FileSetup \/ ContainerSetup \/ FileStays \/ FileCopy \/ FileCopyFails \/ FlashImageGenerate \/ HdImageGenerate
  <2>1. /\ UNCHANGED sparse /\ spc' = spc /\ ppc \in Phases \ {"sparse", "ok", "failed"}
    BY <1>6 DEF FileSetup, ContainerSetup, FileStays, FileCopy, FileCopyFails, FlashImageGenerate,
                HdImageGenerate, Unchanged, sparse, Phases
  <2>2. spc \in {"setup", "refused", "open"}
    BY <1>1, <2>1 DEF PhaseInv
  <2>3. ppc' \in Phases /\ sourceThere' \in BOOLEAN /\ childThere' \in BOOLEAN
    <3>1. sourceThere \in BOOLEAN /\ childThere \in BOOLEAN
      BY <1>1 DEF PhaseInv
    <3>2. sourceThere' \in BOOLEAN /\ childThere' \in BOOLEAN
      BY <1>6, <1>1, <3>1, ConfigOf DEF FileSetup, ContainerSetup, FileStays, FileCopy, FileCopyFails, FlashImageGenerate,
                HdImageGenerate, Unchanged
    <3>3. ppc' \in Phases
      BY <1>6, <2>1 DEF FileSetup, ContainerSetup, FileStays, FileCopy, FileCopyFails, FlashImageGenerate,
                HdImageGenerate, HdPrepare, HdSkip, HdPart, HdPartDone, HdDone, HdInsert, Go, AfterFile, Phases
    <3>. QED  BY <3>2, <3>3
  <2>. QED  BY <1>1, <1>3, <1>4, <2>1, <2>2, <2>3, SparseFrame DEF PhaseInv
<1>7. CASE SparseImageSetup
  <2>1. /\ ppc = "sparse setup" /\ SparseSetup /\ ppc' = (IF spc' = "refused" THEN "failed" ELSE "file")
        /\ UNCHANGED <<cfg, sourceThere, childSize, childThere>>
    BY <1>7 DEF SparseImageSetup, Go
  <2>2. spc' \in {"refused", "open"} /\ UNCHANGED <<blockSize, exts, ei, left, block, chunks, ch, pos, header, crc>>
    BY <2>1 DEF SparseSetup
  <2>3. SparseInv'
    BY <1>1, <2>2 DEF SparseInv
  <2>. QED  BY <1>1, <2>1, <2>2, <2>3 DEF PhaseInv, Phases
<1>8. CASE SparseImageGenerate
  <2>1. /\ ppc = "sparse" /\ SparseGenerate(Input) /\ ppc' \in {"sparse", "ok", "failed"}
        /\ UNCHANGED <<cfg, sourceThere, childSize, childThere, out>>
    BY <1>8 DEF SparseImageGenerate, Go
  <2>2. Input' = Input
    BY <2>1 DEF Input, Child, Source
  <2>3. SparseInv'
    BY <1>1, <1>2, <2>1, <2>2, SparseStepKept
  <2>. QED  BY <1>1, <2>1, <2>3 DEF PhaseInv, Phases
<1>9. CASE Over
  BY <1>5, <1>9 DEF Over
<1>. QED  BY <1>5, <1>6, <1>7, <1>8, <1>9 DEF Next, Step

LEMMA NextInv == Inv /\ [Next]_vars => Inv'
<1> SUFFICES ASSUME Inv, [Next]_vars PROVE Inv'
  OBVIOUS
<1>1. Core'
  BY CoreKept DEF Inv, Core, PhaseInv
<1>. QED  BY <1>1, PhaseKept DEF Inv, Core

\* The invariant holds in every state of every behaviour.
THEOREM PipelineInv == Spec => []Inv
BY InitInv, NextInv, PTL DEF Spec

-----------------------------------------------------------------------------
(***************************************************************************)
(* What the runs check, for every configuration.                           *)
(***************************************************************************)
\* Every variable has its type; in particular flash_setup stays in the partitions it was given and
\* insert_image leaves a file that is one.
THEOREM TypeCorrect == Spec => []TypeOK
<1>1. ASSUME Inv PROVE TypeOK
  <2>1. /\ LayoutInv /\ PhaseInv /\ CallInv /\ SparseInv
    BY <1>1 DEF Inv
  <2>2. /\ ppc \in Phases /\ sourceThere \in BOOLEAN /\ childThere \in BOOLEAN /\ childSize \in Nat
    BY <2>1 DEF PhaseInv
  <2>3. /\ typed \in BOOLEAN /\ last \in BOOLEAN /\ parts \in Seq(Partition)
        /\ {imageSize, partsize, end, faults} \subseteq Nat
        /\ at \in 1 .. Len(parts) + 1 /\ fpc \in FlashPhases
    BY <2>1 DEF LayoutInv
  <2>4. /\ IsFile(out) /\ call.pc \in {"none", "open", "extent", "copy", "ok", "failed"}
        /\ {call.size, call.offset, call.inPos} \subseteq Nat
    <3>1. CASE call.pc = "none"
      BY <2>1, <3>1 DEF CallInv, CallGood, NoCall
    <3>2. CASE call.pc # "none"
      BY <2>1, <3>2 DEF CallInv, CallGood, ArgumentsOf
    <3>. QED  BY <3>1, <3>2
  <2>5. /\ {ei, left, block, pos, blockSize} \subseteq Nat
        /\ spc \in {"setup", "refused", "open", "crash", "merge", "extent", "block", "ok", "failed"}
        /\ exts \in Seq([start : Nat, end : Nat]) /\ chunks \in Seq(ChunkRecord)
        /\ header \in [blocks : Nat, chunks : Nat] /\ crc \in Seq(Values)
    BY <2>1 DEF SparseInv
  <2>6. \A i \in DOMAIN chunks : chunks[i].type \in {RAW, FILL, DONTCARE, CRC32}
    <3>1. \A i \in 1 .. Len(chunks) : chunks[i] \in ChunkRecord
      BY <2>5, ElementOfSeq
    <3>2. DOMAIN chunks = 1 .. Len(chunks)
      BY <2>5
    <3>. QED  BY <3>1, <3>2 DEF ChunkRecord
  <2>. QED  BY <2>2, <2>3, <2>4, <2>5, <2>6 DEF TypeOK, Phases, FlashPhases
<1>. QED  BY <1>1, PipelineInv, PTL

\* A flash image that is finished has every partition's image where the layout puts it, is erased
\* everywhere else, ends where the layout or the section says, and is laid out on the flash.
THEOREM FlashComplete == Spec => []FlashImageComplete
<1>1. ASSUME Inv PROVE FlashImageComplete
  <2> SUFFICES ASSUME fpc = "done"
               PROVE  /\ \A i \in DOMAIN parts :
                           /\ PartHolds(parts[i])
                           /\ parts[i].image # NoChild /\ cfg.declared = 0 => StSize(Source) <= parts[i].size
                           /\ \A j \in 1 .. i - 1 : PartEnd(parts[j]) <= parts[i].offset
                      /\ partsize <= FlashSize
                      /\ \A u \in 0 .. partsize - 1 : ~InSomePart(u) => Unit(out, u) = Erased
                      /\ ~out.device => out.size = Max({imageSize, partsize})
    BY DEF FlashImageComplete
  <2>1. Core
    BY <1>1 DEF Inv, Core, PhaseInv
  <2>2. cfg.kind = "flash"
    BY <2>1 DEF Core, LayoutInv
  <2>3. PICK n \in Nat : n = Len(parts) /\ DOMAIN parts = 1 .. n /\ parts \in Seq(Partition)
    BY <2>1 DEF Core, LayoutInv
  <2>4. at = n + 1 /\ at - 1 = n
    BY <2>1, <2>2, <2>3 DEF Core, FlashInv
  <2>5. end = partsize /\ partsize \in Nat /\ partsize <= FlashSize
    <3>1. at = n + 1 => EndBefore = partsize
      BY <2>1, <2>2, <2>3, PlacedBefore
    <3>2. partsize <= FlashSize
      BY <2>1, <2>2, PlacedBefore
    <3>3. end = EndBefore
      BY <2>1, <2>2 DEF Core, FlashInv
    <3>. QED  BY <2>1, <2>4, <3>1, <3>2, <3>3 DEF Core, LayoutInv
  <2>6. \A i \in 1 .. n : PartHolds(parts[i])
    BY <2>1, <2>2, <2>4 DEF Core, FlashInv
  <2>7. \A i \in 1 .. n : /\ \A j \in 1 .. i - 1 : PartEnd(parts[j]) <= parts[i].offset
                          /\ parts[i].image # NoChild => Given <= parts[i].size
    BY <2>1, <2>2, <2>3 DEF Core, PlacedInv, NumPlaced
  <2>8. cfg.declared = 0 => Given = StSize(Source)
    BY DEF Given, Child
  <2>9. Filled = partsize /\ Reach = partsize /\ GapsErased
    BY <2>1, <2>2, <2>5 DEF Core, FlashInv, Filled, Reach
  <2>10. \A u \in 0 .. partsize - 1 : ~InSomePart(u) => Unit(out, u) = Erased
    <3>1. \A u \in 0 .. partsize - 1 : u \in Nat /\ u < partsize
      BY <2>5
    <3>. QED  BY <2>9, <3>1 DEF GapsErased
  <2>11. ~out.device => out.size = Max({imageSize, partsize})
    <3> SUFFICES ASSUME ~out.device PROVE out.size = Max({imageSize, partsize})
      OBVIOUS
    <3>1. out.size = IF imageSize >= partsize THEN imageSize ELSE partsize
      <4>1. call.pc = "none"
        BY <2>1 DEF Core, CallInv
      <4>. QED  BY <2>1, <2>2, <2>9, <4>1 DEF Core, FlashInv
    <3>2. Max({imageSize, partsize}) = IF imageSize >= partsize THEN imageSize ELSE partsize
      BY <2>1, MaxOfTwo DEF Core, LayoutInv
    <3>. QED  BY <3>1, <3>2
  <2>. QED  BY <2>3, <2>5, <2>6, <2>7, <2>8, <2>10, <2>11
<1>. QED  BY <1>1, PipelineInv, PTL

-----------------------------------------------------------------------------
(***************************************************************************)
(* Making images never costs the user an input.                            *)
(***************************************************************************)
\* A step of genimage after which the input file is gone is the copy of a file onto itself under
\* another name.
THEOREM KeepsInput == Spec => InputKept
<1>1. Inv /\ [Next]_vars => [sourceThere => sourceThere' \/ cfg.names = "same file"]_vars
  <2> SUFFICES ASSUME Inv, [Next]_vars, sourceThere, ~sourceThere' PROVE cfg.names = "same file"
    OBVIOUS
  <2>1. FileCopy
    BY DEF Next, Step, Over, vars, pipeline, FileSetup, ContainerSetup, SparseImageSetup, FileStays,
           FileCopyFails, FlashImageGenerate, HdImageGenerate, Unchanged, SparseImageGenerate
  <2>2. cfg.names # "same name" /\ cfg.names # "other file"
    BY <2>1 DEF FileCopy
  <2>3. cfg.names \in Names
    BY ConfigOf DEF Inv, PhaseInv
  <2>. QED  BY <2>2, <2>3 DEF Names
<1>. QED  BY <1>1, PipelineInv, PTL DEF Spec, InputKept

-----------------------------------------------------------------------------
(***************************************************************************)
(* insert_image keeps the promise of FileRange.                            *)
(***************************************************************************)
\* How a state of the pipeline looks to FileRange.
Content == [p \in 0 .. MaxPos |-> Unit(out, p)]
Standing == IF call.pc = "none" THEN "idle" ELSE IF call.pc = "failed" THEN "failed" ELSE "busy"

LEMMA PromiseForms ==
  /\ Promise!Init <=> Content \in [0 .. MaxPos -> Values] /\ call.wanted = << >> /\ Standing = "idle"
  /\ Promise!Replace <=> /\ Standing = "idle" /\ Standing' = "idle"
                         /\ Content' \in [0 .. MaxPos -> Values] /\ call'.wanted = call.wanted
  /\ Promise!Call <=> /\ Standing = "idle" /\ Standing' = "busy"
                      /\ DOMAIN call'.wanted \subseteq 0 .. MaxPos
                      /\ call'.wanted \in [DOMAIN call'.wanted -> Values] /\ Content' = Content
  /\ Promise!Write <=> /\ call'.wanted = call.wanted
                       /\ \A p \in 0 .. MaxPos :
                            \/ Content'[p] = Content[p]
                            \/ p \in DOMAIN call.wanted /\ Content'[p] = call.wanted[p]
  /\ Promise!Update <=> Standing = "busy" /\ Standing' = "busy" /\ Promise!Write
  /\ Promise!Return <=> /\ Standing = "busy" /\ Standing' = "idle"
                        /\ \A p \in 0 .. MaxPos : p \notin DOMAIN call.wanted \/ Content[p] = call.wanted[p]
                        /\ call'.wanted = << >> /\ Content' = Content
  /\ Promise!Fail <=> Standing = "busy" /\ Standing' = "failed" /\ Promise!Write
  /\ Promise!Ignore <=> /\ Standing = "failed" /\ Standing' = "idle"
                        /\ call'.wanted = << >> /\ Content' = Content
  /\ Promise!Next <=> \/ Promise!Replace \/ Promise!Call \/ Promise!Update \/ Promise!Return \/ Promise!Fail
                      \/ Promise!Ignore
BY DEF Promise!Init, Promise!Replace, Promise!Call, Promise!Write, Promise!Update, Promise!Return, Promise!Fail,
       Promise!Ignore, Promise!Next, Promise!Settled, Content, Standing

LEMMA ContentType ==
  ASSUME NEW f, IsFile(f)
  PROVE  [p \in 0 .. MaxPos |-> Unit(f, p)] \in [0 .. MaxPos -> Values]
<1>1. \A p \in 0 .. MaxPos : p \in Nat
  BY PositionsAssumption
<1>. QED  BY <1>1, UnitType

\* A call of insert_image is a call, for a range of the file.
LEMMA CallPromised ==
  ASSUME call.pc = "none", out' = out, NEW sub, sub # NoSub => IsFile(sub), NEW size \in Nat, NEW offset \in Nat,
         NEW value \in Values, InsertImage(sub, size, offset, value), offset + size <= MaxPos + 1
  PROVE  Promise!Call
<1>1. call'.pc = "open" /\ call'.wanted = WantedBy(sub, size, offset, value)
  BY CallMade
<1>2. /\ DOMAIN WantedBy(sub, size, offset, value) = offset .. offset + size - 1
      /\ WantedBy(sub, size, offset, value) \in [offset .. offset + size - 1 -> Values]
  BY WantedType
<1>3. PICK w : w = WantedBy(sub, size, offset, value)
  OBVIOUS
<1>4. DOMAIN w \subseteq 0 .. MaxPos
  BY <1>2, <1>3, PositionsAssumption
<1>5. w \in [DOMAIN w -> Values]
  BY <1>2, <1>3
<1>6. Content' = Content /\ Standing = "idle" /\ Standing' = "busy"
  BY <1>1 DEF Content, Standing
<1>. QED  BY <1>1, <1>3, <1>4, <1>5, <1>6, PromiseForms

\* It returns when its range is written.
LEMMA ReturnPromised ==
  ASSUME CallGood(call, out), call.pc = "ok", call' = NoCall, out' = out
  PROVE  Promise!Return
<1>1. Content' = Content /\ Standing = "busy" /\ Standing' = "idle" /\ call'.wanted = << >>
  BY DEF Content, Standing, NoCall
<1>2. ASSUME NEW p \in 0 .. MaxPos, p \in DOMAIN call.wanted PROVE Content[p] = call.wanted[p]
  <2>1. Unit(out, p) = call.wanted[p]
    BY <1>2, OkSettled
  <2>. QED  BY <2>1 DEF Content
<1>. QED  BY <1>1, <1>2, PromiseForms

\* Its steps write in its range, what belongs there.
LEMMA StepPromised ==
  ASSUME CallGood(call, out), IsFile(out), InsertStep
  PROVE  Promise!Update \/ Promise!Fail
<1>1. /\ call'.pc \in {"extent", "copy", "ok", "failed"} /\ call'.wanted = call.wanted
      /\ \A p \in Nat : Unit(out', p) # Unit(out, p) => p \in DOMAIN call.wanted /\ Unit(out', p) = call.wanted[p]
  BY InsertStepGood DEF StepGood, StepWrites
<1>2. call.pc \in {"open", "extent", "copy"}
  BY DEF InsertStep, OpenFiles, WriteGap, CopyBuffer, NextExtent, Fill, InsertFails, AtExtent, MoreInExtent, Busy
<1>3. Standing = "busy" /\ Standing' \in {"busy", "failed"}
  BY <1>1, <1>2 DEF Standing
<1>4. \A p \in 0 .. MaxPos : p \in Nat /\ Content[p] = Unit(out, p) /\ Content'[p] = Unit(out', p)
  BY PositionsAssumption DEF Content
<1>5. Promise!Write
  BY <1>1, <1>4, PromiseForms
<1>. QED  BY <1>3, <1>5, PromiseForms

\* The calls that the handlers make are for ranges of the flash, or of the layout.
LEMMA FlashPromised ==
  ASSUME Inv, Inv', cfg.kind = "flash", FlashGenerate(Child)
  PROVE  Promise!Next \/ UNCHANGED <<Content, call.wanted, Standing>>
<1>1. /\ Core /\ CallGood(call, out) /\ IsFile(out) /\ IsFile(out') /\ cfg \in Configs /\ Erased \in Values
      /\ end \in Nat
  BY FlashAssumption DEF Inv, Core, PhaseInv, CallInv, LayoutInv
<1>2. ASSUME out' = out, call' = call PROVE UNCHANGED <<Content, call.wanted, Standing>>
  BY <1>2 DEF Content, Standing
<1>3. CASE FlashPrepareFile
  <2>1. Standing = "idle" /\ Standing' = "idle" /\ call'.wanted = call.wanted
    BY <1>3 DEF FlashPrepareFile, Idle, Standing
  <2>2. Content' \in [0 .. MaxPos -> Values]
    BY <1>1, ContentType DEF Content
  <2>. QED  BY <2>1, <2>2, PromiseForms
<1>4. CASE FlashPrepareDevice
  <2>1. call.pc = "none" /\ out' = out /\ InsertImage(NoSub, Buf \div 2, 0, 0)
    BY <1>4 DEF FlashPrepareDevice, Idle
  <2>2. PICK n \in Nat, z \in Nat : n = Buf \div 2 /\ z = 0 /\ z \in Values
    BY InsertImageAssumption, ImageFileAssumption
  <2>3. PICK b : b = NoSub
    OBVIOUS
  <2>4. InsertImage(b, n, z, z) /\ (b # NoSub => IsFile(b)) /\ z + n <= MaxPos + 1
    BY <2>1, <2>2, <2>3, PositionsAssumption
  <2>5. Promise!Call
    BY <2>1, <2>2, <2>4, CallPromised
  <2>. QED  BY <2>5, PromiseForms
<1>5. CASE FlashPrepared
  <2>1. out' = out /\ call' = NoCall /\ call.pc \in {"ok", "failed"}
    BY <1>5 DEF FlashPrepared
  <2>2. CASE call.pc = "ok"
    BY <1>1, <2>1, <2>2, ReturnPromised, PromiseForms
  <2>3. CASE call.pc = "failed"
    <3>1. Content' = Content /\ Standing = "failed" /\ Standing' = "idle" /\ call'.wanted = << >>
      BY <2>1, <2>3 DEF Content, Standing, NoCall
    <3>. QED  BY <3>1, PromiseForms
  <2>. QED  BY <2>1, <2>2, <2>3
<1>6. CASE FlashPad
  <2>1. /\ call.pc = "none" /\ out' = out /\ InsertImage(NoSub, Part.offset - end, end, Erased)
        /\ fpc = "parts" /\ at <= Len(parts) /\ Part.offset > end
    BY <1>6 DEF FlashPad, Idle
  <2>2. /\ Part.size \in Nat /\ Part.offset \in Nat /\ PartEnd(Part) = Part.offset + Part.size
        /\ PartEnd(Part) <= partsize /\ partsize <= FlashSize
    BY <1>1, <2>1, PlacedBefore
  <2>3. PICK n \in Nat, o \in Nat : n = Part.offset - end /\ o = end
    BY <1>1, <2>1, <2>2
  <2>8. PICK b : b = NoSub
    OBVIOUS
  <2>4. PICK v \in Values : v = Erased
    BY <1>1
  <2>5. o + n <= MaxPos + 1
    <3>1. PICK q \in Nat, f \in Nat, m \in Nat, s \in Nat, x \in Nat :
            q = partsize /\ f = FlashSize /\ m = MaxPos /\ s = Part.size /\ x = Part.offset
      <4>1. FlashSize \in Nat
        BY FlashAssumption DEF FlashSize
      <4>. QED  BY <1>1, <2>2, <4>1, PositionsAssumption DEF Core, LayoutInv
    <3>2. x + s <= q /\ q <= f /\ f <= m + 1
      BY <2>2, <3>1, PositionsAssumption
    <3>3. o + n = x
      BY <1>1, <2>3, <3>1
    <3>. QED  BY <3>1, <3>2, <3>3
  <2>6. InsertImage(b, n, o, v) /\ (b # NoSub => IsFile(b))
    BY <2>1, <2>3, <2>4, <2>8
  <2>7. Promise!Call
    BY <2>1, <2>5, <2>6, CallPromised
  <2>. QED  BY <2>7, PromiseForms
<1>7. CASE FlashPadDone \/ FlashPartDone
  <2>1. out' = out /\ call' = NoCall /\ call.pc = "ok"
    BY <1>7 DEF FlashPadDone, FlashPartDone
  <2>. QED  BY <1>1, <2>1, ReturnPromised, PromiseForms
<1>8. CASE FlashPart(Child)
  <2>1. /\ out' = out /\ InsertImage(SubOf(Part), Part.size, Part.offset, Erased)
        /\ fpc \in {"padded", "parts"} /\ at <= Len(parts)
    BY <1>8 DEF FlashPart, SubOf
  <2>2. call.pc = "none"
    BY <1>1, <2>1 DEF Core, CallInv
  <2>3. /\ Part.size \in Nat /\ Part.offset \in Nat /\ PartEnd(Part) = Part.offset + Part.size
        /\ PartEnd(Part) <= partsize /\ partsize <= FlashSize
    BY <1>1, <2>1, PlacedBefore
  <2>4. PICK n \in Nat, o \in Nat : n = Part.size /\ o = Part.offset
    BY <2>3
  <2>10. PICK b : b = SubOf(Part)
    OBVIOUS
  <2>5. PICK v \in Values : v = Erased
    BY <1>1
  <2>6. o + n <= MaxPos + 1
    <3>1. PICK q \in Nat, f \in Nat, m \in Nat : q = partsize /\ f = FlashSize /\ m = MaxPos
      BY <1>1, PositionsAssumption, FlashAssumption DEF Core, LayoutInv, FlashSize
    <3>2. o + n <= q /\ q <= f /\ f <= m + 1
      BY <2>3, <2>4, <3>1, PositionsAssumption
    <3>. QED  BY <3>1, <3>2
  <2>7. InsertImage(b, n, o, v)
    BY <2>1, <2>4, <2>5, <2>10
  <2>8. b # NoSub => IsFile(b)
    BY <1>1, <2>10, ChildOf DEF SubOf
  <2>9. Promise!Call
    BY <2>1, <2>2, <2>6, <2>7, <2>8, CallPromised
  <2>. QED  BY <2>9, PromiseForms
<1>9. CASE FlashFails \/ FlashDone
  BY <1>2, <1>9 DEF FlashFails, FlashDone
<1>10. CASE InsertStep
  BY <1>1, <1>10, StepPromised, PromiseForms
<1>. QED  BY <1>3, <1>4, <1>5, <1>6, <1>7, <1>8, <1>9, <1>10 DEF FlashGenerate

LEMMA HdPromised ==
  ASSUME Inv, Inv', cfg.kind = "hd", HdPrepare \/ HdSkip \/ HdPart \/ HdPartDone \/ HdDone \/ HdInsert,
         Unchanged
  PROVE  Promise!Next \/ UNCHANGED <<Content, call.wanted, Standing>>
<1>1. /\ Core /\ CallGood(call, out) /\ IsFile(out) /\ IsFile(out') /\ cfg \in Configs
      /\ parts = cfg.parts /\ parts \in Seq(Partition) /\ at \in 1 .. Len(parts) + 1 /\ childSize \in Nat
  BY DEF Inv, Core, PhaseInv, CallInv, LayoutInv
<1>2. ASSUME out' = out, call' = call PROVE UNCHANGED <<Content, call.wanted, Standing>>
  BY <1>2 DEF Content, Standing
<1>3. CASE HdPrepare /\ FlashPrepareFile
  <2>1. Standing = "idle" /\ Standing' = "idle" /\ call'.wanted = call.wanted
    BY <1>3 DEF FlashPrepareFile, Idle, Standing
  <2>2. Content' \in [0 .. MaxPos -> Values]
    BY <1>1, ContentType DEF Content
  <2>. QED  BY <2>1, <2>2, PromiseForms
<1>4. CASE HdPrepare /\ FlashPrepareDevice
  <2>1. call.pc = "none" /\ out' = out /\ InsertImage(NoSub, Buf \div 2, 0, 0)
    BY <1>4 DEF FlashPrepareDevice, Idle
  <2>2. PICK n \in Nat, z \in Nat : n = Buf \div 2 /\ z = 0 /\ z \in Values
    BY InsertImageAssumption, ImageFileAssumption
  <2>3. PICK b : b = NoSub
    OBVIOUS
  <2>4. InsertImage(b, n, z, z) /\ (b # NoSub => IsFile(b)) /\ z + n <= MaxPos + 1
    BY <2>1, <2>2, <2>3, PositionsAssumption
  <2>5. Promise!Call
    BY <2>1, <2>2, <2>4, CallPromised
  <2>. QED  BY <2>5, PromiseForms
<1>5. CASE HdPrepare /\ FlashPrepared
  <2>1. out' = out /\ call' = NoCall /\ call.pc \in {"ok", "failed"}
    BY <1>5 DEF FlashPrepared
  <2>2. CASE call.pc = "ok"
    BY <1>1, <2>1, <2>2, ReturnPromised, PromiseForms
  <2>3. CASE call.pc = "failed"
    <3>1. Content' = Content /\ Standing = "failed" /\ Standing' = "idle" /\ call'.wanted = << >>
      BY <2>1, <2>3 DEF Content, Standing, NoCall
    <3>. QED  BY <3>1, PromiseForms
  <2>. QED  BY <2>1, <2>2, <2>3
<1>6. CASE HdSkip \/ HdDone
  BY <1>2, <1>6 DEF HdSkip, HdDone
<1>7. CASE HdPart
  <2>1. CASE UNCHANGED call
    BY <1>2, <1>7, <2>1 DEF HdPart
  <2>2. CASE ~(childSize > Part.size) /\ InsertImage(Child, childSize, Part.offset, 0)
    <3>1. call.pc = "none" /\ out' = out /\ at <= Len(parts)
      BY <1>7 DEF HdPart, Idle
    <3>2. at \in 1 .. Len(parts)
      <4>1. Len(parts) \in Nat
        BY <1>1
      <4>. QED  BY <1>1, <3>1, <4>1
    <3>3. /\ Part.size \in Nat /\ Part.offset \in Nat
      BY <1>1, <3>2, PartOf DEF Part
    <3>4. Part.offset + Part.size <= MaxPos + 1
      <4>1. at \in DOMAIN cfg.parts
        BY <1>1, <3>2
      <4>2. cfg.parts[at].offset + cfg.parts[at].size <= MaxPos + 1
        BY <1>1, <4>1, ConfigOf
      <4>. QED  BY <1>1, <4>2 DEF Part
    <3>5. PICK n \in Nat, o \in Nat : n = childSize /\ o = Part.offset
      BY <1>1, <3>3
    <3>6. PICK v \in Values : v = 0
      BY ImageFileAssumption
    <3>7. PICK b : b = Child
      OBVIOUS
    <3>8. InsertImage(b, n, o, v)
      BY <2>2, <3>5, <3>6, <3>7
    <3>9. b # NoSub => IsFile(b)
      BY <1>1, <3>7, ChildOf
    <3>10. o + n <= MaxPos + 1
      BY <2>2, <3>3, <3>4, <3>5, PositionsAssumption
    <3>11. Promise!Call
      BY <3>1, <3>8, <3>9, <3>10, CallPromised
    <3>. QED  BY <3>11, PromiseForms
  <2>. QED  BY <1>7, <2>1, <2>2 DEF HdPart
<1>8. CASE HdPartDone
  <2>1. CASE call.pc = "ok"
    <3>1. out' = out /\ call' = NoCall
      BY <1>8, <2>1 DEF HdPartDone
    <3>. QED  BY <1>1, <2>1, <3>1, ReturnPromised, PromiseForms
  <2>2. CASE call.pc # "ok"
    BY <1>2, <1>8, <2>2 DEF HdPartDone
  <2>. QED  BY <2>1, <2>2
<1>9. CASE HdInsert
  BY <1>1, <1>9, StepPromised, PromiseForms DEF HdInsert
<1>. QED  BY <1>3, <1>4, <1>5, <1>6, <1>7, <1>8, <1>9 DEF HdPrepare

\* Every step of the pipeline is a step of FileRange, or none.
LEMMA NextPromised ==
  ASSUME Inv, Inv', [Next]_vars
  PROVE  Promise!Next \/ UNCHANGED <<Content, call.wanted, Standing>>
<1>1. ASSUME out' = out, call' = call PROVE UNCHANGED <<Content, call.wanted, Standing>>
  BY <1>1 DEF Content, Standing
<1>2. CASE UNCHANGED vars
  BY <1>1, <1>2 DEF vars
<1>3. CASE FileSetup \/ ContainerSetup \/ SparseImageSetup \/ FileStays \/ FileCopy \/ FileCopyFails \/ SparseImageGenerate
  BY <1>1, <1>3 DEF FileSetup, ContainerSetup, FlashSetup, SparseImageSetup, FileStays, FileCopy, FileCopyFails,
                    SparseImageGenerate
<1>4. CASE FlashImageGenerate
  BY <1>4, FlashPromised DEF FlashImageGenerate
<1>5. CASE HdImageGenerate
  BY <1>5, HdPromised DEF HdImageGenerate
<1>6. CASE Over
  BY <1>2, <1>6 DEF Over
<1>. QED  BY <1>2, <1>3, <1>4, <1>5, <1>6 DEF Next, Step

\* Whatever the files, their holes and the failures, insert_image writes in the range it is called for
\* and nowhere else, each unit what it is to be, and returns 0 only when all of them are.
THEOREM InsertsOnlyRange == Spec => InsertsRange
<1>1. Init => Promise!Init
  <2> SUFFICES ASSUME Init PROVE Promise!Init
    OBVIOUS
  <2>1. IsFile(out) /\ call = NoCall
    BY InitInv DEF Inv, CallInv, Init
  <2>2. Content \in [0 .. MaxPos -> Values]
    BY <2>1, ContentType DEF Content
  <2>. QED  BY <2>1, <2>2, PromiseForms DEF NoCall, Standing
<1>2. Inv /\ Inv' /\ [Next]_vars => [Promise!Next]_<<Content, call.wanted, Standing>>
  BY NextPromised
<1>. QED  BY <1>1, <1>2, PipelineInv, PTL DEF Spec, InsertsRange, Promise!Spec, Content, Standing


-----------------------------------------------------------------------------
(***************************************************************************)
(* The length the sparse handler goes by, and what it holds.               *)
(***************************************************************************)
\* What is a hole reads as zeros, anywhere in any file.
LEMMA HoleIsZero ==
  ASSUME NEW f, IsFile(f), NEW u \in Nat, IsHole(f, u)
  PROVE  Unit(f, u) = 0
<1>1. f.size \in Nat
  BY DEF IsFile
<1>2. CASE u >= f.size
  BY <1>1, <1>2, UnitType
<1>3. CASE u < f.size
  <2>1. ~f.device /\ u \div FsBlock \notin f.alloc
    BY DEF IsHole
  <2>2. u \in 0 .. f.size - 1
    BY <1>1, <1>3
  <2>3. f.at[u] = 0
    BY <2>1, <2>2 DEF IsFile
  <2>. QED  BY <1>3, <2>3 DEF Unit
<1>. QED  BY <1>1, <1>2, <1>3

-----------------------------------------------------------------------------
(***************************************************************************)
(* Sequences put together.                                                 *)
(***************************************************************************)
\* The sequences FlattenSeq puts together on its way.
Flattened(s) ==
  CHOOSE f : f = [i \in 1 .. Len(s) |-> IF i = 1 THEN s[i] ELSE f[i - 1] \o s[i]]

FlattenUpTo(s, n, f) == f = [i \in 1 .. n |-> IF i = 1 THEN s[i] ELSE f[i - 1] \o s[i]]

LEMMA FlattenExists ==
  ASSUME NEW s, NEW n \in Nat
  PROVE  \E f : FlattenUpTo(s, n, f)
<1> DEFINE Bad == {k \in Nat : ~ \E f : FlattenUpTo(s, k, f)}
<1>1. SUFFICES ASSUME Bad # {} PROVE FALSE
  OBVIOUS
<1>2. PICK m \in Bad : \A k \in Bad : m <= k
  <2>1. Bad \in SUBSET Nat
    OBVIOUS
  <2>. QED  BY <1>1, <2>1, LeastOf
<1>3. m \in Nat /\ ~ \E f : FlattenUpTo(s, m, f)
  OBVIOUS
<1>4. CASE m = 0
  <2>1. PICK f : f = [i \in 1 .. 0 |-> s[i]]
    OBVIOUS
  <2>2. FlattenUpTo(s, 0, f)
    BY <2>1 DEF FlattenUpTo
  <2>. QED  BY <1>3, <1>4, <2>2
<1>5. CASE m # 0
  <2>1. m - 1 \in Nat /\ m - 1 \notin Bad
    BY <1>2, <1>3, <1>5
  <2>2. PICK g : FlattenUpTo(s, m - 1, g)
    BY <2>1
  <2>3. PICK f : f = [i \in 1 .. m |-> IF i = 1 THEN s[i] ELSE g[i - 1] \o s[i]]
    OBVIOUS
  <2>4. g = [i \in 1 .. m - 1 |-> IF i = 1 THEN s[i] ELSE g[i - 1] \o s[i]]
    BY <2>2 DEF FlattenUpTo
  <2>5. ASSUME NEW i \in 1 .. m - 1 PROVE f[i] = g[i]
    <3>1. i \in 1 .. m
      BY <1>3
    <3>2. f[i] = IF i = 1 THEN s[i] ELSE g[i - 1] \o s[i]
      BY <2>3, <3>1
    <3>3. g[i] = IF i = 1 THEN s[i] ELSE g[i - 1] \o s[i]
      BY <2>4
    <3>. QED  BY <3>2, <3>3
  <2>6. \A i \in 1 .. m : (IF i = 1 THEN s[i] ELSE g[i - 1] \o s[i]) = IF i = 1 THEN s[i] ELSE f[i - 1] \o s[i]
    <3> SUFFICES ASSUME NEW i \in 1 .. m, i # 1 PROVE g[i - 1] = f[i - 1]
      OBVIOUS
    <3>1. i - 1 \in 1 .. m - 1
      BY <1>3
    <3>. QED  BY <2>5, <3>1
  <2>7. f = [i \in 1 .. m |-> IF i = 1 THEN s[i] ELSE f[i - 1] \o s[i]]
    BY <2>3, <2>6
  <2>. QED  BY <1>3, <2>7 DEF FlattenUpTo
<1>. QED  BY <1>4, <1>5

LEMMA FlattenedSteps ==
  ASSUME NEW s, Len(s) \in Nat
  PROVE  /\ \A i \in 1 .. Len(s) : Flattened(s)[i] = IF i = 1 THEN s[i] ELSE Flattened(s)[i - 1] \o s[i]
         /\ Len(s) > 0 => FlattenSeq(s) = Flattened(s)[Len(s)]
<1>1. \E f : f = [i \in 1 .. Len(s) |-> IF i = 1 THEN s[i] ELSE f[i - 1] \o s[i]]
  BY FlattenExists DEF FlattenUpTo
<1>2. PICK f : f = Flattened(s)
  OBVIOUS
<1>3. f = [i \in 1 .. Len(s) |-> IF i = 1 THEN s[i] ELSE f[i - 1] \o s[i]]
  BY <1>1, <1>2, Zenon DEF Flattened
<1>4. Len(s) > 0 => FlattenSeq(s) = Flattened(s)[Len(s)]
  BY DEF FlattenSeq, Flattened
<1>. QED  BY <1>2, <1>3, <1>4

\* What they are together does not depend on what comes later.
LEMMA FlattenedPrefix ==
  ASSUME NEW s, NEW t, Len(s) \in Nat, Len(t) \in Nat, Len(s) <= Len(t), \A i \in 1 .. Len(s) : t[i] = s[i],
         NEW n \in 1 .. Len(s)
  PROVE  Flattened(t)[n] = Flattened(s)[n]
<1> DEFINE Bad == {k \in 1 .. Len(s) : Flattened(t)[k] # Flattened(s)[k]}
<1>1. SUFFICES ASSUME Bad # {} PROVE FALSE
  OBVIOUS
<1>2. PICK m \in Bad : \A k \in Bad : m <= k
  <2>1. Bad \in SUBSET Nat
    OBVIOUS
  <2>. QED  BY <1>1, <2>1, LeastOf
<1>3. PICK f, g : f = Flattened(s) /\ g = Flattened(t)
  OBVIOUS
<1>4. m \in 1 .. Len(s) /\ m \in 1 .. Len(t) /\ g[m] # f[m]
  BY <1>3
<1>5. /\ f[m] = IF m = 1 THEN s[m] ELSE f[m - 1] \o s[m]
      /\ g[m] = IF m = 1 THEN t[m] ELSE g[m - 1] \o t[m]
  BY <1>3, <1>4, FlattenedSteps
<1>6. m # 1
  BY <1>4, <1>5
<1>7. m - 1 \in 1 .. Len(s) /\ ~(m <= m - 1)
  BY <1>4, <1>6
<1>8. g[m - 1] = f[m - 1]
  BY <1>2, <1>3, <1>7
<1>. QED  BY <1>4, <1>5, <1>8

\* A sequence more at the end adds its elements at the end.
LEMMA FlattenMore ==
  ASSUME NEW s, NEW t, Len(s) \in Nat, Len(t) = Len(s) + 1, \A i \in 1 .. Len(s) : t[i] = s[i],
         Len(s) = 0 => s = << >>, t[Len(t)] \in Seq(Nat)
  PROVE  FlattenSeq(t) = FlattenSeq(s) \o t[Len(t)]
<1>1. PICK n \in Nat : n = Len(s) /\ Len(t) = n + 1
  OBVIOUS
<1>2. PICK f, g : f = Flattened(s) /\ g = Flattened(t)
  OBVIOUS
<1>3. FlattenSeq(t) = g[n + 1] /\ g[n + 1] = IF n + 1 = 1 THEN t[n + 1] ELSE g[n] \o t[n + 1]
  <2>1. n + 1 \in 1 .. Len(t) /\ Len(t) \in Nat /\ Len(t) > 0 /\ n + 1 - 1 = n
    BY <1>1
  <2>. QED  BY <1>1, <1>2, <2>1, FlattenedSteps
<1>4. CASE n = 0
  <2>1. s = << >> /\ FlattenSeq(s) = << >>
    BY <1>1, <1>4 DEF FlattenSeq
  <2>2. << >> \o t[n + 1] = t[n + 1]
    BY <1>1, ConcatEmptySeq
  <2>. QED  BY <1>1, <1>3, <1>4, <2>1, <2>2
<1>5. CASE n # 0
  <2>1. n \in 1 .. Len(s) /\ Len(s) <= Len(t) /\ Len(t) \in Nat /\ Len(s) > 0
    BY <1>1, <1>5
  <2>2. g[n] = f[n]
    BY <1>2, <2>1, FlattenedPrefix
  <2>3. FlattenSeq(s) = f[n]
    BY <1>1, <1>2, <2>1, FlattenedSteps
  <2>4. n + 1 # 1
    BY <1>1, <1>5
  <2>5. FlattenSeq(t) = g[n] \o t[n + 1]
    BY <1>3, <2>4, Zenon
  <2>. QED  BY <1>1, <2>2, <2>3, <2>5, Zenon
<1>. QED  BY <1>4, <1>5

-----------------------------------------------------------------------------
(***************************************************************************)
(* Extents aligned and merged.                                             *)
(***************************************************************************)
\* A whole number of blocks.
Whole(n) == \E q \in Nat : n = q * blockSize

\* Whole numbers of blocks differ by a block or not at all.
LEMMA WholeApart ==
  ASSUME blockSize \in Nat, NEW m \in Nat, NEW n \in Nat, Whole(m), Whole(n), m < n + blockSize
  PROVE  m <= n
<1>1. PICK a \in Nat, c \in Nat, b \in Nat : m = a * b /\ n = c * b /\ b = blockSize
  BY DEF Whole
<1>2. a * b < (c + 1) * b
  BY <1>1
<1>3. a < c + 1
  <2>1. SUFFICES ASSUME c + 1 <= a PROVE FALSE
    BY <1>1
  <2>2. (c + 1) * b <= a * b
    BY <1>1, <2>1
  <2>. QED  BY <1>1, <1>2, <2>2
<1>4. a * b <= c * b
  BY <1>1, <1>3
<1>. QED  BY <1>1, <1>4

LEMMA WholeSum ==
  ASSUME blockSize \in Nat, NEW m \in Nat, Whole(m)
  PROVE  Whole(m + blockSize) /\ \A k \in Nat : Whole(m + k * blockSize)
<1>1. PICK a \in Nat, b \in Nat : m = a * b /\ b = blockSize
  BY DEF Whole
<1>2. m + b = (a + 1) * b /\ a + 1 \in Nat
  BY <1>1
<1>3. \A k \in Nat : m + k * b = (a + k) * b /\ a + k \in Nat
  BY <1>1
<1>. QED  BY <1>1, <1>2, <1>3 DEF Whole

LEMMA RoundUpOf ==
  ASSUME blockSize \in Nat, blockSize > 0, NEW n \in Nat
  PROVE  /\ RoundUp(n) \in Nat /\ Whole(RoundUp(n)) /\ n <= RoundUp(n) /\ RoundUp(n) < n + blockSize
         /\ (RoundUp(n) \div blockSize) * blockSize = RoundUp(n)
         /\ Whole(n) => RoundUp(n) = n
<1>1. PICK b \in Nat : b = blockSize /\ b > 0
  OBVIOUS
<1>2. PICK q \in Nat : q = (n + b - 1) \div b
  BY <1>1
<1>3. q * b \in Nat /\ n <= q * b /\ q * b < n + b
  BY <1>1, <1>2
<1>4. RoundUp(n) = q * b
  BY <1>1, <1>2 DEF RoundUp
<1>5. (q * b) \div b = q
  BY <1>1
<1>6. Whole(q * b)
  BY <1>1 DEF Whole
<1>7. Whole(n) => q * b <= n
  BY <1>1, <1>3, <1>6, WholeApart
<1>. QED  BY <1>1, <1>3, <1>4, <1>5, <1>6, <1>7

LEMMA RoundUpGrows ==
  ASSUME blockSize \in Nat, blockSize > 0, NEW m \in Nat, NEW n \in Nat, m <= n
  PROVE  RoundUp(m) <= RoundUp(n)
<1>1. PICK x \in Nat, y \in Nat : /\ x = RoundUp(m) /\ y = RoundUp(n) /\ Whole(x) /\ Whole(y)
                                  /\ n <= y /\ x < m + blockSize
  BY RoundUpOf
<1>2. x < y + blockSize
  BY <1>1
<1>. QED  BY <1>1, <1>2, WholeApart

\* What an extent is aligned to: it grows to whole blocks, up to the end of the file.
LEMMA AlignedWhole ==
  ASSUME blockSize \in Nat, blockSize > 0, NEW x \in ExtentRecord, NEW size \in Nat, x.start <= x.end, x.end <= size
  PROVE  /\ Whole(AlignedExtent(x, size).start)
         /\ AlignedExtent(x, size).end = RoundUp(x.end) \/ AlignedExtent(x, size).end = size
         /\ x.end <= AlignedExtent(x, size).end /\ AlignedExtent(x, size).end <= RoundUp(x.end)
         /\ AlignedExtent(x, size).end <= size
<1>1. PICK s \in Nat, e \in Nat, b \in Nat : s = x.start /\ e = x.end /\ b = blockSize /\ b > 0
  BY ExtentFields
<1>2. PICK q \in Nat : q = s \div b
  BY <1>1
<1>3. PICK r \in Nat : r = RoundUp(e) /\ e <= r
  BY <1>1, RoundUpOf
<1>4. Min({r, size}) = IF r <= size THEN r ELSE size
  BY MinOfTwo
<1>5. PICK m : m = Min({r, size})
  OBVIOUS
<1>6. AlignedExtent(x, size) = [start |-> q * b, end |-> m]
  BY <1>1, <1>2, <1>3, <1>5 DEF AlignedExtent
<1>7. Whole(q * b)
  BY <1>1 DEF Whole
<1>. QED  BY <1>1, <1>3, <1>4, <1>5, <1>6, <1>7

\* The extent another one is joined to is the last one before it that is still there.
LEMMA PreviousIs ==
  ASSUME NEW e \in Nat, e > 1
  PROVE  /\ PreviousExtent(e) \in 1 .. e - 1
         /\ PreviousExtent(e) > 1 => exts[PreviousExtent(e)].end # 0
         /\ \A k \in 1 .. e - 1 : k > PreviousExtent(e) => exts[k].end = 0
<1>1. PICK S : S = {j \in 2 .. e - 1 : exts[j].end # 0}
  OBVIOUS
<1>2. CASE S = {}
  <2>1. ~ \E j \in 2 .. e - 1 : exts[j].end # 0
    BY <1>1, <1>2
  <2>2. PreviousExtent(e) = 1
    BY <2>1 DEF PreviousExtent
  <2>. QED  BY <2>1, <2>2
<1>3. CASE S # {}
  <2>1. S \in SUBSET (0 .. e)
    BY <1>1
  <2>2. Max(S) \in S
    BY <1>3, <2>1, GreatestOf
  <2>3. \A y \in S : Max(S) >= y
    <3>1. \E z \in S : \A y \in S : z >= y
      <4>1. PICK D : D = {e - y : y \in S}
        OBVIOUS
      <4>2. \A y \in S : e - y \in D /\ e - y \in Nat
        BY <1>1, <4>1
      <4>3. D \in SUBSET Nat /\ D # {}
        BY <1>3, <4>1, <4>2
      <4>4. PICK d \in D : \A c \in D : d <= c
        BY <4>3, LeastOf
      <4>5. PICK z \in S : d = e - z
        BY <4>1
      <4>6. \A y \in S : z >= y
        BY <1>1, <4>2, <4>4, <4>5
      <4>. QED  BY <4>6
    <3>. QED  BY <3>1 DEF Max
  <2>4. \E j \in 2 .. e - 1 : exts[j].end # 0
    BY <1>1, <1>3
  <2>5. PreviousExtent(e) = Max(S)
    BY <1>1, <2>4 DEF PreviousExtent
  <2>6. PICK j : j = Max(S) /\ j \in S /\ \A y \in S : j >= y
    BY <2>2, <2>3
  <2>7. ASSUME NEW k \in 1 .. e - 1, k > j PROVE exts[k].end = 0
    <3>1. k \in 2 .. e - 1 /\ ~(j >= k)
      BY <1>1, <2>6, <2>7
    <3>2. k \notin S
      BY <2>6, <3>1
    <3>. QED  BY <1>1, <3>1, <3>2
  <2>. QED  BY <1>1, <2>5, <2>6, <2>7
<1>. QED  BY <1>2, <1>3

\* The extents x of the file f, of which the first n are aligned and merged: the numbers 1 to n that
\* are still there are whole blocks and apart; none of them reaches behind the block the next one
\* begins in; together they hold all the file has.
Merged(f, x, n) ==
  /\ \A k \in 1 .. n : x[k].end # 0 => Whole(x[k].start) /\ (Whole(x[k].end) \/ x[k].end = StSize(f))
  /\ \A k, l \in 1 .. n : k < l /\ x[k].end # 0 /\ x[l].end # 0 => x[k].end < x[l].start
  /\ \A k, l \in 1 .. Len(x) : k < l /\ l > n => x[k].end <= RoundUp(x[l].start)
  /\ \A k, l \in 1 .. Len(x) : k < l /\ k > n => x[k].end <= x[l].start
  /\ \A u \in 0 .. StSize(f) - 1 : ~IsHole(f, u) => InExtents(x, u)
  /\ (\A k \in 1 .. n : x[k] # Removed) => \A k \in 1 .. n : ~TooLong(x[k])

\* The extents as the file system reports them.
LEMMA ReportedMerged ==
  ASSUME blockSize \in Nat, blockSize > 0, NEW f, IsFile(f)
  PROVE  Merged(f, MapFileExtents(f, StSize(f)), 0)
<1>1. PICK n, x : n \in Nat /\ n = StSize(f) /\ x = MapFileExtents(f, n)
  BY StSizeOf
<1>2. InOrder(x, n)
  BY <1>1, ExtentsInOrder
<1>3. /\ x \in Seq(ExtentRecord) /\ Len(x) \in Nat
      /\ \A k, l \in 1 .. Len(x) : k < l => x[k].end <= x[l].start
  BY <1>2 DEF InOrder, ExtentRecord
<1>4. \A k \in 1 .. Len(x) : x[k].start \in Nat /\ x[k].end \in Nat
  BY <1>3, ElementOfSeq, ExtentFields
<1>5. ASSUME NEW k \in 1 .. Len(x), NEW l \in 1 .. Len(x), k < l
      PROVE  x[k].end <= RoundUp(x[l].start)
  <2>1. PICK s \in Nat, e \in Nat : s = x[l].start /\ e = x[k].end /\ e <= s
    BY <1>3, <1>4, <1>5
  <2>2. s <= RoundUp(s) /\ RoundUp(s) \in Nat
    BY RoundUpOf
  <2>. QED  BY <2>1, <2>2
<1>6. ASSUME NEW u \in 0 .. n - 1, ~IsHole(f, u) PROVE InExtents(x, u)
  <2>1. u \in Nat /\ u < n
    BY <1>1
  <2>. QED  BY <1>1, <1>6, <2>1, ExtentsCover
<1>7. \A k \in 1 .. 0 : FALSE
  OBVIOUS
<1>. QED  BY <1>1, <1>3, <1>5, <1>6, <1>7 DEF Merged

\* Extent e begins and ends at s and t when it is aligned.
AlignsTo(e, s, t) ==
  /\ e = ei /\ Len(exts') = Len(exts)
  /\ Whole(s) /\ (Whole(t) \/ t = StSize(Input))
  /\ s <= exts[e].start /\ exts[e].end <= t /\ t <= RoundUp(exts[e].end) /\ t <= StSize(Input)
  /\ t = RoundUp(exts[e].end) \/ t = StSize(Input)

\* It is joined to extent j, the last one still there,
JoinedTo(j, e, s, t) ==
  /\ s <= exts[j].end /\ (j > 1 => exts[j].end # 0)
  /\ \A k \in 1 .. e - 1 : k > j => exts[k].end = 0
  /\ exts'[j].start = exts[j].start /\ exts'[j].end = t /\ exts'[e] = Removed
  /\ \A k \in 1 .. Len(exts) : k # j /\ k # e => exts'[k] = exts[k]

\* or kept on its own.
Kept(e, s, t) ==
  /\ exts'[e].start = s /\ exts'[e].end = t
  /\ \A k \in 1 .. e - 1 : exts[k].end # 0 => \E j \in 1 .. e - 1 :
       exts[j].end < s /\ (j > 1 => exts[j].end # 0) /\ k <= j
  /\ \A k \in 1 .. Len(exts) : k # e => exts'[k] = exts[k]
  /\ spc' = "merge" => ~TooLong(exts'[e])

LEMMA MergeFields ==
  ASSUME IsFile(Input), SparseInv, SparseMerge(Input)
  PROVE  \E e \in 1 .. Len(exts), s \in Nat, t \in Nat :
           AlignsTo(e, s, t) /\ ((\E j \in 1 .. e - 1 : JoinedTo(j, e, s, t)) \/ Kept(e, s, t))
<1>1. /\ spc = "merge" /\ ei <= Len(exts) /\ exts' = MergedExtents(StSize(Input))
      /\ (spc' = "failed" /\ ei' = ei) \/ ~TooLong(exts'[ei])
  BY DEF SparseMerge
<1>2. /\ blockSize \in Nat /\ blockSize > 0 /\ ei \in Nat \ {0} /\ exts \in Seq(ExtentRecord)
      /\ \A i \in 1 .. Len(exts) : exts[i].start <= exts[i].end /\ exts[i].end <= StSize(Input)
  BY <1>1 DEF SparseInv, ExtentRecord
<1>3. PICK n \in Nat, e \in Nat, size \in Nat : n = Len(exts) /\ e = ei /\ e \in 1 .. n /\ size = StSize(Input)
  BY <1>1, <1>2, StSizeOf
<1>4. \A i \in 1 .. n : exts[i] \in ExtentRecord /\ exts[i].start \in Nat /\ exts[i].end \in Nat
  <2>1. \A i \in 1 .. n : exts[i] \in ExtentRecord
    BY <1>2, <1>3, ElementOfSeq
  <2>. QED  BY <2>1, ExtentFields
<1>5. PICK x \in ExtentRecord : /\ x = AlignedExtent(exts[e], size) /\ x.start \in Nat /\ x.end \in Nat
                                /\ Whole(x.start) /\ x.start <= exts[e].start
                                /\ x.end = RoundUp(exts[e].end) \/ x.end = size
                                /\ exts[e].end <= x.end /\ x.end <= RoundUp(exts[e].end) /\ x.end <= size
  <2>1. PICK y \in ExtentRecord : y = exts[e] /\ y.start <= y.end /\ y.end <= size
    BY <1>2, <1>3, <1>4
  <2>2. blockSize \in Nat /\ blockSize > 0
    BY <1>2
  <2>3. /\ AlignedExtent(y, size) \in ExtentRecord
        /\ AlignedExtent(y, size).start <= y.start /\ y.start <= AlignedExtent(y, size).end
        /\ AlignedExtent(y, size).end <= size
    BY ONLY y \in ExtentRecord, size \in Nat, <2>1, <2>2, Aligned
  <2>4. /\ Whole(AlignedExtent(y, size).start)
        /\ AlignedExtent(y, size).end = RoundUp(y.end) \/ AlignedExtent(y, size).end = size
        /\ y.end <= AlignedExtent(y, size).end /\ AlignedExtent(y, size).end <= RoundUp(y.end)
        /\ AlignedExtent(y, size).end <= size
    BY ONLY y \in ExtentRecord, size \in Nat, <2>1, <2>2, AlignedWhole
  <2>. QED  BY <2>1, <2>3, <2>4, ExtentFields
<1>6. PICK j : /\ j = PreviousExtent(e)
               /\ e > 1 => /\ j \in 1 .. e - 1 /\ (j > 1 => exts[j].end # 0)
                           /\ \A k \in 1 .. e - 1 : k > j => exts[k].end = 0
  BY <1>3, PreviousIs
<1>7. exts' = IF e > 1 /\ x.start <= exts[j].end
              THEN [exts EXCEPT ![j].end = x.end, ![e] = Removed]
              ELSE [exts EXCEPT ![e] = x]
  BY <1>1, <1>3, <1>5, <1>6 DEF MergedExtents
<1>8. PICK s \in Nat, t \in Nat : s = x.start /\ t = x.end
  BY <1>5
<1>9. Whole(t) \/ t = size
  <2>1. Whole(RoundUp(exts[e].end))
    BY <1>2, <1>3, <1>4, RoundUpOf
  <2>. QED  BY <1>5, <1>8, <2>1
<1>12. /\ e \in 1 .. Len(exts) /\ e = ei /\ n = Len(exts) /\ Whole(s) /\ (Whole(t) \/ t = StSize(Input))
       /\ s <= exts[e].start /\ exts[e].end <= t /\ t <= RoundUp(exts[e].end) /\ t <= StSize(Input)
       /\ t = RoundUp(exts[e].end) \/ t = StSize(Input)
  BY <1>3, <1>5, <1>8, <1>9
<1>10. CASE e > 1 /\ x.start <= exts[j].end
  <2>1. j \in 1 .. n /\ j \in 1 .. e - 1 /\ j # e /\ e \in 1 .. n
    BY <1>3, <1>6, <1>10
  <2>2. exts' = [[exts EXCEPT ![j].end = t] EXCEPT ![e] = Removed]
    BY <1>7, <1>8, <1>10
  <2>3. PICK y : y = [exts[j] EXCEPT !.end = t]
    OBVIOUS
  <2>4. exts[j] = [start |-> exts[j].start, end |-> exts[j].end]
    BY <1>4, <2>1 DEF ExtentRecord
  <2>5. y.start = exts[j].start /\ y.end = t
    BY <2>3, <2>4
  <2>6. exts' = [[exts EXCEPT ![j] = y] EXCEPT ![e] = Removed]
    BY <2>2, <2>3, Zenon
  <2>7. DOMAIN exts = 1 .. n /\ Len(exts) = n
    BY <1>2, <1>3
  <2>8. /\ exts'[j] = y /\ exts'[e] = Removed /\ DOMAIN exts' = 1 .. n
        /\ \A k \in 1 .. n : k # j /\ k # e => exts'[k] = exts[k]
    BY <2>1, <2>6, <2>7
  <2>9. Len(exts') = n
    BY <1>2, <1>3, <2>1, <2>6
  <2>10. s <= exts[j].end
    BY <1>8, <1>10
  <2>11. JoinedTo(j, e, s, t)
    BY <1>6, <1>10, <2>1, <2>5, <2>7, <2>8, <2>10 DEF JoinedTo
  <2>12. AlignsTo(e, s, t)
    BY <1>12, <2>7, <2>9 DEF AlignsTo
  <2>. QED  BY <1>12, <2>1, <2>11, <2>12, Zenon
<1>11. CASE ~(e > 1 /\ x.start <= exts[j].end)
  <2>1. exts' = [exts EXCEPT ![e] = x]
    BY <1>7, <1>11
  <2>2. Len(exts') = n /\ exts'[e] = x /\ \A k \in 1 .. n : k # e => exts'[k] = exts[k]
    BY <1>2, <1>3, <2>1
  <2>3. ASSUME NEW k \in 1 .. e - 1, exts[k].end # 0
        PROVE  \E i \in 1 .. e - 1 : exts[i].end < s /\ (i > 1 => exts[i].end # 0) /\ k <= i
    <3>1. e > 1
      BY <1>3
    <3>2. j \in 1 .. e - 1 /\ exts[j].end \in Nat
      BY <1>3, <1>4, <1>6, <3>1
    <3>3. exts[j].end < s
      BY <1>8, <1>11, <3>1, <3>2
    <3>4. k <= j
      BY <1>6, <2>3, <3>1, <3>2
    <3>. QED  BY <1>6, <3>1, <3>2, <3>3, <3>4
  <2>4. spc' = "merge" => ~TooLong(exts'[e])
    BY <1>1, <1>3
  <2>5. Kept(e, s, t)
    BY <1>8, <1>12, <2>2, <2>3, <2>4 DEF Kept
  <2>6. AlignsTo(e, s, t)
    BY <1>12, <2>2 DEF AlignsTo
  <2>. QED  BY <1>12, <2>5, <2>6, Zenon
<1>. QED  BY <1>10, <1>11


\* The extents are still merged when one more is handled.
LEMMA MergedStep ==
  ASSUME IsFile(Input), SparseInv, SparseMerge(Input), spc' = "merge", Merged(Input, exts, ei - 1)
  PROVE  Merged(Input, exts', ei)
<1>1. PICK e \in 1 .. Len(exts), s \in Nat, t \in Nat :
        AlignsTo(e, s, t) /\ ((\E j \in 1 .. e - 1 : JoinedTo(j, e, s, t)) \/ Kept(e, s, t))
  BY MergeFields
<1>2. PICK f, old, x : f = Input /\ old = exts /\ x = exts'
  OBVIOUS
<1>3. /\ spc = "merge" /\ blockSize \in Nat /\ blockSize > 0 /\ old \in Seq(ExtentRecord)
      /\ \A i \in 1 .. Len(old) : old[i].start <= old[i].end /\ old[i].end <= StSize(f)
      /\ \A i, j \in 1 .. Len(old) : i < j /\ ei <= j => old[i].start <= old[j].start
  <2>1. spc = "merge"
    BY DEF SparseMerge
  <2>. QED  BY <1>2, <2>1 DEF SparseInv, ExtentRecord
<1>4. PICK n \in Nat, size \in Nat : n = Len(old) /\ size = StSize(f)
  BY <1>2, <1>3, StSizeOf
<1>5. e = ei /\ e \in 1 .. n /\ Len(x) = n
  BY <1>1, <1>2, <1>4 DEF AlignsTo
<1>6. /\ Whole(s) /\ (Whole(t) \/ t = size)
      /\ s <= old[e].start /\ old[e].end <= t /\ t <= RoundUp(old[e].end) /\ t <= size
      /\ t = RoundUp(old[e].end) \/ t = size
  BY <1>1, <1>2, <1>4 DEF AlignsTo
<1>7. /\ \A k \in 1 .. e - 1 : old[k].end # 0 => Whole(old[k].start) /\ (Whole(old[k].end) \/ old[k].end = size)
      /\ \A k, l \in 1 .. e - 1 : k < l /\ old[k].end # 0 /\ old[l].end # 0 => old[k].end < old[l].start
      /\ \A k, l \in 1 .. n : k < l /\ l > e - 1 => old[k].end <= RoundUp(old[l].start)
      /\ \A k, l \in 1 .. n : k < l /\ k > e - 1 => old[k].end <= old[l].start
      /\ \A u \in 0 .. size - 1 : ~IsHole(f, u) => InExtents(old, u)
      /\ (\A k \in 1 .. e - 1 : old[k] # Removed) => \A k \in 1 .. e - 1 : ~TooLong(old[k])
  BY <1>2, <1>4, <1>5 DEF Merged
<1>8. \A i \in 1 .. n : old[i].start \in Nat /\ old[i].end \in Nat
  BY <1>3, <1>4, ElementOfSeq, ExtentFields
<1>9. \A l \in e + 1 .. n : t <= RoundUp(old[l].start)
  <2> SUFFICES ASSUME NEW l \in e + 1 .. n PROVE t <= RoundUp(old[l].start)
    OBVIOUS
  <2>1. l \in 1 .. n /\ e < l /\ e > e - 1
    BY <1>4, <1>5
  <2>2. PICK a \in Nat, c \in Nat : a = old[e].end /\ c = old[l].start /\ a <= c
    BY <1>5, <1>7, <1>8, <2>1
  <2>3. RoundUp(a) <= RoundUp(c) /\ RoundUp(a) \in Nat /\ RoundUp(c) \in Nat
    BY <1>3, <2>2, RoundUpOf, RoundUpGrows
  <2>. QED  BY <1>6, <2>2, <2>3
<1>10. CASE \E j \in 1 .. e - 1 : JoinedTo(j, e, s, t)
  <2>1. PICK j \in 1 .. e - 1 : JoinedTo(j, e, s, t)
    BY <1>10
  <2>2. /\ s <= old[j].end /\ (j > 1 => old[j].end # 0)
        /\ \A k \in 1 .. e - 1 : k > j => old[k].end = 0
        /\ x[j].start = old[j].start /\ x[j].end = t /\ x[e] = Removed
        /\ \A k \in 1 .. n : k # j /\ k # e => x[k] = old[k]
    BY <1>2, <1>4, <2>1 DEF JoinedTo
  <2>3. j \in 1 .. n /\ j < e /\ x[e].end = 0 /\ x[e].start = 0
    BY <1>5, <2>2 DEF Removed
  <2>4. Whole(old[j].start)
    <3>1. CASE old[j].end # 0
      BY <1>7, <3>1
    <3>2. CASE old[j].end = 0
      <4>1. old[j].start = 0
        BY <1>3, <1>4, <1>8, <2>3, <3>2
      <4>2. 0 = 0 * blockSize
        BY <1>3
      <4>. QED  BY <4>1, <4>2 DEF Whole
    <3>. QED  BY <3>1, <3>2
  <2>5. old[j].end <= t
    <3>1. PICK a \in Nat, b \in Nat, c \in Nat : a = old[j].end /\ b = old[e].start /\ c = old[e].end /\ b <= c
      BY <1>3, <1>4, <1>5, <1>8, <2>3
    <3>2. a <= RoundUp(b) /\ a <= size
      BY <1>3, <1>4, <1>5, <1>7, <2>3, <3>1
    <3>3. RoundUp(b) <= RoundUp(c) /\ RoundUp(b) \in Nat /\ RoundUp(c) \in Nat
      BY <1>3, <3>1, RoundUpOf, RoundUpGrows
    <3>. QED  BY <1>6, <3>1, <3>2, <3>3
  <2>6. ASSUME NEW k \in 1 .. e, x[k].end # 0 PROVE Whole(x[k].start) /\ (Whole(x[k].end) \/ x[k].end = size)
    <3>1. k # e /\ k \in 1 .. e - 1 /\ k \in 1 .. n
      BY <1>5, <2>3, <2>6
    <3>2. CASE k = j
      BY <1>6, <2>2, <2>4, <3>2
    <3>3. CASE k # j
      BY <1>7, <2>2, <2>6, <3>1, <3>3
    <3>. QED  BY <3>2, <3>3
  <2>7. ASSUME NEW k \in 1 .. e, NEW l \in 1 .. e, k < l, x[k].end # 0, x[l].end # 0
        PROVE  x[k].end < x[l].start
    <3>1. l # e /\ k \in 1 .. e - 1 /\ l \in 1 .. e - 1 /\ k \in 1 .. n /\ l \in 1 .. n /\ k # e
      BY <1>5, <2>3, <2>7
    <3>2. l <= j
      BY <2>2, <2>7, <3>1
    <3>3. k # j /\ k < j /\ j > 1 /\ old[j].end # 0
      BY <2>2, <2>7, <3>1, <3>2
    <3>4. x[k] = old[k] /\ old[k].end # 0
      BY <2>2, <2>7, <3>1, <3>3
    <3>5. x[l].start = old[l].start /\ old[l].end # 0
      BY <2>2, <2>7, <3>1, <3>3
    <3>. QED  BY <1>7, <2>7, <3>1, <3>4, <3>5
  <2>8. ASSUME NEW k \in 1 .. n, NEW l \in 1 .. n, k < l, l > e PROVE x[k].end <= RoundUp(x[l].start)
    <3>1. x[l] = old[l] /\ l \in e + 1 .. n /\ l > e - 1
      BY <1>4, <1>5, <2>2, <2>3, <2>8
    <3>2. CASE k = e
      <4>1. PICK a \in Nat : a = old[l].start
        BY <1>8
      <4>2. RoundUp(a) \in Nat
        BY <1>3, RoundUpOf
      <4>. QED  BY <2>3, <3>1, <3>2, <4>1, <4>2
    <3>3. CASE k = j
      BY <1>9, <2>2, <3>1, <3>3
    <3>4. CASE k # j /\ k # e
      BY <1>7, <2>2, <2>8, <3>1, <3>4
    <3>. QED  BY <3>2, <3>3, <3>4
  <2>9. ASSUME NEW k \in 1 .. n, NEW l \in 1 .. n, k < l, k > e PROVE x[k].end <= x[l].start
    <3>1. x[k] = old[k] /\ x[l] = old[l] /\ k > e - 1
      BY <1>5, <2>2, <2>3, <2>9
    <3>. QED  BY <1>7, <2>9, <3>1
  <2>10. ASSUME NEW u \in 0 .. size - 1, ~IsHole(f, u) PROVE InExtents(x, u)
    <3>1. PICK k \in 1 .. n : old[k].start <= u /\ u < old[k].end
      <4>1. InExtents(old, u)
        BY <1>7, <2>10
      <4>2. DOMAIN old = 1 .. n
        BY <1>3, <1>4
      <4>. QED  BY <1>4, <4>1, <4>2 DEF InExtents
    <3>2. CASE k # j /\ k # e
      BY <1>5, <2>2, <3>1, <3>2 DEF InExtents
    <3>3. CASE k = j \/ k = e
      <4>1. old[j].start <= old[e].start
        BY <1>3, <1>4, <1>5, <2>3
      <4>2. old[j].start <= u /\ u < t
        <5>1. PICK a \in Nat, b \in Nat, c \in Nat, d \in Nat :
                a = old[j].start /\ b = old[j].end /\ c = old[e].start /\ d = old[e].end
          BY <1>5, <1>8, <2>3
        <5>2. a <= c /\ b <= t /\ d <= t
          BY <1>6, <2>5, <4>1, <5>1
        <5>3. (a <= u /\ u < b) \/ (c <= u /\ u < d)
          BY <3>1, <3>3, <5>1
        <5>4. a <= u /\ u < t
          BY <5>2, <5>3
        <5>. QED  BY <5>1, <5>4
      <4>. QED  BY <1>5, <2>2, <2>3, <4>2 DEF InExtents
    <3>. QED  BY <3>2, <3>3
  <2>11. ~ \A k \in 1 .. e : x[k] # Removed
    BY <1>5, <2>2
  <2>. QED  BY <1>2, <1>4, <1>5, <2>6, <2>7, <2>8, <2>9, <2>10, <2>11 DEF Merged
<1>11. CASE Kept(e, s, t)
  <2>1. /\ x[e].start = s /\ x[e].end = t
        /\ \A k \in 1 .. e - 1 : old[k].end # 0 => \E j \in 1 .. e - 1 :
             old[j].end < s /\ (j > 1 => old[j].end # 0) /\ k <= j
        /\ \A k \in 1 .. n : k # e => x[k] = old[k]
        /\ ~TooLong(x[e])
    BY <1>2, <1>4, <1>11 DEF Kept
  <2>2. ASSUME NEW k \in 1 .. e, x[k].end # 0 PROVE Whole(x[k].start) /\ (Whole(x[k].end) \/ x[k].end = size)
    <3>1. CASE k = e
      BY <1>6, <2>1, <3>1
    <3>2. CASE k # e
      <4>1. k \in 1 .. e - 1 /\ k \in 1 .. n
        BY <1>5, <3>2
      <4>. QED  BY <1>7, <2>1, <2>2, <3>2, <4>1
    <3>. QED  BY <3>1, <3>2
  <2>3. ASSUME NEW k \in 1 .. e, NEW l \in 1 .. e, k < l, x[k].end # 0, x[l].end # 0
        PROVE  x[k].end < x[l].start
    <3>1. k \in 1 .. e - 1 /\ k \in 1 .. n /\ l \in 1 .. n /\ k # e /\ x[k] = old[k]
      BY <1>5, <2>1, <2>3
    <3>2. CASE l = e
      <4>1. PICK j \in 1 .. e - 1 : old[j].end < s /\ (j > 1 => old[j].end # 0) /\ k <= j
        BY <2>1, <2>3, <3>1
      <4>2. CASE k = j
        BY <2>1, <3>1, <3>2, <4>1, <4>2
      <4>3. CASE k # j
        <5>1. k < j /\ old[j].end # 0 /\ j \in 1 .. n
          BY <1>5, <4>1, <4>3
        <5>2. old[k].end < old[j].start
          BY <1>7, <2>3, <3>1, <5>1
        <5>3. old[j].start <= old[j].end
          BY <1>3, <1>4, <5>1
        <5>4. PICK a \in Nat, b \in Nat, c \in Nat : a = old[k].end /\ b = old[j].start /\ c = old[j].end
          BY <1>8, <3>1, <5>1
        <5>5. a < s
          BY <4>1, <5>2, <5>3, <5>4
        <5>. QED  BY <2>1, <3>1, <3>2, <5>4, <5>5
      <4>. QED  BY <4>2, <4>3
    <3>3. CASE l # e
      <4>1. l \in 1 .. e - 1 /\ x[l] = old[l]
        BY <2>1, <3>1, <3>3
      <4>. QED  BY <1>7, <2>3, <3>1, <4>1
    <3>. QED  BY <3>2, <3>3
  <2>4. ASSUME NEW k \in 1 .. n, NEW l \in 1 .. n, k < l, l > e PROVE x[k].end <= RoundUp(x[l].start)
    <3>1. x[l] = old[l] /\ l \in e + 1 .. n /\ l > e - 1
      BY <1>4, <1>5, <2>1, <2>4
    <3>2. CASE k = e
      BY <1>9, <2>1, <3>1, <3>2
    <3>3. CASE k # e
      BY <1>7, <2>1, <2>4, <3>1, <3>3
    <3>. QED  BY <3>2, <3>3
  <2>5. ASSUME NEW k \in 1 .. n, NEW l \in 1 .. n, k < l, k > e PROVE x[k].end <= x[l].start
    <3>1. x[k] = old[k] /\ x[l] = old[l] /\ k > e - 1
      BY <1>5, <2>1, <2>5
    <3>. QED  BY <1>7, <2>5, <3>1
  <2>6. ASSUME NEW u \in 0 .. size - 1, ~IsHole(f, u) PROVE InExtents(x, u)
    <3>1. PICK k \in 1 .. n : old[k].start <= u /\ u < old[k].end
      <4>1. InExtents(old, u)
        BY <1>7, <2>6
      <4>2. DOMAIN old = 1 .. n
        BY <1>3, <1>4
      <4>. QED  BY <1>4, <4>1, <4>2 DEF InExtents
    <3>2. x[k].start <= u /\ u < x[k].end
      BY <1>6, <1>8, <2>1, <3>1
    <3>. QED  BY <1>5, <3>2 DEF InExtents
  <2>7. ASSUME \A k \in 1 .. e : x[k] # Removed, NEW k \in 1 .. e PROVE ~TooLong(x[k])
    <3>1. CASE k = e
      BY <2>1, <3>1
    <3>2. CASE k # e
      <4>1. \A i \in 1 .. e - 1 : i \in 1 .. e /\ i \in 1 .. n /\ i # e
        BY <1>5
      <4>2. \A i \in 1 .. e - 1 : x[i] = old[i] /\ old[i] # Removed
        BY <2>1, <2>7, <4>1
      <4>3. k \in 1 .. e - 1
        BY <3>2
      <4>. QED  BY <1>7, <4>2, <4>3
    <3>. QED  BY <3>1, <3>2
  <2>. QED  BY <1>2, <1>4, <1>5, <2>2, <2>3, <2>4, <2>5, <2>6, <2>7 DEF Merged
<1>. QED  BY <1>1, <1>10, <1>11


-----------------------------------------------------------------------------
(***************************************************************************)
(* Chunks written, and what reading them gives back.                       *)
(***************************************************************************)
DecodedOf(cs) == FlattenSeq([i \in DOMAIN cs |-> ChunkContent(cs[i])])
Before(cs, i) == Len(FlattenSeq([j \in 1 .. i - 1 |-> ChunkContent(cs[j])]))

\* Why a chunk can outgrow its size field.
Outgrown == (\E k \in DOMAIN exts : exts[k] = Removed) \/ StSize(Input) % blockSize # 0

ChunkGood(c) ==
  /\ c.type = RAW => Len(c.data) = c.blocks * blockSize
  /\ c.type = FILL => Len(c.data) = 1
  /\ c.type \in {DONTCARE, CRC32} => c.data = << >>
  /\ TrueSize(c) < SizeMod => c.size = TrueSize(c)
  /\ TrueSize(c) >= SizeMod => Outgrown

\* What is behind n units is holes for as many blocks.
HolesAt(n, blocks) == \A u \in n .. n + blocks * blockSize - 1 : u < StSize(Input) => IsHole(Input, u)

GoodChunks(cs) ==
  \A i \in 1 .. Len(cs) :
    ChunkGood(cs[i]) /\ (cs[i].type = DONTCARE => HolesAt(Before(cs, i), cs[i].blocks))

LEMMA ValuesAreNat == \A w \in Seq(Values) : w \in Seq(Nat)
<1> SUFFICES ASSUME NEW w \in Seq(Values) PROVE w \in Seq(Nat)
  OBVIOUS
<1>1. PICK n \in Nat : n = Len(w) /\ w \in [1 .. n -> Values]
  OBVIOUS
<1>2. w \in [1 .. n -> Nat]
  BY <1>1, ImageFileAssumption
<1>. QED  BY <1>2

\* What is put together holds what the pieces hold.
LEMMA FlattenType ==
  ASSUME NEW s, Len(s) \in Nat, \A i \in 1 .. Len(s) : s[i] \in Seq(Values), Len(s) = 0 => s = << >>
  PROVE  FlattenSeq(s) \in Seq(Values)
<1> DEFINE Bad == {k \in 1 .. Len(s) : Flattened(s)[k] \notin Seq(Values)}
<1>1. Bad = {}
  <2>1. SUFFICES ASSUME Bad # {} PROVE FALSE
    OBVIOUS
  <2>2. PICK m \in Bad : \A k \in Bad : m <= k
    <3>1. Bad \in SUBSET Nat
      OBVIOUS
    <3>. QED  BY <2>1, <3>1, LeastOf
  <2>3. PICK f : f = Flattened(s)
    OBVIOUS
  <2>4. m \in 1 .. Len(s) /\ f[m] \notin Seq(Values)
    BY <2>3
  <2>5. f[m] = IF m = 1 THEN s[m] ELSE f[m - 1] \o s[m]
    BY <2>3, <2>4, FlattenedSteps
  <2>6. m # 1 /\ f[m] = f[m - 1] \o s[m]
    BY <2>4, <2>5
  <2>7. m - 1 \in 1 .. Len(s) /\ ~(m <= m - 1)
    BY <2>4, <2>6
  <2>8. f[m - 1] \in Seq(Values)
    BY <2>2, <2>3, <2>7
  <2>9. s[m] \in Seq(Values)
    BY <2>4
  <2>10. f[m - 1] \o s[m] \in Seq(Values)
    BY <2>8, <2>9, ConcatProperties
  <2>. QED  BY <2>4, <2>6, <2>10
<1>2. CASE Len(s) = 0
  BY <1>2 DEF FlattenSeq
<1>3. CASE Len(s) # 0
  <2>1. Len(s) > 0 /\ Len(s) \in 1 .. Len(s)
    BY <1>3
  <2>2. FlattenSeq(s) = Flattened(s)[Len(s)]
    BY <2>1, FlattenedSteps
  <2>. QED  BY <1>1, <2>1, <2>2
<1>. QED  BY <1>2, <1>3

\* What a chunk stands for.
LEMMA ContentOf ==
  ASSUME blockSize \in Nat, NEW c \in ChunkRecord, ChunkGood(c)
  PROVE  /\ ChunkContent(c) \in Seq(Values)
         /\ c.type = RAW => ChunkContent(c) = c.data
         /\ c.type = FILL => ChunkContent(c) = Repeated(c.data[1], c.blocks * blockSize)
         /\ c.type = DONTCARE => ChunkContent(c) = Repeated(0, c.blocks * blockSize)
         /\ c.type = CRC32 => ChunkContent(c) = << >>
<1>1. c.type \in {RAW, FILL, DONTCARE, CRC32} /\ c.data \in Seq(Values) /\ c.blocks \in Nat
  BY DEF ChunkRecord
<1>2. /\ c.type = RAW => ChunkContent(c) = c.data
      /\ c.type = FILL => ChunkContent(c) = Repeated(c.data[1], c.blocks * blockSize)
      /\ c.type = DONTCARE => ChunkContent(c) = Repeated(0, c.blocks * blockSize)
      /\ c.type = CRC32 => ChunkContent(c) = << >>
  BY DEF ChunkContent, RAW, FILL, DONTCARE, CRC32
<1>3. PICK n \in Nat : n = c.blocks * blockSize
  BY <1>1
<1>4. \A v \in Values : Repeated(v, n) \in Seq(Values)
  BY DEF Repeated
<1>5. c.type = FILL => c.data[1] \in Values
  <2> SUFFICES ASSUME c.type = FILL PROVE c.data[1] \in Values
    OBVIOUS
  <2>1. Len(c.data) = 1
    BY DEF ChunkGood
  <2>. QED  BY <1>1, <2>1, ElementOfSeq
<1>6. 0 \in Values /\ << >> \in Seq(Values)
  BY ImageFileAssumption
<1>. QED  BY <1>1, <1>2, <1>3, <1>4, <1>5, <1>6

LEMMA DecodedType ==
  ASSUME blockSize \in Nat, NEW cs \in Seq(ChunkRecord), GoodChunks(cs)
  PROVE  DecodedOf(cs) \in Seq(Values)
<1>1. PICK n \in Nat : n = Len(cs) /\ DOMAIN cs = 1 .. n
  OBVIOUS
<1>2. PICK s : s = [i \in 1 .. n |-> ChunkContent(cs[i])]
  OBVIOUS
<1>3. \A i \in 1 .. n : ChunkContent(cs[i]) \in Seq(Values)
  <2> SUFFICES ASSUME NEW i \in 1 .. n PROVE ChunkContent(cs[i]) \in Seq(Values)
    OBVIOUS
  <2>1. cs[i] \in ChunkRecord /\ ChunkGood(cs[i])
    BY <1>1, ElementOfSeq DEF GoodChunks
  <2>. QED  BY <2>1, ContentOf
<1>4. Len(s) = n /\ (n = 0 => s = << >>) /\ \A i \in 1 .. n : s[i] = ChunkContent(cs[i])
  BY <1>2
<1>5. FlattenSeq(s) \in Seq(Values)
  BY <1>3, <1>4, FlattenType
<1>. QED  BY <1>1, <1>2, <1>5 DEF DecodedOf

\* Another chunk.
LEMMA DecodedMore ==
  ASSUME NEW cs, NEW ds, NEW n \in Nat, Len(cs) = n, DOMAIN cs = 1 .. n, DOMAIN ds = 1 .. n + 1,
         \A i \in 1 .. n : ds[i] = cs[i], ChunkContent(ds[n + 1]) \in Seq(Values)
  PROVE  DecodedOf(ds) = DecodedOf(cs) \o ChunkContent(ds[n + 1])
<1>1. PICK s, t : /\ s = [i \in 1 .. n |-> ChunkContent(cs[i])]
                  /\ t = [i \in 1 .. n + 1 |-> ChunkContent(ds[i])]
  OBVIOUS
<1>2. Len(s) = n /\ Len(t) = n + 1 /\ (n = 0 => s = << >>)
  BY <1>1
<1>3. n + 1 \in 1 .. n + 1
  OBVIOUS
<1>4. t[n + 1] = ChunkContent(ds[n + 1])
  BY <1>1, <1>3, Zenon
<1>5. \A i \in 1 .. n : t[i] = s[i]
  <2> SUFFICES ASSUME NEW i \in 1 .. n PROVE t[i] = s[i]
    OBVIOUS
  <2>1. i \in 1 .. n + 1
    OBVIOUS
  <2>2. t[i] = ChunkContent(ds[i]) /\ s[i] = ChunkContent(cs[i])
    BY <1>1, <2>1, Zenon
  <2>3. ds[i] = cs[i]
    OBVIOUS
  <2>. QED  BY <2>2, <2>3
<1>6. t[Len(t)] \in Seq(Nat)
  BY <1>2, <1>4, ValuesAreNat
<1>7. FlattenSeq(t) = FlattenSeq(s) \o t[Len(t)]
  BY <1>2, <1>5, <1>6, FlattenMore
<1>8. FlattenSeq(t) = FlattenSeq(s) \o ChunkContent(ds[n + 1])
  BY <1>2, <1>4, <1>7
<1>. QED  BY <1>1, <1>8 DEF DecodedOf

\* What comes before a chunk does not depend on what comes after it.
LEMMA BeforeSame ==
  ASSUME NEW cs, NEW ds, NEW i \in Nat, \A j \in 1 .. i - 1 : ds[j] = cs[j]
  PROVE  Before(ds, i) = Before(cs, i)
<1>1. [j \in 1 .. i - 1 |-> ChunkContent(ds[j])] = [j \in 1 .. i - 1 |-> ChunkContent(cs[j])]
  <2>1. \A j \in 1 .. i - 1 : ChunkContent(ds[j]) = ChunkContent(cs[j])
    OBVIOUS
  <2>. QED  BY <2>1, Zenon
<1>. QED  BY <1>1 DEF Before

\* A chunk more: its content comes behind what is there; a "don't care" is over holes.
LEMMA AddChunk ==
  ASSUME blockSize \in Nat, NEW cs \in Seq(ChunkRecord), GoodChunks(cs), NEW c \in ChunkRecord, ChunkGood(c),
         c.type = DONTCARE => HolesAt(Len(DecodedOf(cs)), c.blocks)
  PROVE  GoodChunks(Append(cs, c)) /\ DecodedOf(Append(cs, c)) = DecodedOf(cs) \o ChunkContent(c)
<1>1. PICK n, ds : n \in Nat /\ n = Len(cs) /\ ds = Append(cs, c)
  <2>1. Len(cs) \in Nat
    OBVIOUS
  <2>. QED  BY <2>1
<1>2. /\ DOMAIN cs = 1 .. n /\ DOMAIN ds = 1 .. n + 1 /\ Len(ds) = n + 1 /\ ds[n + 1] = c
      /\ \A i \in 1 .. n : ds[i] = cs[i]
  BY <1>1
<1>3. ChunkContent(c) \in Seq(Values)
  BY ContentOf
<1>4. DecodedOf(ds) = DecodedOf(cs) \o ChunkContent(ds[n + 1])
  BY <1>1, <1>2, <1>3, DecodedMore
<1>5. ASSUME NEW i \in 1 .. n + 1
      PROVE  ChunkGood(ds[i]) /\ (ds[i].type = DONTCARE => HolesAt(Before(ds, i), ds[i].blocks))
  <2>1. Before(ds, i) = Before(cs, i)
    <3>1. i \in Nat /\ \A j \in 1 .. i - 1 : j \in 1 .. n
      BY <1>1
    <3>. QED  BY <1>2, <3>1, BeforeSame
  <2>2. CASE i = n + 1
    <3>1. i - 1 = n
      BY <1>1, <2>2
    <3>2. Before(cs, i) = Len(DecodedOf(cs))
      BY <1>2, <3>1 DEF Before, DecodedOf
    <3>. QED  BY <1>2, <2>1, <2>2, <3>2
  <2>3. CASE i # n + 1
    <3>1. i \in 1 .. n
      BY <1>1, <2>3
    <3>. QED  BY <1>1, <1>2, <2>1, <3>1 DEF GoodChunks
  <2>. QED  BY <2>2, <2>3
<1>6. GoodChunks(ds)
  BY <1>2, <1>5 DEF GoodChunks
<1>. QED  BY <1>1, <1>2, <1>4, <1>6

\* The last chunk goes on.
LEMMA GrowChunk ==
  ASSUME blockSize \in Nat, NEW cs \in Seq(ChunkRecord), GoodChunks(cs), NEW n \in Nat, n = Len(cs), n > 0,
         NEW c \in ChunkRecord, ChunkGood(c), c.type # DONTCARE,
         NEW data \in Seq(Values), ChunkContent(c) = ChunkContent(cs[n]) \o data
  PROVE  /\ GoodChunks([cs EXCEPT ![n] = c])
         /\ DecodedOf([cs EXCEPT ![n] = c]) = DecodedOf(cs) \o data
<1>1. PICK front, ds : front = SubSeq(cs, 1, n - 1) /\ ds = [cs EXCEPT ![n] = c]
  OBVIOUS
<1>2. PICK m \in Nat : m = n - 1 /\ m + 1 = n /\ n \in 1 .. n
  <2>1. n - 1 \in Nat /\ n - 1 + 1 = n /\ n \in 1 .. n
    OBVIOUS
  <2>. QED  BY <2>1
<1>3. /\ front \in Seq(ChunkRecord) /\ Len(front) = m /\ DOMAIN front = 1 .. m
      /\ \A i \in 1 .. m : front[i] = cs[i]
  <2>1. \A i \in 1 .. m : cs[i] \in ChunkRecord
    <3> SUFFICES ASSUME NEW i \in 1 .. m PROVE cs[i] \in ChunkRecord
      OBVIOUS
    <3>1. i \in 1 .. Len(cs)
      BY <1>2
    <3>. QED  BY <3>1, ElementOfSeq
  <2>2. front = [i \in 1 .. m |-> cs[i]]
    BY <1>1, <1>2
  <2>3. front \in [1 .. m -> ChunkRecord]
    BY <2>1, <2>2
  <2>. QED  BY <1>2, <2>2, <2>3
<1>4. /\ DOMAIN cs = 1 .. m + 1 /\ DOMAIN ds = 1 .. m + 1 /\ Len(ds) = m + 1 /\ ds[m + 1] = c
      /\ \A i \in 1 .. m : ds[i] = cs[i]
  BY <1>1, <1>2
<1>5. \A i \in 1 .. m + 1 : Before(ds, i) = Before(cs, i) /\ (i <= m => Before(front, i) = Before(cs, i))
  <2> SUFFICES ASSUME NEW i \in 1 .. m + 1
               PROVE  Before(ds, i) = Before(cs, i) /\ (i <= m => Before(front, i) = Before(cs, i))
    OBVIOUS
  <2>1. i \in Nat /\ \A j \in 1 .. i - 1 : j \in 1 .. m
    OBVIOUS
  <2>2. (\A j \in 1 .. i - 1 : ds[j] = cs[j]) /\ (\A j \in 1 .. i - 1 : front[j] = cs[j])
    BY <1>3, <1>4, <2>1
  <2>. QED  BY <2>1, <2>2, BeforeSame
<1>6. \A i \in 1 .. m + 1 : ChunkGood(cs[i]) /\ (cs[i].type = DONTCARE => HolesAt(Before(cs, i), cs[i].blocks))
  BY <1>2 DEF GoodChunks
<1>7. GoodChunks(front)
  <2> SUFFICES ASSUME NEW i \in 1 .. m
               PROVE  ChunkGood(front[i]) /\ (front[i].type = DONTCARE => HolesAt(Before(front, i), front[i].blocks))
    BY <1>3 DEF GoodChunks
  <2>1. i \in 1 .. m + 1 /\ i <= m
    OBVIOUS
  <2>. QED  BY <1>3, <1>5, <1>6, <2>1
<1>8. GoodChunks(ds)
  <2> SUFFICES ASSUME NEW i \in 1 .. m + 1
               PROVE  ChunkGood(ds[i]) /\ (ds[i].type = DONTCARE => HolesAt(Before(ds, i), ds[i].blocks))
    BY <1>4 DEF GoodChunks
  <2>1. CASE i = m + 1
    BY <1>4, <2>1
  <2>2. CASE i # m + 1
    <3>1. i \in 1 .. m
      BY <2>2
    <3>. QED  BY <1>4, <1>5, <1>6, <3>1
  <2>. QED  BY <2>1, <2>2
<1>9. PICK w \in Seq(Values) : w = DecodedOf(front)
  BY <1>3, <1>7, DecodedType
<1>10. PICK x \in Seq(Values) : x = ChunkContent(cs[m + 1])
  <2>1. m + 1 \in 1 .. Len(cs)
    BY <1>2
  <2>2. cs[m + 1] \in ChunkRecord /\ ChunkGood(cs[m + 1])
    BY <1>2, <1>6, <2>1, ElementOfSeq
  <2>. QED  BY <2>2, ContentOf
<1>11. DecodedOf(cs) = w \o x
  <2>1. \A i \in 1 .. m : cs[i] = front[i]
    BY <1>3
  <2>. QED  BY <1>3, <1>4, <1>9, <1>10, <2>1, DecodedMore
<1>12. DecodedOf(ds) = w \o (x \o data)
  <2>1. \A i \in 1 .. m : ds[i] = front[i]
    BY <1>3, <1>4
  <2>2. ChunkContent(c) \in Seq(Values)
    BY ContentOf
  <2>3. DecodedOf(ds) = DecodedOf(front) \o ChunkContent(ds[m + 1])
    BY <1>3, <1>4, <2>1, <2>2, DecodedMore
  <2>. QED  BY <1>2, <1>4, <1>9, <1>10, <2>3
<1>13. w \o (x \o data) = (w \o x) \o data
  <2>1. w \in Seq(Values) /\ x \in Seq(Values) /\ data \in Seq(Values)
    OBVIOUS
  <2>2. (w \o x) \o data = w \o (x \o data)
    BY ONLY <2>1, ConcatAssociative
  <2>. QED  BY <2>2
<1>. QED  BY <1>1, <1>8, <1>11, <1>12, <1>13


-----------------------------------------------------------------------------
(***************************************************************************)
(* A block is added to the chunk being written, or begins another one.     *)
(***************************************************************************)
\* The block read is the input from where the checksum has come to; behind the end of it are zeros.
LEMMA BlockUnits ==
  ASSUME IsFile(Input), SparseInv, spc = "block", left > 0, Merged(Input, exts, Len(exts)),
         Len(crc) + left = exts[ei].end, Whole(Len(crc))
  PROVE  \A i \in 1 .. blockSize : BlockData(Input)[i] = Unit(Input, Len(crc) + i - 1)
<1>1. /\ blockSize \in Nat /\ blockSize > 0 /\ ei \in Nat \ {0} /\ left \in Nat /\ exts \in Seq(ExtentRecord)
      /\ \A i \in 1 .. Len(exts) : exts[i].start <= exts[i].end /\ exts[i].end <= StSize(Input)
      /\ ei <= Len(exts) /\ left <= Length(exts[ei]) /\ crc \in Seq(Values)
  BY DEF SparseInv, ExtentRecord
<1>2. ei \in 1 .. Len(exts)
  BY <1>1
<1>3. exts[ei] \in ExtentRecord
  BY <1>1, <1>2, ElementOfSeq
<1>4. PICK e \in Nat, size \in Nat, l \in Nat, b \in Nat, n \in Nat :
        /\ e = exts[ei].end /\ size = StSize(Input) /\ e <= size /\ size = Input.size
        /\ l = left /\ l > 0 /\ b = blockSize /\ b > 0 /\ n = Len(crc) /\ n + l = e
  <2>1. /\ exts[ei].end \in Nat /\ StSize(Input) \in Nat /\ Len(crc) \in Nat /\ exts[ei].end <= StSize(Input)
        /\ (StSize(Input) = 0 \/ StSize(Input) = Input.size)
    BY <1>1, <1>2, <1>3, ExtentFields, StSizeOf
  <2>2. StSize(Input) = Input.size
    <3>1. StSize(Input) # 0
      BY ONLY <1>1, <2>1, left > 0, Len(crc) + left = exts[ei].end
    <3>. QED  BY <2>1, <3>1
  <2>. QED  BY ONLY <1>1, <2>1, <2>2, left > 0, Len(crc) + left = exts[ei].end
<1>5. PICK m \in Nat : m = Now /\ m = IF l <= b THEN l ELSE b
  BY <1>4, MinOfTwo DEF Now
<1>6. PICK t : t = Input.at /\ t \in [0 .. size - 1 -> Values]
  BY <1>4 DEF IsFile
<1>7. BlockData(Input) = [i \in 1 .. b |-> IF i <= m THEN t[e - l + i - 1] ELSE 0]
  BY <1>4, <1>5, <1>6 DEF BlockData
<1>8. Whole(e) \/ e = size
  <2>1. e # 0
    BY <1>4
  <2>. QED  BY <1>2, <1>4, <2>1 DEF Merged
<1>9. ASSUME NEW i \in 1 .. b PROVE BlockData(Input)[i] = Unit(Input, Len(crc) + i - 1)
  <2>1. BlockData(Input)[i] = IF i <= m THEN t[e - l + i - 1] ELSE 0
    BY <1>7
  <2>2. PICK u \in Nat : u = n + i - 1 /\ u = e - l + i - 1
    <3>1. n + i - 1 \in Nat /\ n + i - 1 = e - l + i - 1
      BY ONLY <1>4, i \in 1 .. b, e \in Nat, l \in Nat, n \in Nat, b \in Nat
    <3>. QED  BY <3>1
  <2>3. CASE i <= m
    <3>1. u < size
      BY <1>4, <1>5, <2>2, <2>3
    <3>. QED  BY <1>4, <1>6, <2>1, <2>2, <2>3, <3>1 DEF Unit
  <2>4. CASE ~(i <= m)
    <3>1. m = l /\ l < b
      BY <1>4, <1>5, <2>4
    <3>2. ~Whole(e)
      <4>1. e < n + blockSize /\ ~(e <= n)
        BY <1>4, <3>1
      <4>2. Whole(n) /\ blockSize \in Nat
        BY <1>1, <1>4
      <4>. QED  BY <4>1, <4>2, WholeApart
    <3>3. ~(u < size)
      BY <1>4, <1>8, <2>2, <2>4, <3>1, <3>2
    <3>. QED  BY <1>4, <2>1, <2>2, <2>4, <3>3 DEF Unit
  <2>. QED  BY <2>3, <2>4
<1>. QED  BY <1>4, <1>9

LEMMA Multiple == \A m \in Nat, b \in Nat : b > 0 /\ m % b = 0 => m = (m \div b) * b /\ m \div b \in Nat
OBVIOUS

\* Unless extents were joined or the last block is padded, an extent fits a chunk.
LEMMA BlockFits ==
  ASSUME IsFile(Input), SparseInv, spc = "block", left > 0, Merged(Input, exts, Len(exts)),
         Len(crc) + left = exts[ei].end, Whole(Len(crc)), exts[ei].start <= Len(crc), ~Outgrown
  PROVE  ChunkHeader + (Len(crc) - exts[ei].start) + blockSize < SizeMod
<1>1. /\ blockSize \in Nat /\ blockSize > 0 /\ ei \in Nat \ {0} /\ left \in Nat /\ exts \in Seq(ExtentRecord)
      /\ ei <= Len(exts) /\ crc \in Seq(Values)
  BY DEF SparseInv, ExtentRecord
<1>2. ei \in 1 .. Len(exts) /\ DOMAIN exts = 1 .. Len(exts)
  BY <1>1
<1>3. exts[ei] \in ExtentRecord
  BY <1>1, <1>2, ElementOfSeq
<1>4. PICK s \in Nat, e \in Nat, size \in Nat, l \in Nat, b \in Nat, n \in Nat :
        /\ s = exts[ei].start /\ e = exts[ei].end /\ size = StSize(Input)
        /\ l = left /\ l > 0 /\ b = blockSize /\ b > 0 /\ n = Len(crc) /\ n + l = e /\ s <= n
  <2>1. /\ exts[ei].start \in Nat /\ exts[ei].end \in Nat /\ StSize(Input) \in Nat /\ Len(crc) \in Nat
    BY <1>1, <1>3, ExtentFields, StSizeOf
  <2>. QED  BY ONLY <1>1, <2>1, left > 0, Len(crc) + left = exts[ei].end, exts[ei].start <= Len(crc)
<1>5. PICK h \in Nat, m \in Nat : h = ChunkHeader /\ m = SizeMod
  BY SparseAssumption
<1>6. Whole(size)
  <2>1. size % b = 0
    BY <1>4 DEF Outgrown
  <2>2. size = (size \div b) * b /\ size \div b \in Nat
    BY <1>4, <2>1, Multiple
  <2>. QED  BY <1>4, <2>2 DEF Whole
<1>7. Whole(e)
  <2>1. e # 0
    BY <1>4
  <2>. QED  BY <1>2, <1>4, <1>6, <2>1 DEF Merged
<1>8. n + b <= e
  <2>1. Whole(n + b) /\ n + b \in Nat /\ n + b < e + blockSize /\ blockSize \in Nat
    <3>1. Whole(n) /\ n + b \in Nat /\ n + b < e + blockSize /\ blockSize \in Nat
      BY <1>1, <1>4
    <3>. QED  BY <1>4, <3>1, WholeSum
  <2>. QED  BY <1>7, <2>1, WholeApart
<1>9. ~TooLong(exts[ei])
  <2>1. \A k \in 1 .. Len(exts) : exts[k] # Removed
    BY <1>2 DEF Outgrown
  <2>. QED  BY <1>2, <2>1 DEF Merged
<1>10. e - s <= m - 1 - h
  BY <1>4, <1>5, <1>9 DEF TooLong, Length
<1>11. h + (n - s) + b < m
  BY <1>5, <1>8, <1>10
<1>. QED  BY <1>4, <1>5, <1>11

\* What the file holds when the header of the chunk being written is flushed.
FlushedNext == Flushed(chunks)'

BlockReads(data) ==
  /\ GoodChunks(FlushedNext) /\ DecodedOf(FlushedNext) = crc \o data
  /\ header'.chunks = Len(chunks') /\ header'.blocks = header.blocks
  /\ ch'.type # "none" /\ pos' = Len(chunks') /\ pos' > 0
  /\ ch'.type = RAW => Len(chunks'[pos'].data) =
                         blockSize + IF Continues(data) THEN Len(chunks[pos].data) ELSE 0
LEMMA LastOfAppend ==
  ASSUME NEW S, NEW s \in Seq(S), NEW x \in S, NEW y \in S
  PROVE  /\ Append(s, x)[Len(s) + 1] = x /\ Len(Append(s, x)) = Len(s) + 1
         /\ [Append(s, x) EXCEPT ![Len(s) + 1] = y] = Append(s, y)
<1>1. PICK n, a, b : /\ n \in Nat /\ n = Len(s) /\ a = Append(s, x) /\ b = Append(s, y)
                     /\ a \in Seq(S) /\ b \in Seq(S)
  <2>1. Len(s) \in Nat /\ Append(s, x) \in Seq(S) /\ Append(s, y) \in Seq(S)
    OBVIOUS
  <2>. QED  BY <2>1
<1>2. Len(a) = n + 1 /\ a[n + 1] = x /\ \A i \in 1 .. n : a[i] = s[i]
  BY <1>1
<1>3. Len(b) = n + 1 /\ b[n + 1] = y /\ \A i \in 1 .. n : b[i] = s[i]
  BY <1>1
<1>4. [a EXCEPT ![n + 1] = y] = b
  <2>1. a = [i \in 1 .. n + 1 |-> a[i]] /\ b = [i \in 1 .. n + 1 |-> b[i]] /\ DOMAIN a = 1 .. n + 1
    <3>1. \A w \in Seq(S) : w = [i \in 1 .. Len(w) |-> w[i]] /\ DOMAIN w = 1 .. Len(w)
      OBVIOUS
    <3>. QED  BY <1>1, <1>2, <1>3, <3>1, Zenon
  <2>2. \A i \in 1 .. n + 1 : [a EXCEPT ![n + 1] = y][i] = b[i]
    <3> SUFFICES ASSUME NEW i \in 1 .. n + 1 PROVE [a EXCEPT ![n + 1] = y][i] = b[i]
      OBVIOUS
    <3>1. i = n + 1 \/ i \in 1 .. n
      BY <1>1
    <3>. QED  BY <1>2, <1>3, <2>1, <3>1
  <2>. QED  BY <2>1, <2>2
<1>. QED  BY <1>1, <1>2, <1>4

LEMMA ChunkFields ==
  \A h, data : /\ Chunk(h, data).type = h.type /\ Chunk(h, data).blocks = h.blocks
               /\ Chunk(h, data).size = h.size /\ Chunk(h, data).data = data
BY DEF Chunk

\* A block of one value is a fill, and a fill repeats its value.
LEMMA FillBlock ==
  ASSUME NEW data \in Seq(Values), NEW b \in Nat, Len(data) = b, IsFill(data)
  PROVE  data = Repeated(data[1], b)
<1>1. DOMAIN data = 1 .. b /\ data = [i \in 1 .. b |-> data[i]]
  OBVIOUS
<1>2. \A i \in 1 .. b : data[i] = data[1]
  BY <1>1 DEF IsFill
<1>. QED  BY <1>1, <1>2 DEF Repeated

LEMMA RepeatedMore ==
  ASSUME NEW v \in Values, NEW m \in Nat, NEW n \in Nat
  PROVE  Repeated(v, m) \o Repeated(v, n) = Repeated(v, m + n)
<1>1. /\ Repeated(v, m) \in Seq(Values) /\ Repeated(v, n) \in Seq(Values)
      /\ Len(Repeated(v, m)) = m /\ Len(Repeated(v, n)) = n
  BY DEF Repeated
<1>2. PICK s, t : s = Repeated(v, m) /\ t = Repeated(v, n)
  OBVIOUS
<1>3. s \o t = [i \in 1 .. m + n |-> IF i <= m THEN s[i] ELSE t[i - m]]
  <2>1. PICK w : w = s \o t
    OBVIOUS
  <2>2. /\ w \in Seq(Values) /\ Len(w) = m + n
        /\ \A i \in 1 .. m + n : w[i] = IF i <= m THEN s[i] ELSE t[i - m]
    <3>1. s \in Seq(Values) /\ t \in Seq(Values) /\ Len(s) = m /\ Len(t) = n
      BY <1>1, <1>2
    <3>. QED  BY <2>1, <3>1, ConcatProperties
  <2>3. w = [i \in 1 .. m + n |-> w[i]]
    BY <2>2
  <2>. QED  BY <2>1, <2>2, <2>3
<1>4. \A i \in 1 .. m + n : (IF i <= m THEN s[i] ELSE t[i - m]) = v
  BY <1>2 DEF Repeated
<1>. QED  BY <1>2, <1>3, <1>4 DEF Repeated

\* The number of chunks in the header of the file.
LEMMA CountChunks ==
  ASSUME header \in [blocks : Nat, chunks : Nat], header' = Added(1)
  PROVE  header'.chunks = header.chunks + 1 /\ header'.blocks = header.blocks
<1>1. PICK x \in Nat, y \in Nat : header = [blocks |-> x, chunks |-> y]
  OBVIOUS
<1>2. header' = [header EXCEPT !.chunks = header.chunks + 1]
  BY Zenon DEF Added
<1>. QED  BY <1>1, <1>2

LEMMA NewChunk ==
  ASSUME IsFile(Input), SparseInv, SparseBlock(Input), GoodChunks(Flushed(chunks)),
         DecodedOf(Flushed(chunks)) = crc, header.chunks = Len(chunks), ~Continues(BlockData(Input)),
         ~Outgrown => ChunkHeader + blockSize < SizeMod
  PROVE  BlockReads(BlockData(Input))
<1>1. PICK data, fs, d, h : /\ data = BlockData(Input) /\ fs = Flushed(chunks)
                            /\ d = IF IsFill(data) THEN <<data[1]>> ELSE << >>
                            /\ h = NewHeader(data)
  OBVIOUS
<1>2. /\ spc = "block" /\ left > 0 /\ header' = Added(1) /\ pos' = Len(chunks) + 1
      /\ IF IsFill(data)
         THEN ch' = [h EXCEPT !.blocks = @ + 1] /\ chunks' = Append(fs, Chunk(h, d))
         ELSE /\ ch' = [h EXCEPT !.blocks = @ + 1, !.size = (@ + blockSize) % SizeMod]
              /\ chunks' = Payload(Append(fs, Chunk(h, d)), Len(chunks) + 1, data)
  BY <1>1, Zenon DEF SparseBlock
<1>3. /\ data \in Seq(Values) /\ Len(data) = blockSize /\ data[1] \in Values /\ blockSize \in Nat
      /\ pos \in Nat /\ chunks \in Seq(ChunkRecord)
      /\ ch \in [type : {"none", RAW, FILL}, blocks : Nat, size : Nat]
      /\ header \in [blocks : Nat, chunks : Nat]
  BY <1>1, <1>2, BlockType DEF SparseInv
<1>4. PICK n \in Nat, b \in Nat, k \in Nat, m \in Nat :
        n = Len(chunks) /\ b = blockSize /\ k = ChunkHeader /\ m = SizeMod /\ m > 0 /\ k + 1 < m
  <2>1. Len(chunks) \in Nat /\ ChunkHeader \in Nat /\ SizeMod \in Nat /\ SizeMod > 0
    BY <1>3, SparseAssumption
  <2>. QED  BY <1>3, <2>1, HeaderAssumption
<1>5. fs \in Seq(ChunkRecord) /\ Len(fs) = n
  BY <1>1, <1>3, <1>4, FlushedChunks
<1>6. header'.chunks = n + 1 /\ header'.blocks = header.blocks
  BY <1>2, <1>3, <1>4, CountChunks
<1>7. ASSUME NEW c \in ChunkRecord, ChunkGood(c), c.type # DONTCARE, ChunkContent(c) = data,
             FlushedNext = Append(fs, c)
      PROVE  GoodChunks(FlushedNext) /\ DecodedOf(FlushedNext) = crc \o data
  BY <1>1, <1>3, <1>5, <1>7, AddChunk
<1>8. ASSUME IsFill(data) PROVE BlockReads(data)
  <2>1. PICK v \in Values : v = data[1]
    BY <1>3
  <2>2. h = [type |-> FILL, blocks |-> 0, size |-> k + 1]
    BY <1>1, <1>4, <1>8 DEF NewHeader
  <2>3. ch' = [type |-> FILL, blocks |-> 1, size |-> k + 1]
    BY <1>2, <1>8, <2>2
  <2>4. d = <<v>> /\ d \in Seq(Values)
    BY <1>1, <1>8, <2>1
  <2>5. PICK x, c : x = Chunk(h, d) /\ c = Chunk(ch', d)
    OBVIOUS
  <2>6. x \in ChunkRecord /\ c \in ChunkRecord
    <3>1. h.type = FILL /\ h.blocks \in Nat /\ h.size \in Nat
      BY <2>2
    <3>2. ch'.type = FILL /\ ch'.blocks \in Nat /\ ch'.size \in Nat
      BY <2>3
    <3>. QED  BY <2>4, <2>5, <3>1, <3>2, MakeChunk
  <2>7. c.type = FILL /\ c.blocks = 1 /\ c.size = k + 1 /\ c.data = <<v>> /\ x.data = <<v>>
    BY <2>3, <2>4, <2>5, ChunkFields
  <2>8. chunks' = Append(fs, x)
    BY <1>2, <1>8, <2>5
  <2>9. chunks'[n + 1] = x /\ Len(chunks') = n + 1 /\ [chunks' EXCEPT ![n + 1] = c] = Append(fs, c)
    BY <1>5, <2>6, <2>8, LastOfAppend
  <2>10. FlushedNext = Append(fs, c)
    <3>1. ch'.type # "none"
      BY <2>3 DEF FILL
    <3>2. pos' = n + 1
      BY <1>2, <1>4
    <3>3. FlushedNext = [chunks' EXCEPT ![pos'] = Chunk(ch', chunks'[pos'].data)]
      BY <3>1, Zenon DEF FlushedNext, Flushed
    <3>4. Chunk(ch', chunks'[pos'].data) = c
      BY <2>4, <2>5, <2>7, <2>9, <3>2
    <3>. QED  BY <2>9, <3>2, <3>3, <3>4
  <2>11. ChunkGood(c)
    <3>1. TrueSize(c) = k + 1
      BY <1>4, <2>7 DEF TrueSize
    <3>2. FILL # RAW /\ FILL # DONTCARE /\ FILL # CRC32
      BY DEF FILL, RAW, DONTCARE, CRC32
    <3>. QED  BY <1>4, <2>7, <3>1, <3>2 DEF ChunkGood
  <2>12. ChunkContent(c) = data
    <3>1. ChunkContent(c) = Repeated(c.data[1], c.blocks * blockSize)
      BY <1>3, <2>6, <2>7, <2>11, ContentOf
    <3>2. c.data[1] = v /\ c.blocks * blockSize = b
      BY <1>4, <2>7
    <3>3. data = Repeated(v, b)
      BY <1>3, <1>4, <1>8, <2>1, FillBlock
    <3>. QED  BY <3>1, <3>2, <3>3
  <2>13. c.type # DONTCARE /\ ch'.type # RAW /\ ch'.type # "none"
    BY <2>3, <2>7 DEF FILL, RAW, DONTCARE
  <2>. QED  BY <1>1, <1>2, <1>4, <1>6, <1>7, <2>6, <2>9, <2>10, <2>11, <2>12, <2>13 DEF BlockReads
<1>9. ASSUME ~IsFill(data) PROVE BlockReads(data)
  <2>1. h = [type |-> RAW, blocks |-> 0, size |-> k]
    BY <1>1, <1>4, <1>9 DEF NewHeader
  <2>2. PICK z \in Nat : z = (k + b) % m
    BY <1>4
  <2>3. ch' = [type |-> RAW, blocks |-> 1, size |-> z]
    <3>1. ch' = [h EXCEPT !.blocks = h.blocks + 1, !.size = (h.size + blockSize) % SizeMod]
      BY <1>2, <1>9, Zenon
    <3>2. h.blocks = 0 /\ h.size = k
      BY <2>1
    <3>3. ch' = [h EXCEPT !.blocks = 0 + 1, !.size = (k + b) % m]
      BY <1>4, <3>1, <3>2
    <3>4. ch' = [h EXCEPT !.blocks = 1, !.size = z]
      BY <2>2, <3>3
    <3>. QED  BY <2>1, <3>4
  <2>4. d = << >> /\ d \in Seq(Values)
    BY <1>1, <1>9
  <2>5. PICK x, c, y : x = Chunk(h, d) /\ c = Chunk(ch', data) /\ y = [x EXCEPT !.data = x.data \o data]
    OBVIOUS
  <2>6. h.type = RAW /\ h.blocks = 0 /\ h.size = k /\ ch'.type = RAW /\ ch'.blocks = 1 /\ ch'.size = z
    BY <2>1, <2>3
  <2>7. x \in ChunkRecord /\ c \in ChunkRecord
    <3>1. h.type = RAW /\ h.blocks \in Nat /\ h.size \in Nat
      BY <2>6
    <3>2. ch'.type = RAW /\ ch'.blocks \in Nat /\ ch'.size \in Nat
      BY <2>6
    <3>. QED  BY <1>3, <2>4, <2>5, <3>1, <3>2, MakeChunk
  <2>8. c.type = RAW /\ c.blocks = 1 /\ c.size = z /\ c.data = data
    BY <2>5, <2>6, ChunkFields
  <2>9. y = Chunk(h, data)
    <3>1. x = [type |-> h.type, blocks |-> h.blocks, size |-> h.size, data |-> d]
      BY <2>5 DEF Chunk
    <3>2. d \o data = data
      BY <1>3, <2>4, ConcatEmptySeq
    <3>3. y = [x EXCEPT !.data = data]
      <4>1. x.data = d
        BY <3>1
      <4>2. x.data \o data = data
        BY <3>2, <4>1
      <4>. QED  BY <2>5, <4>2, Zenon
    <3>. QED  BY <3>1, <3>3 DEF Chunk
  <2>10. y \in ChunkRecord /\ y.data = data
    BY <1>3, <1>4, <2>6, <2>9, MakeChunk, ChunkFields
  <2>11. chunks' = Append(fs, y)
    <3>1. PICK a : a = Append(fs, x)
      OBVIOUS
    <3>2. chunks' = Payload(a, n + 1, data)
      BY <1>2, <1>4, <1>9, <2>5, <3>1
    <3>3. chunks' = [a EXCEPT ![n + 1] = [a[n + 1] EXCEPT !.data = a[n + 1].data \o data]]
      BY <3>2, Zenon DEF Payload
    <3>4. a[n + 1] = x
      BY <1>5, <2>7, <3>1, LastOfAppend
    <3>5. chunks' = [a EXCEPT ![n + 1] = y]
      BY <2>5, <3>3, <3>4
    <3>. QED  BY <1>5, <2>7, <2>10, <3>1, <3>5, LastOfAppend
  <2>12. chunks'[n + 1] = y /\ Len(chunks') = n + 1 /\ [chunks' EXCEPT ![n + 1] = c] = Append(fs, c)
    BY <1>5, <2>7, <2>10, <2>11, LastOfAppend
  <2>13. FlushedNext = Append(fs, c)
    <3>1. ch'.type # "none"
      BY <2>6 DEF RAW
    <3>2. pos' = n + 1
      BY <1>2, <1>4
    <3>3. FlushedNext = [chunks' EXCEPT ![pos'] = Chunk(ch', chunks'[pos'].data)]
      BY <3>1, Zenon DEF FlushedNext, Flushed
    <3>4. Chunk(ch', chunks'[pos'].data) = c
      BY <2>5, <2>10, <2>12, <3>2
    <3>. QED  BY <2>12, <3>2, <3>3, <3>4
  <2>14. ChunkGood(c)
    <3>1. TrueSize(c) = k + b
      BY <1>3, <1>4, <2>8 DEF TrueSize, RAW, FILL, CRC32
    <3>2. k + b < m => z = k + b
      BY <1>4, <2>2
    <3>3. k + b >= m => Outgrown
      BY <1>4
    <3>4. FILL # RAW /\ RAW # DONTCARE /\ RAW # CRC32
      BY DEF FILL, RAW, DONTCARE, CRC32
    <3>5. Len(c.data) = c.blocks * blockSize
      BY <1>3, <1>4, <2>8
    <3>. QED  BY <1>4, <2>8, <3>1, <3>2, <3>3, <3>4, <3>5 DEF ChunkGood
  <2>15. ChunkContent(c) = data
    BY <1>3, <2>7, <2>8, <2>14, ContentOf
  <2>16. c.type # DONTCARE /\ ch'.type # "none"
    BY <2>6, <2>8 DEF RAW, DONTCARE
  <2>17. Len(chunks'[pos'].data) = blockSize + IF Continues(data) THEN Len(chunks[pos].data) ELSE 0
    <3>1. Len(chunks'[pos'].data) = blockSize /\ ~Continues(data)
      BY <1>1, <1>2, <1>3, <1>4, <2>10, <2>12
    <3>2. b + 0 = b
      OBVIOUS
    <3>. QED  BY <1>4, <3>1, <3>2
  <2>18. pos' = Len(chunks') /\ pos' > 0 /\ header'.chunks = Len(chunks') /\ header'.blocks = header.blocks
    BY <1>2, <1>4, <1>6, <2>12
  <2>19. GoodChunks(FlushedNext) /\ DecodedOf(FlushedNext) = crc \o data
    BY <1>7, <2>7, <2>13, <2>14, <2>15, <2>16
  <2>. QED  BY <2>16, <2>17, <2>18, <2>19 DEF BlockReads
<1>. QED  BY <1>1, <1>8, <1>9

\* The header of a chunk is flushed over the one before.
LEMMA LastFlushed ==
  ASSUME NEW d \in Seq(Values), chunks'[pos'].data = d, ch'.type \in {RAW, FILL}, ch'.blocks \in Nat, ch'.size \in Nat
  PROVE  /\ FlushedNext = [chunks' EXCEPT ![pos'] = Chunk(ch', d)] /\ Chunk(ch', d) \in ChunkRecord
         /\ Chunk(ch', d).type = ch'.type /\ Chunk(ch', d).blocks = ch'.blocks /\ Chunk(ch', d).size = ch'.size
         /\ Chunk(ch', d).data = d
<1>1. ch'.type # "none"
  BY DEF RAW, FILL
<1>2. FlushedNext = [chunks' EXCEPT ![pos'] = Chunk(ch', chunks'[pos'].data)]
  BY <1>1, Zenon DEF FlushedNext, Flushed
<1>. QED  BY <1>2, MakeChunk, ChunkFields

LEMMA GoneOn ==
  ASSUME IsFile(Input), SparseInv, SparseBlock(Input), GoodChunks(Flushed(chunks)),
         DecodedOf(Flushed(chunks)) = crc, header.chunks = Len(chunks), Continues(BlockData(Input)),
         pos = Len(chunks), pos > 0,
         ch.type = RAW /\ ~Outgrown => ChunkHeader + Len(chunks[pos].data) + blockSize < SizeMod
  PROVE  BlockReads(BlockData(Input))
<1>1. PICK data, fs : data = BlockData(Input) /\ fs = Flushed(chunks)
  OBVIOUS
<1>2. /\ spc = "block" /\ left > 0 /\ header' = header /\ pos' = pos
      /\ IF IsFill(data)
         THEN ch' = [ch EXCEPT !.blocks = @ + 1] /\ chunks' = chunks
         ELSE /\ ch' = [ch EXCEPT !.blocks = @ + 1, !.size = (@ + blockSize) % SizeMod]
              /\ chunks' = Payload(chunks, pos, data)
  BY <1>1, Zenon DEF SparseBlock
<1>3. /\ data \in Seq(Values) /\ Len(data) = blockSize /\ data[1] \in Values /\ blockSize \in Nat
      /\ pos \in Nat /\ chunks \in Seq(ChunkRecord)
      /\ ch \in [type : {"none", RAW, FILL}, blocks : Nat, size : Nat]
      /\ header \in [blocks : Nat, chunks : Nat]
  BY <1>1, <1>2, BlockType DEF SparseInv
<1>4. PICK n \in Nat, b \in Nat, k \in Nat, m \in Nat :
        /\ n = Len(chunks) /\ n = pos /\ n > 0 /\ b = blockSize /\ k = ChunkHeader /\ m = SizeMod /\ m > 0
        /\ k + 1 < m
  <2>1. Len(chunks) \in Nat /\ ChunkHeader \in Nat /\ SizeMod \in Nat /\ SizeMod > 0
    BY <1>3, SparseAssumption
  <2>. QED  BY <1>3, <2>1, HeaderAssumption
<1>5. fs \in Seq(ChunkRecord) /\ Len(fs) = n /\ n \in 1 .. Len(chunks) /\ n \in 1 .. Len(fs)
  BY <1>1, <1>3, <1>4, FlushedChunks
<1>6. PICK e \in Seq(Values) : e = chunks[n].data
  <2>1. chunks[n] \in ChunkRecord
    BY <1>3, <1>5, ElementOfSeq
  <2>. QED  BY <2>1 DEF ChunkRecord
<1>7. PICK t \in {RAW, FILL}, q \in Nat, z \in Nat : ch = [type |-> t, blocks |-> q, size |-> z]
  <2>1. ch.type \in {RAW, FILL}
    BY DEF Continues
  <2>. QED  BY <1>3, <2>1
<1>8. ch.type # "none" /\ t # "none" /\ t # DONTCARE
  BY <1>7 DEF RAW, FILL, DONTCARE
<1>9. PICK old : old = Chunk(ch, e)
  OBVIOUS
<1>10. fs = [chunks EXCEPT ![n] = old] /\ fs[n] = old
  <2>1. fs = [chunks EXCEPT ![pos] = Chunk(ch, chunks[pos].data)]
    BY <1>1, <1>8, Zenon DEF Flushed
  <2>2. fs = [chunks EXCEPT ![n] = old]
    BY <1>4, <1>6, <1>9, <2>1
  <2>. QED  BY <1>3, <1>5, <2>2
<1>11. old.type = t /\ old.blocks = q /\ old.size = z /\ old.data = e
  BY <1>7, <1>9, ChunkFields
<1>12. old \in ChunkRecord /\ ChunkGood(old)
  BY <1>1, <1>5, <1>10, ElementOfSeq DEF GoodChunks
<1>13. ASSUME NEW c \in ChunkRecord, ChunkGood(c), c.type # DONTCARE, ChunkContent(c) = ChunkContent(old) \o data,
              FlushedNext = [chunks EXCEPT ![n] = c]
       PROVE  GoodChunks(FlushedNext) /\ DecodedOf(FlushedNext) = crc \o data
  <2>1. [chunks EXCEPT ![n] = c] = [fs EXCEPT ![n] = c]
    BY <1>10
  <2>2. ChunkContent(c) = ChunkContent(fs[n]) \o data
    BY <1>10, <1>13
  <2>3. /\ blockSize \in Nat /\ fs \in Seq(ChunkRecord) /\ GoodChunks(fs) /\ n \in Nat /\ n = Len(fs) /\ n > 0
        /\ c \in ChunkRecord /\ ChunkGood(c) /\ c.type # DONTCARE /\ data \in Seq(Values)
    BY <1>1, <1>3, <1>4, <1>5, <1>13
  <2>4. GoodChunks([fs EXCEPT ![n] = c]) /\ DecodedOf([fs EXCEPT ![n] = c]) = DecodedOf(fs) \o data
    BY <2>2, <2>3, GrowChunk, Zenon
  <2>. QED  BY <1>1, <1>13, <2>1, <2>4
<1>14. header'.chunks = n /\ header'.blocks = header.blocks
  BY <1>2, <1>4
<1>16. ASSUME IsFill(data) PROVE BlockReads(data)
  <2>1. t = FILL /\ e = <<data[1]>>
    BY <1>1, <1>4, <1>6, <1>7, <1>16 DEF Continues
  <2>2. PICK v \in Values : v = data[1]
    BY <1>3
  <2>3. ch' = [type |-> t, blocks |-> q + 1, size |-> z]
    <3>1. ch' = [ch EXCEPT !.blocks = ch.blocks + 1]
      BY <1>2, <1>16, Zenon
    <3>. QED  BY <1>7, <3>1
  <2>4. chunks' = [chunks EXCEPT ![n] = chunks[n]] /\ chunks[n] \in ChunkRecord
    <3>1. chunks' = chunks
      BY <1>2, <1>16
    <3>2. chunks[n] \in ChunkRecord /\ chunks = [i \in 1 .. Len(chunks) |-> chunks[i]]
      BY <1>3, <1>5, ElementOfSeq
    <3>3. [chunks EXCEPT ![n] = chunks[n]] = chunks
      BY <3>2
    <3>. QED  BY <3>1, <3>2, <3>3
  <2>5. PICK c : c = Chunk(ch', e)
    OBVIOUS
  <2>6. /\ FlushedNext = [chunks EXCEPT ![n] = c] /\ Len(chunks') = n /\ ch'.type = t
        /\ c \in ChunkRecord /\ c.type = t /\ c.blocks = q + 1 /\ c.size = z /\ c.data = e
    <3>1. e \in Seq(Values) /\ z \in Nat /\ chunks[n].data = e
      BY <1>6
    <3>2. ch'.type = t /\ ch'.blocks = q + 1 /\ ch'.size = z /\ q + 1 \in Nat
      BY <2>3
    <3>3. pos' = n /\ chunks' = chunks /\ chunks'[pos'].data = e
      BY <1>2, <1>4, <1>16, <3>1
    <3>4. /\ FlushedNext = [chunks' EXCEPT ![pos'] = c] /\ c \in ChunkRecord
          /\ c.type = t /\ c.blocks = q + 1 /\ c.size = z /\ c.data = e
      BY <2>5, <3>1, <3>2, <3>3, LastFlushed
    <3>. QED  BY <1>4, <3>2, <3>3, <3>4
  <2>7. FILL # RAW /\ FILL # DONTCARE /\ FILL # CRC32
    BY DEF FILL, RAW, DONTCARE, CRC32
  <2>8. Len(e) = 1 /\ e[1] = v
    BY <2>1, <2>2
  <2>9. ChunkGood(c)
    <3>1. TrueSize(c) = k + 1 /\ TrueSize(old) = k + 1
      BY <1>4, <1>11, <2>1, <2>6 DEF TrueSize
    <3>2. z = k + 1
      BY <1>4, <1>11, <1>12, <3>1 DEF ChunkGood
    <3>. QED  BY <1>4, <2>1, <2>6, <2>7, <2>8, <3>1, <3>2 DEF ChunkGood
  <2>10. ChunkContent(c) = ChunkContent(old) \o data
    <3>1. ChunkContent(c) = Repeated(e[1], (q + 1) * blockSize) /\ ChunkContent(old) = Repeated(e[1], q * blockSize)
      BY <1>3, <1>11, <1>12, <2>1, <2>6, <2>9, ContentOf
    <3>2. PICK w \in Nat : w = q * b /\ (q + 1) * b = w + b
      <4>1. q * b \in Nat /\ (q + 1) * b = q * b + b
        OBVIOUS
      <4>. QED  BY <4>1
    <3>3. data = Repeated(v, b)
      BY <1>3, <1>4, <1>16, <2>2, FillBlock
    <3>4. Repeated(v, w) \o Repeated(v, b) = Repeated(v, w + b)
      BY RepeatedMore
    <3>. QED  BY <1>4, <2>8, <3>1, <3>2, <3>3, <3>4
  <2>11. GoodChunks(FlushedNext) /\ DecodedOf(FlushedNext) = crc \o data
    BY <1>13, <2>1, <2>6, <2>7, <2>9, <2>10
  <2>12. ch'.type # "none" /\ ch'.type # RAW
    BY <1>8, <2>1, <2>6, <2>7
  <2>. QED  BY <1>2, <1>4, <1>14, <2>6, <2>11, <2>12 DEF BlockReads
<1>17. ASSUME ~IsFill(data) PROVE BlockReads(data)
  <2>1. t = RAW
    BY <1>1, <1>7, <1>17 DEF Continues
  <2>2. PICK a \in Nat : a = (z + b) % m
    BY <1>4
  <2>3. ch' = [type |-> t, blocks |-> q + 1, size |-> a]
    <3>1. ch' = [ch EXCEPT !.blocks = ch.blocks + 1, !.size = (ch.size + blockSize) % SizeMod]
      BY <1>2, <1>17, Zenon
    <3>2. ch.blocks = q /\ ch.size = z
      BY <1>7
    <3>3. ch' = [ch EXCEPT !.blocks = q + 1, !.size = (z + b) % m]
      BY <1>4, <3>1, <3>2
    <3>4. ch' = [ch EXCEPT !.blocks = q + 1, !.size = a]
      BY <2>2, <3>3
    <3>. QED  BY <1>7, <3>4
  <2>4. PICK d \in Seq(Values) : d = e \o data /\ Len(d) = Len(e) + b
    <3>1. e \o data \in Seq(Values) /\ Len(e \o data) = Len(e) + b
      <4>1. e \in Seq(Values) /\ data \in Seq(Values) /\ Len(data) = b
        BY <1>3, <1>4
      <4>. QED  BY <4>1, ConcatProperties
    <3>. QED  BY <3>1
  <2>5. PICK y : y = [chunks[n] EXCEPT !.data = d]
    OBVIOUS
  <2>6. y \in ChunkRecord /\ y.data = d
    <3>1. chunks[n] \in ChunkRecord
      BY <1>3, <1>5, ElementOfSeq
    <3>. QED  BY <2>5, <3>1 DEF ChunkRecord
  <2>7. chunks' = [chunks EXCEPT ![n] = y]
    <3>1. chunks' = [chunks EXCEPT ![pos] = [chunks[pos] EXCEPT !.data = chunks[pos].data \o data]]
      BY <1>2, <1>17, Zenon DEF Payload
    <3>. QED  BY <1>4, <1>6, <2>4, <2>5, <3>1
  <2>8. PICK c : c = Chunk(ch', d)
    OBVIOUS
  <2>9. /\ FlushedNext = [chunks EXCEPT ![n] = c] /\ Len(chunks') = n /\ chunks'[n] = y /\ ch'.type = t
        /\ c \in ChunkRecord /\ c.type = t /\ c.blocks = q + 1 /\ c.size = a /\ c.data = d
    <3>1. ch'.type = t /\ ch'.blocks = q + 1 /\ ch'.size = a /\ q + 1 \in Nat
      BY <2>3
    <3>2. pos' = n /\ chunks'[n] = y /\ Len(chunks') = n
      <4>1. pos' = n
        BY <1>2, <1>4
      <4>2. n \in Nat /\ n \in DOMAIN chunks /\ DOMAIN chunks = 1 .. n /\ Len(chunks) = n
        BY <1>3, <1>4, <1>5
      <4>3. chunks' = [i \in 1 .. n |-> IF i = n THEN y ELSE chunks[i]]
        BY <2>7, <4>2
      <4>4. n \in 1 .. n
        BY <4>2
      <4>5. chunks'[n] = y
        BY <4>3, <4>4
      <4>6. Len(chunks') = n
        BY <4>2, <4>3
      <4>. QED  BY <4>1, <4>5, <4>6
    <3>3. chunks'[pos'].data = d
      BY <2>6, <3>2
    <3>4. /\ FlushedNext = [chunks' EXCEPT ![pos'] = c] /\ c \in ChunkRecord
          /\ c.type = t /\ c.blocks = q + 1 /\ c.size = a /\ c.data = d
      BY <2>8, <3>1, <3>3, LastFlushed
    <3>5. [chunks' EXCEPT ![n] = c] = [chunks EXCEPT ![n] = c]
      BY <2>7
    <3>. QED  BY <3>1, <3>2, <3>4, <3>5
  <2>10. PICK l \in Nat : l = Len(e)
    OBVIOUS
  <2>11. FILL # RAW /\ RAW # DONTCARE /\ RAW # CRC32
    BY DEF FILL, RAW, DONTCARE, CRC32
  <2>12. ChunkGood(c)
    <3>1. TrueSize(c) = k + l + b /\ TrueSize(old) = k + l
      <4>1. TrueSize(c) = k + Len(d) /\ TrueSize(old) = k + Len(e)
        BY <1>4, <1>11, <2>1, <2>9, <2>11 DEF TrueSize
      <4>. QED  BY <2>4, <2>10, <4>1
    <3>2. k + l + b < m => a = k + l + b
      <4>1. k + l < m => z = k + l
        BY <1>4, <1>11, <1>12, <3>1 DEF ChunkGood
      <4>2. k + l + b < m => (k + l + b) % m = k + l + b
        BY <1>4
      <4>. QED  BY <2>2, <4>1, <4>2
    <3>3. k + l + b >= m => Outgrown
      BY <1>4, <1>6, <1>7, <2>1, <2>10
    <3>4. Len(c.data) = c.blocks * blockSize
      <4>1. l = q * b
        BY <1>4, <1>11, <1>12, <2>1, <2>10 DEF ChunkGood
      <4>2. (q + 1) * b = l + b
        BY <4>1
      <4>. QED  BY <1>4, <2>4, <2>9, <2>10, <4>2
    <3>. QED  BY <1>4, <2>1, <2>9, <2>11, <3>1, <3>2, <3>3, <3>4 DEF ChunkGood
  <2>13. ChunkContent(c) = ChunkContent(old) \o data
    BY <1>3, <1>11, <1>12, <2>1, <2>4, <2>9, <2>12, ContentOf
  <2>14. GoodChunks(FlushedNext) /\ DecodedOf(FlushedNext) = crc \o data
    BY <1>13, <2>1, <2>9, <2>11, <2>12, <2>13
  <2>15. Len(chunks'[pos'].data) = blockSize + IF Continues(data) THEN Len(chunks[pos].data) ELSE 0
    <3>1. Len(chunks'[pos'].data) = Len(d) /\ Continues(data) /\ Len(chunks[pos].data) = l
      BY <1>1, <1>2, <1>4, <1>6, <2>6, <2>9, <2>10
    <3>2. Len(d) = b + l
      BY <2>4, <2>10
    <3>. QED  BY <1>4, <3>1, <3>2
  <2>. QED  BY <1>2, <1>4, <1>8, <1>14, <2>9, <2>14, <2>15 DEF BlockReads
<1>. QED  BY <1>1, <1>16, <1>17


-----------------------------------------------------------------------------
(***************************************************************************)
(* The sparse image as it is written.                                      *)
(***************************************************************************)
\* How many extents have been aligned and merged.
Handled == IF spc = "merge" THEN ei - 1 ELSE Len(exts)

\* The file as it will be once the header of its last chunk is flushed.
AsRead == IF spc = "block" THEN Flushed(chunks) ELSE chunks

\* Nothing is written before the extents are merged.
FreshInv ==
  spc \in {"setup", "refused", "open", "merge"} =>
    /\ chunks = << >> /\ crc = << >> /\ block = 0
    /\ spc # "merge" => ei = 1
    /\ spc = "merge" =>
         ei <= Len(exts) + 1 /\ header.chunks = 0 /\ header.blocks * blockSize = RoundUp(StSize(Input))

\* The extents handled are aligned, apart, and hold all of what is not a hole.
MergedInv == spc \in {"merge", "extent", "block", "ok"} => Merged(Input, exts, Handled)

\* The chunks are what the checksum is of, and that is the input so far.
ReadsInput(n) ==
  /\ \A i \in 1 .. Len(crc) : crc[i] = Unit(Input, i - 1)
  /\ Len(crc) <= RoundUp(StSize(Input))
  /\ \A k \in 1 .. Len(exts) : k < n /\ Length(exts[k]) > 0 => exts[k].end <= Len(crc)

WrittenInv ==
  spc \in {"extent", "block", "ok"} =>
    /\ GoodChunks(AsRead) /\ DecodedOf(AsRead) = crc
    /\ header.chunks = Len(chunks) /\ header.blocks * blockSize = RoundUp(StSize(Input))
    /\ ReadsInput(ei)

\* Between two extents the chunks end where the last one did, before any that is left.
ExtentInv ==
  spc = "extent" =>
    \A k \in 1 .. Len(exts) : k >= ei /\ Length(exts[k]) > 0 =>
      block * blockSize = Len(crc) /\ Len(crc) <= exts[k].start

\* In an extent what is left of it is read next, into the chunk begun in it.
BlockInv ==
  spc = "block" =>
    /\ Length(exts[ei]) > 0 /\ Whole(Len(crc)) /\ exts[ei].start <= Len(crc)
    /\ IF left > 0 THEN Len(crc) + left = exts[ei].end
       ELSE exts[ei].end <= Len(crc) /\ Len(crc) < exts[ei].end + blockSize
    /\ pos = IF ch.type = "none" THEN Len(chunks) + 1 ELSE Len(chunks)
    /\ pos > 0
    /\ ch.type = RAW => Len(chunks[pos].data) <= Len(crc) - exts[ei].start

DecodeInv ==
  /\ FreshInv /\ MergedInv /\ WrittenInv /\ ExtentInv /\ BlockInv
  /\ spc = "ok" => ei > Len(exts)

\* The parts of it that do not name where the handler is, while the extents and the input stay as they are.
LEMMA SameInput ==
  ASSUME blockSize' = blockSize, exts' = exts, Input' = Input
  PROVE  /\ \A cs : cs = AsRead' => (GoodChunks(cs) <=> GoodChunks(AsRead)') /\ DecodedOf(cs) = DecodedOf(AsRead)'
         /\ \A n : Merged(Input, exts, n) = Merged(Input, exts, n)'
         /\ \A n : RoundUp(n)' = RoundUp(n) /\ (Whole(n)' <=> Whole(n))
         /\ \A k : Length(exts[k])' = Length(exts[k])
<1>1. \A n : RoundUp(n)' = RoundUp(n) /\ (Whole(n)' <=> Whole(n))
  BY DEF RoundUp, Whole
<1>2. \A k : Length(exts[k])' = Length(exts[k])
  BY DEF Length
<1>3. \A c : ChunkContent(c)' = ChunkContent(c) /\ (ChunkGood(c)' <=> ChunkGood(c))
  BY DEF ChunkContent, ChunkGood, TrueSize, Outgrown
<1>4. ASSUME NEW cs, cs = AsRead'
      PROVE  (GoodChunks(cs) <=> GoodChunks(AsRead)') /\ DecodedOf(cs) = DecodedOf(AsRead)'
  <2>1. DecodedOf(cs) = DecodedOf(AsRead)'
    BY <1>3, <1>4 DEF DecodedOf
  <2>2. \A i : Before(cs, i) = Before(AsRead, i)'
    BY <1>3, <1>4 DEF Before
  <2>3. \A n, m : HolesAt(n, m)' <=> HolesAt(n, m)
    BY DEF HolesAt
  <2>. QED  BY <1>3, <1>4, <2>1, <2>2, <2>3 DEF GoodChunks
<1>5. \A n : Merged(Input, exts, n) = Merged(Input, exts, n)'
  BY <1>1 DEF Merged, TooLong, Length
<1>. QED  BY <1>1, <1>2, <1>4, <1>5

LEMMA StoppedDecodes ==
  ASSUME spc' \in {"refused", "crash", "failed"}, spc' = "refused" => FreshInv'
  PROVE  DecodeInv'
BY DEF DecodeInv, FreshInv, MergedInv, WrittenInv, ExtentInv, BlockInv

\* The extents of the input are read, as they are reported.
LEMMA OpenDecodes ==
  ASSUME IsFile(Input), SparseInv, DecodeInv, SparseOpen(Input), Input' = Input
  PROVE  DecodeInv'
<1>1. UNCHANGED <<blockSize, ei, left, block, chunks, ch, pos, crc>> /\ spc = "open"
  BY DEF SparseOpen
<1>2. PICK n \in Nat : n = StSize(Input)
  BY StSizeOf
<1>3. chunks = << >> /\ crc = << >> /\ block = 0 /\ ei = 1
  BY <1>1 DEF DecodeInv, FreshInv
<1>4. CASE spc' \in {"crash", "failed"}
  BY <1>4, StoppedDecodes
<1>5. CASE /\ blockSize # 0 /\ exts' = MapFileExtents(Input, n) /\ spc' = "merge"
           /\ header' = [blocks |-> RoundUp(n) \div blockSize, chunks |-> 0]
  <2>1. blockSize \in Nat /\ blockSize > 0
    BY <1>5 DEF SparseInv
  <2>2. header'.chunks = 0 /\ header'.blocks * blockSize = RoundUp(n)
    BY <1>5, <2>1, RoundUpOf
  <2>3. PICK x : x = MapFileExtents(Input, n)
    OBVIOUS
  <2>4. Merged(Input, x, 0)
    BY <1>2, <2>1, <2>3, ReportedMerged
  <2>5. Merged(Input, exts, 0)'
    BY <1>1, <1>5, <2>3, <2>4 DEF Merged, Whole, RoundUp, TooLong, Length
  <2>6. Handled' = 0
    BY <1>1, <1>3, <1>5 DEF Handled
  <2>7. MergedInv'
    BY <2>5, <2>6 DEF MergedInv
  <2>8. exts' \in Seq(ExtentRecord)
    <3>1. InOrder(x, n)
      BY <1>2, <2>3, ExtentsInOrder
    <3>. QED  BY <1>5, <2>3, <3>1 DEF InOrder, ExtentRecord
  <2>9. Len(exts') \in Nat /\ 1 <= Len(exts') + 1
    <3>1. Len(exts') \in Nat
      BY <2>8
    <3>. QED  BY <3>1
  <2>10. RoundUp(StSize(Input))' = RoundUp(n)
    BY <1>1, <1>2 DEF RoundUp
  <2>11. FreshInv'
    BY <1>1, <1>3, <1>5, <2>2, <2>9, <2>10 DEF FreshInv
  <2>. QED  BY <1>5, <2>7, <2>11 DEF DecodeInv, WrittenInv, ExtentInv, BlockInv
<1>. QED  BY <1>2, <1>4, <1>5 DEF SparseOpen

\* An extent is merged.
LEMMA MergeDecodes ==
  ASSUME IsFile(Input), SparseInv, DecodeInv, SparseMerge(Input), Input' = Input
  PROVE  DecodeInv'
<1>1. /\ spc = "merge" /\ ei <= Len(exts) /\ exts' = MergedExtents(StSize(Input))
      /\ (spc' = "failed" /\ ei' = ei) \/ (ei' = ei + 1 /\ spc' = spc)
      /\ UNCHANGED <<blockSize, left, block, chunks, ch, pos, header, crc>>
  BY DEF SparseMerge
<1>2. CASE spc' = "failed"
  BY <1>2, StoppedDecodes
<1>3. CASE ei' = ei + 1 /\ spc' = "merge"
  <2>1. PICK e, x : e \in Nat /\ e = ei /\ x = exts'
    BY DEF SparseInv
  <2>2. Merged(Input, exts, ei - 1)
    BY <1>1 DEF DecodeInv, MergedInv, Handled
  <2>3. Merged(Input, x, e)
    BY <1>3, <2>1, <2>2, MergedStep
  <2>4. Merged(Input, exts, e)'
    BY <1>1, <2>1, <2>3 DEF Merged, Whole, RoundUp, TooLong, Length
  <2>5. Handled' = e
    BY <1>3, <2>1 DEF Handled
  <2>6. MergedInv'
    BY <2>4, <2>5 DEF MergedInv
  <2>7. Len(exts') = Len(exts) /\ Len(exts) \in Nat
    <3>1. PICK i \in 1 .. Len(exts), s \in Nat, t \in Nat : AlignsTo(i, s, t)
      BY MergeFields
    <3>2. Len(exts) \in Nat
      BY DEF SparseInv
    <3>. QED  BY <3>1, <3>2 DEF AlignsTo
  <2>8. ei' <= Len(exts') + 1
    BY <1>1, <1>3, <2>1, <2>7
  <2>9. RoundUp(StSize(Input))' = RoundUp(StSize(Input))
    BY <1>1 DEF RoundUp
  <2>10. FreshInv'
    BY <1>1, <1>3, <2>8, <2>9 DEF DecodeInv, FreshInv
  <2>. QED  BY <1>3, <2>6, <2>10 DEF DecodeInv, WrittenInv, ExtentInv, BlockInv
<1>. QED  BY <1>1, <1>2, <1>3

\* The output is created, with nothing read yet.
LEMMA CreateDecodes ==
  ASSUME IsFile(Input), SparseInv, DecodeInv, SparseCreate, Input' = Input
  PROVE  DecodeInv'
<1>1. /\ spc = "merge" /\ ei > Len(exts) /\ ei' = 1 /\ spc' = "extent" /\ chunks' = << >>
      /\ UNCHANGED <<blockSize, exts, left, block, ch, pos, header, crc>>
  BY DEF SparseCreate
<1>2. /\ blockSize \in Nat /\ blockSize > 0 /\ exts \in Seq(ExtentRecord) /\ ei \in Nat
  BY <1>1 DEF SparseInv, ExtentRecord
<1>3. /\ chunks = << >> /\ crc = << >> /\ block = 0 /\ ei <= Len(exts) + 1 /\ header.chunks = 0
      /\ header.blocks * blockSize = RoundUp(StSize(Input))
  BY <1>1 DEF DecodeInv, FreshInv
<1>4. PICK n \in Nat : n = Len(exts) /\ ei = n + 1
  <2>1. Len(exts) \in Nat
    BY <1>2
  <2>. QED  BY <1>1, <1>2, <1>3, <2>1
<1>5. Merged(Input, exts, n)
  <2>1. Handled = n
    BY <1>1, <1>4 DEF Handled
  <2>. QED  BY <1>1, <2>1 DEF DecodeInv, MergedInv
<1>6. MergedInv'
  <2>1. Handled' = n
    BY <1>1, <1>4 DEF Handled
  <2>2. Merged(Input, exts, n)'
    BY <1>1, <1>5, SameInput
  <2>. QED  BY <2>1, <2>2 DEF MergedInv
<1>7. GoodChunks(AsRead)' /\ DecodedOf(AsRead)' = << >>
  <2>1. AsRead' = << >>
    BY <1>1 DEF AsRead
  <2>2. PICK cs : cs = << >>
    OBVIOUS
  <2>3. GoodChunks(cs)
    BY <2>2 DEF GoodChunks
  <2>4. DecodedOf(cs) = << >>
    <3>1. [i \in DOMAIN cs |-> ChunkContent(cs[i])] = << >>
      BY <2>2
    <3>. QED  BY <3>1 DEF DecodedOf, FlattenSeq
  <2>. QED  BY <1>1, <2>1, <2>2, <2>3, <2>4, SameInput
<1>8. PICK size \in Nat, r \in Nat : size = StSize(Input) /\ r = RoundUp(size) /\ r = RoundUp(StSize(Input))'
  <2>1. PICK size \in Nat : size = StSize(Input)
    BY StSizeOf
  <2>2. RoundUp(size) \in Nat /\ RoundUp(StSize(Input))' = RoundUp(size)
    BY <1>1, <1>2, <2>1, RoundUpOf, SameInput
  <2>. QED  BY <2>1, <2>2
<1>9. ReadsInput(ei)'
  <2>1. Len(crc') = 0 /\ crc' = << >>
    BY <1>1, <1>3
  <2>2. ~ \E k \in 1 .. Len(exts') : k < ei'
    BY <1>1, <1>4
  <2>. QED  BY <1>8, <2>1, <2>2 DEF ReadsInput
<1>10. WrittenInv'
  <2>1. header'.blocks * blockSize' = RoundUp(StSize(Input))' /\ header'.chunks = Len(chunks') /\ crc' = << >>
    BY <1>1, <1>3, <1>8
  <2>. QED  BY <1>7, <1>9, <2>1 DEF WrittenInv
<1>11. ExtentInv'
  <2>1. \A k \in 1 .. n : exts[k].start \in Nat
    BY <1>2, <1>4, ElementOfSeq, ExtentFields
  <2>2. block' * blockSize' = 0 /\ Len(crc') = 0
    BY <1>1, <1>2, <1>3
  <2>. QED  BY <1>1, <1>4, <2>1, <2>2 DEF ExtentInv
<1>. QED  BY <1>1, <1>6, <1>10, <1>11 DEF DecodeInv, FreshInv, BlockInv


\* What has to be shown of a step once the extents are merged.
LEMMA WrittenNext ==
  ASSUME blockSize' = blockSize, exts' = exts, Input' = Input, spc \in {"extent", "block", "ok"},
         spc' \in {"extent", "block", "ok"}, MergedInv, NEW cs, cs = AsRead', GoodChunks(cs), DecodedOf(cs) = crc',
         header'.chunks = Len(chunks'), header'.blocks * blockSize = RoundUp(StSize(Input)),
         \A i \in 1 .. Len(crc') : crc'[i] = Unit(Input, i - 1), Len(crc') <= RoundUp(StSize(Input)),
         \A k \in 1 .. Len(exts) : k < ei' /\ Length(exts[k]) > 0 => exts[k].end <= Len(crc'),
         ExtentInv', BlockInv', spc' = "ok" => ei' > Len(exts)
  PROVE  DecodeInv'
<1>1. Handled = Len(exts) /\ Handled' = Len(exts)
  BY DEF Handled
<1>2. Merged(Input, exts, Len(exts))
  BY <1>1 DEF MergedInv
<1>3. PICK n : n = Len(exts)
  OBVIOUS
<1>4. Merged(Input, exts, n)'
  BY <1>2, <1>3, SameInput
<1>5. MergedInv'
  BY <1>1, <1>3, <1>4 DEF MergedInv
<1>6. GoodChunks(AsRead)' /\ DecodedOf(AsRead)' = crc'
  BY SameInput
<1>7. RoundUp(StSize(Input))' = RoundUp(StSize(Input)) /\ \A k : Length(exts[k])' = Length(exts[k])
  BY SameInput DEF RoundUp
<1>8. ReadsInput(ei)'
  BY <1>7 DEF ReadsInput
<1>9. WrittenInv'
  BY <1>6, <1>7, <1>8 DEF WrittenInv
<1>. QED  BY <1>5, <1>9 DEF DecodeInv, FreshInv

\* What is known once the extents are merged.
LEMMA WrittenNow ==
  ASSUME DecodeInv, spc \in {"extent", "block", "ok"}
  PROVE  /\ MergedInv /\ Merged(Input, exts, Len(exts)) /\ GoodChunks(AsRead) /\ DecodedOf(AsRead) = crc
         /\ header.chunks = Len(chunks) /\ header.blocks * blockSize = RoundUp(StSize(Input))
         /\ \A i \in 1 .. Len(crc) : crc[i] = Unit(Input, i - 1)
         /\ Len(crc) <= RoundUp(StSize(Input))
         /\ \A k \in 1 .. Len(exts) : k < ei /\ Length(exts[k]) > 0 => exts[k].end <= Len(crc)
BY DEF DecodeInv, MergedInv, Handled, WrittenInv, ReadsInput

\* The extents, and what has been read, in numbers.
LEMMA ExtentNumbers ==
  ASSUME SparseInv, IsFile(Input), spc \in {"extent", "block"}
  PROVE  /\ blockSize \in Nat /\ blockSize > 0 /\ ei \in Nat \ {0} /\ left \in Nat /\ block \in Nat /\ pos \in Nat
         /\ exts \in Seq(ExtentRecord) /\ Len(exts) \in Nat /\ crc \in Seq(Values) /\ Len(crc) \in Nat
         /\ chunks \in Seq(ChunkRecord) /\ Len(chunks) \in Nat /\ header \in [blocks : Nat, chunks : Nat]
         /\ ch \in [type : {"none", RAW, FILL}, blocks : Nat, size : Nat]
         /\ StSize(Input) \in Nat /\ RoundUp(StSize(Input)) \in Nat /\ StSize(Input) <= RoundUp(StSize(Input))
         /\ Whole(RoundUp(StSize(Input)))
         /\ \A i \in 1 .. Len(exts) : /\ exts[i].start \in Nat /\ exts[i].end \in Nat
                                      /\ exts[i].start <= exts[i].end /\ exts[i].end <= StSize(Input)
<1>1. /\ blockSize \in Nat /\ blockSize > 0 /\ ei \in Nat \ {0} /\ left \in Nat /\ block \in Nat /\ pos \in Nat
      /\ exts \in Seq(ExtentRecord) /\ crc \in Seq(Values)
      /\ chunks \in Seq(ChunkRecord) /\ header \in [blocks : Nat, chunks : Nat]
      /\ ch \in [type : {"none", RAW, FILL}, blocks : Nat, size : Nat]
      /\ \A i \in 1 .. Len(exts) : exts[i].start <= exts[i].end /\ exts[i].end <= StSize(Input)
  BY DEF SparseInv, ExtentRecord
<1>2. Len(exts) \in Nat /\ Len(crc) \in Nat /\ Len(chunks) \in Nat
  BY <1>1
<1>3. \A i \in 1 .. Len(exts) : exts[i].start \in Nat /\ exts[i].end \in Nat
  BY <1>1, ElementOfSeq, ExtentFields
<1>4. PICK n \in Nat : n = StSize(Input)
  BY StSizeOf
<1>5. RoundUp(n) \in Nat /\ n <= RoundUp(n) /\ Whole(RoundUp(n))
  BY <1>1, RoundUpOf
<1>. QED  BY <1>1, <1>2, <1>3, <1>4, <1>5

LEMMA SkipDecodes ==
  ASSUME IsFile(Input), SparseInv, DecodeInv, SkipExtent, Input' = Input
  PROVE  DecodeInv'
<1>1. /\ spc = "extent" /\ ei <= Len(exts) /\ Length(exts[ei]) = 0 /\ ei' = ei + 1
      /\ UNCHANGED <<blockSize, spc, exts, left, block, chunks, ch, pos, header, crc>>
  BY DEF SkipExtent
<1>2. PICK e \in Nat, n \in Nat : e = ei /\ n = Len(exts) /\ ei' = e + 1 /\ e >= 1 /\ e <= n
  BY <1>1, ExtentNumbers
<1>3. PICK cs : cs = AsRead
  OBVIOUS
<1>4. AsRead' = cs
  BY <1>1, <1>3 DEF AsRead
<1>5. \A k \in 1 .. Len(exts) : k < ei' /\ Length(exts[k]) > 0 => exts[k].end <= Len(crc')
  <2> SUFFICES ASSUME NEW k \in 1 .. n, k < e + 1, Length(exts[k]) > 0 PROVE exts[k].end <= Len(crc)
    BY <1>1, <1>2
  <2>1. k # e
    BY <1>1, <1>2
  <2>. QED  BY <1>1, <1>2, <2>1, WrittenNow
<1>6. ExtentInv'
  <2>1. \A k \in 1 .. n : k >= e /\ Length(exts[k]) > 0 => block * blockSize = Len(crc) /\ Len(crc) <= exts[k].start
    BY <1>1, <1>2 DEF DecodeInv, ExtentInv
  <2>2. \A k \in 1 .. n : k >= e + 1 => k >= e
    BY <1>2
  <2>3. \A k : Length(exts[k])' = Length(exts[k])
    BY <1>1 DEF Length
  <2>. QED  BY <1>1, <1>2, <2>1, <2>2, <2>3 DEF ExtentInv
<1>7. BlockInv'
  BY <1>1 DEF BlockInv
<1>8. spc' = "extent"
  BY <1>1
<1>. QED  BY <1>1, <1>3, <1>4, <1>5, <1>6, <1>7, <1>8, WrittenNow, WrittenNext

\* The checksum is added behind them.
LEMMA FinishDecodes ==
  ASSUME IsFile(Input), SparseInv, DecodeInv, SparseFinish, Input' = Input
  PROVE  DecodeInv'
<1>1. PICK h : h = [type |-> CRC32, blocks |-> 0, size |-> ChunkHeader + 1]
  OBVIOUS
<1>2. /\ spc = "extent" /\ spc' = "ok" /\ header' = Added(1) /\ ei > Len(exts)
      /\ chunks' = Append(chunks, Chunk(h, << >>))
      /\ UNCHANGED <<blockSize, exts, ei, left, block, ch, pos, crc>>
  BY <1>1 DEF SparseFinish
<1>3. PICK k \in Nat, m \in Nat : k = ChunkHeader /\ m = SizeMod /\ k + 1 < m
  BY SparseAssumption, HeaderAssumption
<1>4. PICK c : c = Chunk(h, << >>)
  OBVIOUS
<1>5. h.type = CRC32 /\ h.blocks = 0 /\ h.size = k + 1
  BY <1>1, <1>3
<1>6. c \in ChunkRecord /\ c.type = CRC32 /\ c.blocks = 0 /\ c.size = k + 1 /\ c.data = << >>
  <2>1. << >> \in Seq(Values)
    OBVIOUS
  <2>2. h.blocks \in Nat /\ h.size \in Nat
    BY <1>5
  <2>. QED  BY <1>4, <1>5, <2>1, <2>2, MakeChunk, ChunkFields
<1>7. CRC32 # RAW /\ CRC32 # FILL /\ CRC32 # DONTCARE
  BY DEF RAW, FILL, DONTCARE, CRC32
<1>8. ChunkGood(c)
  <2>1. TrueSize(c) = k + 1
    BY <1>3, <1>6 DEF TrueSize
  <2>. QED  BY <1>3, <1>6, <1>7, <2>1 DEF ChunkGood
<1>9. chunks \in Seq(ChunkRecord) /\ blockSize \in Nat /\ crc \in Seq(Values)
  BY <1>2, ExtentNumbers
<1>10. GoodChunks(chunks) /\ DecodedOf(chunks) = crc
  BY <1>2, WrittenNow DEF AsRead
<1>11. PICK cs : cs = Append(chunks, c)
  OBVIOUS
<1>12. ChunkContent(c) = << >>
  BY <1>6, <1>8, <1>9, ContentOf
<1>13. GoodChunks(cs) /\ DecodedOf(cs) = crc
  <2>1. GoodChunks(cs) /\ DecodedOf(cs) = crc \o << >>
    BY <1>6, <1>7, <1>8, <1>9, <1>10, <1>11, <1>12, AddChunk
  <2>2. crc \o << >> = crc
    BY <1>9, ConcatEmptySeq
  <2>. QED  BY <2>1, <2>2
<1>14. cs = AsRead' /\ cs = chunks'
  BY <1>2, <1>4, <1>11 DEF AsRead
<1>15. header'.chunks = Len(chunks') /\ header'.blocks = header.blocks
  <2>1. header'.chunks = header.chunks + 1 /\ header'.blocks = header.blocks
    BY <1>2, ExtentNumbers, CountChunks
  <2>2. header.chunks = Len(chunks)
    BY <1>2, WrittenNow
  <2>3. Len(chunks') = Len(chunks) + 1
    <3>1. \A s \in Seq(ChunkRecord), x \in ChunkRecord : Len(Append(s, x)) = Len(s) + 1
      OBVIOUS
    <3>. QED  BY <1>6, <1>9, <1>11, <1>14, <3>1
  <2>. QED  BY <2>1, <2>2, <2>3
<1>16. ExtentInv' /\ BlockInv'
  BY <1>2 DEF ExtentInv, BlockInv
<1>. QED  BY <1>2, <1>13, <1>14, <1>15, <1>16, WrittenNow, WrittenNext

\* The last header is flushed, and the extent is behind.
LEMMA EndDecodes ==
  ASSUME IsFile(Input), SparseInv, DecodeInv, SparseExtentEnd, Input' = Input
  PROVE  DecodeInv'
<1>1. /\ spc = "block" /\ left = 0 /\ chunks' = Flushed(chunks) /\ block' = exts[ei].end \div blockSize
      /\ ei' = ei + 1 /\ spc' = "extent" /\ UNCHANGED <<blockSize, exts, left, ch, pos, header, crc>>
  BY DEF SparseExtentEnd
<1>2. ei <= Len(exts)
  BY <1>1 DEF SparseInv
<1>3. PICK e \in Nat, n \in Nat, b \in Nat, m \in Nat :
        e = ei /\ n = Len(exts) /\ b = blockSize /\ b > 0 /\ m = Len(crc) /\ ei' = e + 1 /\ e >= 1 /\ e <= n
  <2>1. ei \in Nat \ {0} /\ Len(exts) \in Nat /\ blockSize \in Nat /\ blockSize > 0 /\ Len(crc) \in Nat
    BY <1>1, ExtentNumbers
  <2>2. ei >= 1
    BY <2>1
  <2>. QED  BY <1>1, <1>2, <2>1, <2>2
<1>4. PICK s \in Nat, t \in Nat, size \in Nat :
        s = exts[e].start /\ t = exts[e].end /\ size = StSize(Input) /\ s <= t /\ t <= size
  <2>1. e \in 1 .. Len(exts)
    BY <1>3
  <2>2. /\ exts[e].start \in Nat /\ exts[e].end \in Nat /\ StSize(Input) \in Nat
        /\ exts[e].start <= exts[e].end /\ exts[e].end <= StSize(Input)
    BY <1>1, <2>1, ExtentNumbers
  <2>. QED  BY <2>2
<1>5. t > s /\ Whole(m) /\ t <= m /\ m < t + b
  BY <1>1, <1>3, <1>4 DEF DecodeInv, BlockInv, Length
<1>6. PICK cs : cs = AsRead
  OBVIOUS
<1>7. AsRead' = cs /\ chunks' = cs
  BY <1>1, <1>6 DEF AsRead
<1>8. Len(chunks') = Len(chunks)
  <2>1. /\ chunks \in Seq(ChunkRecord) /\ ch \in [type : {"none", RAW, FILL}, blocks : Nat, size : Nat] /\ pos \in Nat
    BY <1>1, ExtentNumbers
  <2>. QED  BY <1>1, <2>1, FlushedChunks
<1>9. \A k \in 1 .. Len(exts) : k < ei' /\ Length(exts[k]) > 0 => exts[k].end <= Len(crc')
  <2> SUFFICES ASSUME NEW k \in 1 .. n, k < e + 1, Length(exts[k]) > 0 PROVE exts[k].end <= Len(crc)
    BY <1>1, <1>3
  <2>1. CASE k = e
    BY <1>3, <1>4, <1>5, <2>1
  <2>2. CASE k # e
    <3>1. k < e
      BY <1>3, <2>2
    <3>. QED  BY <1>1, <1>3, <3>1, WrittenNow
  <2>. QED  BY <2>1, <2>2
<1>10. ASSUME NEW k \in 1 .. n, k >= e + 1, Length(exts[k]) > 0
       PROVE  block' * blockSize = m /\ m <= exts[k].start
  <2>1. PICK c \in Nat, d \in Nat : c = exts[k].start /\ d = exts[k].end /\ c < d /\ d <= size
    <3>1. exts[k].start \in Nat /\ exts[k].end \in Nat /\ exts[k].end <= StSize(Input)
      BY <1>1, <1>3, ExtentNumbers
    <3>. QED  BY <1>4, <1>10, <3>1 DEF Length
  <2>2. /\ \A i, j \in 1 .. n : i < j /\ exts[i].end # 0 /\ exts[j].end # 0 => exts[i].end < exts[j].start
        /\ \A i \in 1 .. n : exts[i].end # 0 => Whole(exts[i].end) \/ exts[i].end = size
    BY <1>1, <1>3, <1>4, WrittenNow DEF Merged
  <2>3. t < c
    <3>1. e \in 1 .. n /\ e < k /\ exts[e].end # 0 /\ exts[k].end # 0
      BY <1>3, <1>4, <1>5, <1>10, <2>1
    <3>. QED  BY <1>4, <2>1, <2>2, <3>1
  <2>4. Whole(t)
    <3>1. t # size /\ t # 0 /\ e \in 1 .. n
      BY <1>3, <1>5, <2>1, <2>3
    <3>. QED  BY <1>4, <2>2, <3>1
  <2>5. m = t
    <3>1. m < t + blockSize /\ blockSize \in Nat
      BY <1>3, <1>5
    <3>2. m <= t
      BY <1>5, <2>4, <3>1, WholeApart
    <3>. QED  BY <1>5, <3>2
  <2>6. (t \div b) * b = t
    <3>1. PICK q \in Nat : t = q * b
      BY <1>3, <2>4 DEF Whole
    <3>2. (q * b) \div b = q
      BY <1>3
    <3>. QED  BY <3>1, <3>2
  <2>7. block' * blockSize = t
    BY <1>1, <1>3, <1>4, <2>6
  <2>. QED  BY <2>1, <2>3, <2>5, <2>7
<1>11. ExtentInv'
  <2>1. \A k : Length(exts[k])' = Length(exts[k])
    BY <1>1 DEF Length
  <2>. QED  BY <1>1, <1>3, <1>10, <2>1 DEF ExtentInv
<1>12. BlockInv'
  BY <1>1 DEF BlockInv
<1>13. /\ MergedInv /\ GoodChunks(cs) /\ DecodedOf(cs) = crc'
       /\ header'.chunks = Len(chunks') /\ header'.blocks * blockSize = RoundUp(StSize(Input))
       /\ \A i \in 1 .. Len(crc') : crc'[i] = Unit(Input, i - 1)
       /\ Len(crc') <= RoundUp(StSize(Input))
  BY <1>1, <1>6, <1>8, WrittenNow
<1>. QED  BY <1>1, <1>7, <1>9, <1>11, <1>12, <1>13, WrittenNext

\* Between the extents there are only holes.
LEMMA GapIsHole ==
  ASSUME IsFile(Input), SparseInv, spc = "extent", Merged(Input, exts, Len(exts)), ei <= Len(exts), Length(exts[ei]) > 0,
         \A k \in 1 .. Len(exts) : k < ei /\ Length(exts[k]) > 0 => exts[k].end <= Len(crc),
         NEW u \in Nat, u >= Len(crc), u < exts[ei].start, u < StSize(Input)
  PROVE  IsHole(Input, u)
<1>1. SUFFICES ASSUME ~IsHole(Input, u) PROVE FALSE
  OBVIOUS
<1>2. PICK e \in Nat, n \in Nat, m \in Nat, size \in Nat :
        e = ei /\ n = Len(exts) /\ e \in 1 .. n /\ m = Len(crc) /\ size = StSize(Input)
  <2>1. ei \in Nat \ {0} /\ Len(exts) \in Nat /\ Len(crc) \in Nat /\ StSize(Input) \in Nat
    BY ExtentNumbers
  <2>2. ei \in 1 .. Len(exts)
    BY <2>1
  <2>. QED  BY <2>1, <2>2
<1>3. DOMAIN exts = 1 .. n
  <2>1. exts \in Seq(ExtentRecord)
    BY ExtentNumbers
  <2>. QED  BY <1>2, <2>1
<1>4. PICK k \in 1 .. n : exts[k].start <= u /\ u < exts[k].end
  <2>1. u \in 0 .. StSize(Input) - 1
    BY <1>2
  <2>2. InExtents(exts, u)
    BY <1>1, <2>1 DEF Merged
  <2>. QED  BY <1>3, <2>2 DEF InExtents
<1>5. PICK a \in Nat, b \in Nat, s \in Nat, t \in Nat :
        a = exts[k].start /\ b = exts[k].end /\ s = exts[e].start /\ t = exts[e].end /\ s < t /\ a < b
  <2>1. exts[k].start \in Nat /\ exts[k].end \in Nat /\ exts[e].start \in Nat /\ exts[e].end \in Nat
    BY <1>2, ExtentNumbers
  <2>2. exts[e].start < exts[e].end
    BY <1>2, <2>1 DEF Length
  <2>3. exts[k].start < exts[k].end
    <3>1. \A x \in Nat, y \in Nat : x <= u /\ u < y => x < y
      OBVIOUS
    <3>. QED  BY <1>4, <2>1, <3>1
  <2>. QED  BY <2>1, <2>2, <2>3
<1>6. ~(k < e)
  <2>1. SUFFICES ASSUME k < e PROVE FALSE
    OBVIOUS
  <2>2. Length(exts[k]) > 0
    <3>1. b - a > 0
      BY <1>5
    <3>. QED  BY <1>5, <3>1 DEF Length
  <2>3. b <= m
    BY <1>2, <1>5, <2>1, <2>2
  <2>. QED  BY <1>2, <1>4, <1>5, <2>3
<1>7. ~(k = e)
  BY <1>2, <1>4, <1>5
<1>8. ~(k > e)
  <2>1. SUFFICES ASSUME k > e PROVE FALSE
    OBVIOUS
  <2>2. e < k /\ exts[e].end # 0 /\ exts[k].end # 0 /\ k \in 1 .. Len(exts) /\ e \in 1 .. Len(exts)
    BY <1>2, <1>5, <2>1
  <2>3. t < a
    BY <1>5, <2>2 DEF Merged
  <2>. QED  BY <1>2, <1>4, <1>5, <2>3
<1>. QED  BY <1>2, <1>6, <1>7, <1>8

LEMMA ExtentDecodes ==
  ASSUME IsFile(Input), SparseInv, DecodeInv, SparseExtent, Input' = Input
  PROVE  DecodeInv'
<1>1. /\ spc = "extent" /\ ei <= Len(exts) /\ Length(exts[ei]) > 0 /\ spc' = "block"
      /\ left' = Length(exts[ei]) /\ ch' = NoChunk /\ pos' = Len(chunks') + 1 /\ UNCHANGED <<blockSize, exts, ei>>
  BY DEF SparseExtent
<1>2. PICK e \in Nat, n \in Nat, b \in Nat, m \in Nat, l \in Nat, size \in Nat, r \in Nat :
        /\ e = ei /\ n = Len(exts) /\ e \in 1 .. n /\ b = blockSize /\ b > 0 /\ m = Len(crc) /\ l = block
        /\ size = StSize(Input) /\ r = RoundUp(StSize(Input)) /\ size <= r
  <2>1. /\ ei \in Nat \ {0} /\ Len(exts) \in Nat /\ Len(crc) \in Nat /\ block \in Nat
        /\ blockSize \in Nat /\ blockSize > 0 /\ StSize(Input) \in Nat /\ RoundUp(StSize(Input)) \in Nat
        /\ StSize(Input) <= RoundUp(StSize(Input))
    BY <1>1, ExtentNumbers
  <2>2. ei \in 1 .. Len(exts)
    BY <1>1, <2>1
  <2>. QED  BY <2>1, <2>2
<1>3. PICK s \in Nat, t \in Nat : s = exts[e].start /\ t = exts[e].end /\ s < t /\ t <= size
  <2>1. exts[e].start \in Nat /\ exts[e].end \in Nat /\ exts[e].end <= size
    BY <1>1, <1>2, ExtentNumbers
  <2>2. exts[e].start < exts[e].end
    BY <1>1, <1>2, <2>1 DEF Length
  <2>. QED  BY <2>1, <2>2
<1>4. l * b = m /\ m <= s
  BY <1>1, <1>2, <1>3 DEF DecodeInv, ExtentInv
<1>5. PICK q \in Nat : s = q * b /\ q = s \div b
  <2>1. Whole(s)
    <3>1. exts[e].end # 0 /\ e \in 1 .. Len(exts)
      BY <1>2, <1>3
    <3>. QED  BY <1>1, <1>3, <3>1, WrittenNow DEF Merged
  <2>2. PICK q \in Nat : s = q * b
    BY <1>2, <2>1 DEF Whole
  <2>3. (q * b) \div b = q
    BY <1>2
  <2>. QED  BY <2>2, <2>3
<1>6. PICK h, c : h = [type |-> DONTCARE, blocks |-> q - l, size |-> ChunkHeader] /\ c = Chunk(h, << >>)
  OBVIOUS
<1>7. IF q - l > 0
      THEN /\ chunks' = Append(chunks, c) /\ header' = Added(1) /\ crc' = crc \o Zeros((q - l) * b)
      ELSE UNCHANGED <<chunks, header, block, crc>>
  BY <1>2, <1>3, <1>5, <1>6 DEF SparseExtent
<1>8. PICK cs : cs = AsRead'
  OBVIOUS
<1>9. cs = chunks'
  <2>1. ch'.type = "none"
    BY <1>1 DEF NoChunk
  <2>. QED  BY <1>1, <1>8, <2>1 DEF AsRead, Flushed
<1>10. /\ chunks \in Seq(ChunkRecord) /\ crc \in Seq(Values) /\ header \in [blocks : Nat, chunks : Nat]
       /\ Len(chunks) \in Nat
  BY <1>1, ExtentNumbers
<1>11. /\ MergedInv /\ Merged(Input, exts, Len(exts)) /\ GoodChunks(chunks) /\ DecodedOf(chunks) = crc
       /\ header.chunks = Len(chunks) /\ header.blocks * blockSize = RoundUp(StSize(Input))
       /\ \A i \in 1 .. Len(crc) : crc[i] = Unit(Input, i - 1)
       /\ \A k \in 1 .. Len(exts) : k < ei /\ Length(exts[k]) > 0 => exts[k].end <= Len(crc)
  BY <1>1, WrittenNow DEF AsRead
<1>12. /\ GoodChunks(cs) /\ DecodedOf(cs) = crc' /\ header'.chunks = Len(chunks')
       /\ header'.blocks = header.blocks /\ Len(crc') = s /\ \A i \in 1 .. s : crc'[i] = Unit(Input, i - 1)
  <2>1. CASE ~(q - l > 0)
    <3>1. q <= l
      BY <2>1
    <3>2. q * b <= l * b
      BY <3>1
    <3>3. m = s
      BY <1>4, <1>5, <3>2
    <3>. QED  BY <1>2, <1>7, <1>9, <1>11, <2>1, <3>3
  <2>2. CASE q - l > 0
    <3>1. PICK d \in Nat : d = q - l /\ q = l + d
      BY <2>2
    <3>2. PICK g \in Nat : g = d * b /\ m + g = s
      <4>1. d * b \in Nat /\ (l + d) * b = l * b + d * b
        OBVIOUS
      <4>. QED  BY <1>4, <1>5, <3>1, <4>1
    <3>3. chunks' = Append(chunks, c) /\ header' = Added(1) /\ crc' = crc \o Zeros(g)
      BY <1>7, <2>2, <3>1, <3>2
    <3>4. PICK k \in Nat, z \in Nat : k = ChunkHeader /\ z = SizeMod /\ k + 1 < z
      BY SparseAssumption, HeaderAssumption
    <3>5. h.type = DONTCARE /\ h.blocks = d /\ h.size = k
      BY <1>6, <3>1, <3>4
    <3>6. c \in ChunkRecord /\ c.type = DONTCARE /\ c.blocks = d /\ c.size = k /\ c.data = << >>
      <4>1. << >> \in Seq(Values)
        OBVIOUS
      <4>2. h.blocks \in Nat /\ h.size \in Nat
        BY <3>5
      <4>. QED  BY <1>6, <3>5, <4>1, <4>2, MakeChunk, ChunkFields
    <3>7. DONTCARE # RAW /\ DONTCARE # FILL /\ DONTCARE # CRC32
      BY DEF RAW, FILL, DONTCARE, CRC32
    <3>8. ChunkGood(c)
      <4>1. TrueSize(c) = k
        BY <3>4, <3>6, <3>7 DEF TrueSize
      <4>. QED  BY <3>4, <3>6, <3>7, <4>1 DEF ChunkGood
    <3>9. ASSUME NEW u \in Nat, u >= m, u < s PROVE IsHole(Input, u)
      <4>1. u >= Len(crc) /\ u < exts[ei].start /\ u < StSize(Input)
        BY <1>2, <1>3, <3>9
      <4>. QED  BY <1>1, <1>11, <4>1, GapIsHole
    <3>10. HolesAt(Len(DecodedOf(chunks)), c.blocks)
      <4>1. \A u \in m .. m + d * b - 1 : u \in Nat /\ u >= m /\ u < s
        BY <3>2
      <4>. QED  BY <1>2, <1>11, <3>6, <3>9, <4>1 DEF HolesAt
    <3>11. ChunkContent(c) = Repeated(0, g)
      BY <1>2, <3>2, <3>6, <3>8, ContentOf
    <3>12. Zeros(g) = Repeated(0, g) /\ Zeros(g) \in Seq(Values) /\ Len(Zeros(g)) = g
           /\ \A i \in 1 .. g : Zeros(g)[i] = 0
      <4>1. Zeros(g) = Repeated(0, g)
        BY DEF Zeros, Repeated
      <4>2. Zeros(g) \in [1 .. g -> Values]
        BY ImageFileAssumption DEF Zeros
      <4>. QED  BY <4>1, <4>2 DEF Zeros
    <3>13. GoodChunks(cs) /\ DecodedOf(cs) = crc \o Repeated(0, g)
      BY <1>2, <1>9, <1>10, <1>11, <3>3, <3>6, <3>8, <3>10, <3>11, AddChunk
    <3>14. DecodedOf(cs) = crc'
      BY <3>3, <3>12, <3>13
    <3>15. header'.chunks = Len(chunks') /\ header'.blocks = header.blocks
      <4>1. header'.chunks = header.chunks + 1 /\ header'.blocks = header.blocks
        BY <1>10, <3>3, CountChunks
      <4>2. \A x \in Seq(ChunkRecord), y \in ChunkRecord : Len(Append(x, y)) = Len(x) + 1
        OBVIOUS
      <4>. QED  BY <1>10, <1>11, <3>3, <3>6, <4>1, <4>2
    <3>16. PICK w, z0 : w = crc /\ z0 = Zeros(g)
      OBVIOUS
    <3>17. Len(crc') = s /\ \A i \in 1 .. m + g : crc'[i] = IF i <= m THEN w[i] ELSE z0[i - m]
      <4>1. w \in Seq(Values) /\ z0 \in Seq(Values) /\ Len(w) = m /\ Len(z0) = g /\ crc' = w \o z0
        BY <1>2, <1>10, <3>3, <3>12, <3>16
      <4>2. Len(crc') = m + g /\ \A i \in 1 .. m + g : crc'[i] = IF i <= m THEN w[i] ELSE z0[i - m]
        BY <4>1, ConcatProperties
      <4>. QED  BY <3>2, <4>2
    <3>18. ASSUME NEW i \in 1 .. s PROVE crc'[i] = Unit(Input, i - 1)
      <4>1. CASE i <= m
        <5>1. crc'[i] = w[i] /\ i \in 1 .. m
          BY <3>2, <3>17, <4>1
        <5>. QED  BY <1>2, <1>11, <3>16, <5>1
      <4>2. CASE ~(i <= m)
        <5>1. i - 1 \in Nat /\ i - 1 >= m /\ i - 1 < s /\ i - m \in 1 .. g
          BY <3>2, <4>2
        <5>2. crc'[i] = 0
          BY <3>2, <3>12, <3>16, <3>17, <4>2, <5>1
        <5>3. Unit(Input, i - 1) = 0
          BY <3>9, <5>1, HoleIsZero
        <5>. QED  BY <5>2, <5>3
      <4>. QED  BY <4>1, <4>2
    <3>. QED  BY <3>13, <3>14, <3>15, <3>17, <3>18
  <2>. QED  BY <2>1, <2>2
<1>13. \A k \in 1 .. Len(exts) : k < ei' /\ Length(exts[k]) > 0 => exts[k].end <= Len(crc')
  <2> SUFFICES ASSUME NEW k \in 1 .. n, k < e, Length(exts[k]) > 0 PROVE exts[k].end <= s
    BY <1>1, <1>2, <1>12
  <2>1. exts[k].end <= m /\ exts[k].end \in Nat
    BY <1>1, <1>2, <1>11, ExtentNumbers
  <2>. QED  BY <1>4, <2>1
<1>14. ExtentInv'
  BY <1>1 DEF ExtentInv
<1>15. BlockInv'
  <2>1. ch'.type = "none" /\ ch'.type # RAW
    BY <1>1 DEF NoChunk, RAW
  <2>2. pos' = Len(chunks') + 1 /\ pos' > 0
    <3>1. Len(chunks') \in Nat
      <4>1. header'.chunks \in Nat
        <5>1. SparseInv'
          BY <1>1, ExtentKept
        <5>. QED  BY <5>1 DEF SparseInv
      <4>. QED  BY <1>12, <4>1
    <3>. QED  BY <1>1, <3>1
  <2>3. left' = t - s /\ left' > 0 /\ Length(exts[ei])' > 0
    BY <1>1, <1>2, <1>3 DEF Length
  <2>4. Whole(Len(crc))'
    BY <1>1, <1>2, <1>5, <1>12 DEF Whole
  <2>5. exts'[ei'].start = s /\ exts'[ei'].end = t /\ Len(crc') = s /\ s + (t - s) = t
    BY <1>1, <1>2, <1>3, <1>12
  <2>. QED  BY <2>1, <2>2, <2>3, <2>4, <2>5 DEF BlockInv
<1>16. /\ \A i \in 1 .. Len(crc') : crc'[i] = Unit(Input, i - 1)
       /\ Len(crc') <= RoundUp(StSize(Input)) /\ header'.blocks * blockSize = RoundUp(StSize(Input))
  <2>1. s <= r
    BY <1>2, <1>3
  <2>. QED  BY <1>2, <1>11, <1>12, <2>1
<1>. QED  BY <1>1, <1>8, <1>11, <1>12, <1>13, <1>14, <1>15, <1>16, WrittenNext


\* Sums of the numbers of a block: what is left of the extent and of the chunk.
LEMMA RoomForBlock ==
  ASSUME NEW h \in Nat, NEW m \in Nat, NEW s \in Nat, NEW b \in Nat, NEW z \in Nat, NEW x \in Nat,
         s <= m, h + (m - s) + b < z, x <= m - s
  PROVE  h + x + b < z
OBVIOUS

LEMMA LeftOfExtent ==
  ASSUME NEW m \in Nat, NEW l \in Nat, NEW t \in Nat, NEW b \in Nat, NEW w \in Nat,
         m + l = t, l > 0, w = IF l <= b THEN l ELSE b
  PROVE  IF l - w > 0 THEN m + b + (l - w) = t ELSE t <= m + b /\ m + b < t + b
<1>1. CASE l <= b
  BY <1>1
<1>2. CASE ~(l <= b)
  BY <1>2
<1>. QED  BY <1>1, <1>2

LEMMA LongerChunk ==
  ASSUME NEW m \in Nat, NEW s \in Nat, NEW b \in Nat, NEW x \in Nat, s <= m, x <= m - s
  PROVE  b + x <= m + b - s
OBVIOUS

\* A block is read, and added to the chunk it belongs to.
LEMMA BlockDecodes ==
  ASSUME IsFile(Input), SparseInv, DecodeInv, SparseBlock(Input), Input' = Input
  PROVE  DecodeInv'
<1>1. PICK data : data = BlockData(Input)
  OBVIOUS
<1>2. /\ spc = "block" /\ left > 0 /\ left' = left - Now /\ crc' = crc \o data
      /\ UNCHANGED <<blockSize, spc, exts, ei, block>>
  BY <1>1 DEF SparseBlock
<1>3. ei <= Len(exts)
  BY <1>2 DEF SparseInv
<1>4. /\ Length(exts[ei]) > 0 /\ Whole(Len(crc)) /\ exts[ei].start <= Len(crc) /\ Len(crc) + left = exts[ei].end
      /\ pos = (IF ch.type = "none" THEN Len(chunks) + 1 ELSE Len(chunks)) /\ pos > 0
      /\ ch.type = RAW => Len(chunks[pos].data) <= Len(crc) - exts[ei].start
  BY <1>2 DEF DecodeInv, BlockInv
<1>5. /\ MergedInv /\ Merged(Input, exts, Len(exts)) /\ GoodChunks(Flushed(chunks)) /\ DecodedOf(Flushed(chunks)) = crc
      /\ header.chunks = Len(chunks) /\ header.blocks * blockSize = RoundUp(StSize(Input))
      /\ \A i \in 1 .. Len(crc) : crc[i] = Unit(Input, i - 1)
      /\ \A k \in 1 .. Len(exts) : k < ei /\ Length(exts[k]) > 0 => exts[k].end <= Len(crc)
  BY <1>2, WrittenNow DEF AsRead
<1>6. PICK e \in Nat, n \in Nat, b \in Nat, m \in Nat, l \in Nat, size \in Nat, r \in Nat :
        /\ e = ei /\ n = Len(exts) /\ e \in 1 .. n /\ b = blockSize /\ b > 0 /\ m = Len(crc) /\ l = left
        /\ size = StSize(Input) /\ r = RoundUp(StSize(Input)) /\ size <= r /\ Whole(r)
  <2>1. /\ ei \in Nat \ {0} /\ Len(exts) \in Nat /\ Len(crc) \in Nat /\ left \in Nat
        /\ blockSize \in Nat /\ blockSize > 0 /\ StSize(Input) \in Nat /\ RoundUp(StSize(Input)) \in Nat
        /\ StSize(Input) <= RoundUp(StSize(Input)) /\ Whole(RoundUp(StSize(Input)))
    BY <1>2, ExtentNumbers
  <2>2. ei \in 1 .. Len(exts)
    BY <1>3, <2>1
  <2>. QED  BY <2>1, <2>2
<1>7. PICK s \in Nat, t \in Nat : s = exts[e].start /\ t = exts[e].end /\ s <= m /\ m + l = t /\ t <= size
  <2>1. exts[e].start \in Nat /\ exts[e].end \in Nat /\ exts[e].end <= size
    BY <1>2, <1>6, ExtentNumbers
  <2>. QED  BY <1>4, <1>6, <2>1
<1>8. PICK w \in Nat : w = Now /\ w = IF l <= b THEN l ELSE b
  BY <1>6, MinOfTwo DEF Now
<1>9. ~Outgrown => ChunkHeader + (m - s) + b < SizeMod
  BY <1>2, <1>4, <1>5, <1>6, <1>7, BlockFits
<1>10. ChunkHeader \in Nat /\ SizeMod \in Nat
  BY SparseAssumption
<1>11. Continues(data) => ch.type # "none"
  BY DEF Continues, RAW, FILL
<1>12. Continues(data) /\ ch.type = RAW => Len(chunks[pos].data) \in Nat /\ Len(chunks[pos].data) <= m - s
  <2> SUFFICES ASSUME Continues(data), ch.type = RAW
               PROVE  Len(chunks[pos].data) \in Nat /\ Len(chunks[pos].data) <= m - s
    OBVIOUS
  <2>1. pos = Len(chunks) /\ pos \in Nat /\ chunks \in Seq(ChunkRecord)
    BY <1>2, <1>4, <1>11, ExtentNumbers
  <2>2. pos \in 1 .. Len(chunks)
    BY <1>4, <2>1
  <2>3. chunks[pos] \in ChunkRecord
    BY <2>1, <2>2, ElementOfSeq
  <2>4. Len(chunks[pos].data) \in Nat
    BY <2>3 DEF ChunkRecord
  <2>. QED  BY <1>4, <1>6, <1>7, <2>4
<1>13. BlockReads(data)
  <2>1. CASE Continues(data)
    <3>1. pos = Len(chunks)
      BY <1>4, <1>11, <2>1
    <3>2. ch.type = RAW /\ ~Outgrown => ChunkHeader + Len(chunks[pos].data) + blockSize < SizeMod
      <4> SUFFICES ASSUME ch.type = RAW, ~Outgrown PROVE ChunkHeader + Len(chunks[pos].data) + blockSize < SizeMod
        OBVIOUS
      <4>1. PICK x \in Nat, h \in Nat, z \in Nat :
              x = Len(chunks[pos].data) /\ x <= m - s /\ h = ChunkHeader /\ z = SizeMod
        BY <1>10, <1>12, <2>1
      <4>2. h + (m - s) + b < z
        BY <1>9, <4>1
      <4>3. h + x + b < z
        BY <1>7, <4>1, <4>2, RoomForBlock
      <4>. QED  BY <1>6, <4>1, <4>3
    <3>. QED  BY <1>1, <1>4, <1>5, <2>1, <3>1, <3>2, GoneOn
  <2>2. CASE ~Continues(data)
    <3>1. ~Outgrown => ChunkHeader + blockSize < SizeMod
      <4>1. PICK h \in Nat, z \in Nat : h = ChunkHeader /\ z = SizeMod
        BY <1>10
      <4>2. 0 \in Nat /\ 0 <= m - s
        BY <1>7
      <4>3. ~Outgrown => h + (m - s) + b < z
        BY <1>9, <4>1
      <4>4. ~Outgrown => h + 0 + b < z
        BY <1>7, <4>2, <4>3, RoomForBlock
      <4>5. h + 0 + b = h + b
        OBVIOUS
      <4>. QED  BY <1>6, <4>1, <4>4, <4>5
    <3>. QED  BY <1>1, <1>5, <2>2, <3>1, NewChunk
  <2>. QED  BY <2>1, <2>2
<1>14. PICK cs : cs = AsRead'
  OBVIOUS
<1>15. cs = FlushedNext
  BY <1>2, <1>14 DEF AsRead, FlushedNext
<1>16. /\ GoodChunks(cs) /\ DecodedOf(cs) = crc' /\ header'.chunks = Len(chunks')
       /\ header'.blocks * blockSize = RoundUp(StSize(Input))
  BY <1>2, <1>5, <1>13, <1>15 DEF BlockReads
<1>17. data \in Seq(Values) /\ Len(data) = b /\ crc \in Seq(Values)
  BY <1>1, <1>2, <1>6, BlockType, ExtentNumbers
<1>18. Len(crc') = m + b /\ \A i \in 1 .. m + b : crc'[i] = Unit(Input, i - 1)
  <2>1. PICK c : c = crc
    OBVIOUS
  <2>2. Len(crc') = m + b /\ \A i \in 1 .. m + b : crc'[i] = IF i <= m THEN c[i] ELSE data[i - m]
    <3>1. c \in Seq(Values) /\ Len(c) = m /\ crc' = c \o data
      BY <1>2, <1>6, <1>17, <2>1
    <3>. QED  BY <1>17, <3>1, ConcatProperties
  <2>3. \A i \in 1 .. b : data[i] = Unit(Input, m + i - 1)
    BY <1>1, <1>2, <1>4, <1>5, <1>6, BlockUnits
  <2>4. ASSUME NEW i \in 1 .. m + b PROVE crc'[i] = Unit(Input, i - 1)
    <3>1. CASE i <= m
      <4>1. i \in 1 .. m
        BY <3>1
      <4>. QED  BY <1>5, <1>6, <2>1, <2>2, <3>1, <4>1
    <3>2. CASE ~(i <= m)
      <4>1. i - m \in 1 .. b /\ m + (i - m) - 1 = i - 1
        BY <3>2
      <4>2. data[i - m] = Unit(Input, m + (i - m) - 1)
        BY <2>3, <4>1
      <4>. QED  BY <2>2, <3>2, <4>1, <4>2
    <3>. QED  BY <3>1, <3>2
  <2>. QED  BY <2>2, <2>4
<1>19. Whole(m + b) /\ m + b \in Nat
  <2>1. Whole(m) /\ m \in Nat /\ blockSize \in Nat /\ b = blockSize
    BY <1>4, <1>6
  <2>2. Whole(m + blockSize) /\ m + blockSize \in Nat
    BY <1>2, <1>6, <2>1, WholeSum
  <2>. QED  BY <2>1, <2>2
<1>20. m + b <= r
  <2>1. m + b < r + blockSize /\ blockSize \in Nat
    <3>1. l > 0
      BY <1>2, <1>6
    <3>2. m < t /\ t <= r
      BY <1>6, <1>7, <3>1
    <3>3. m + b < r + b
      BY <3>2
    <3>. QED  BY <1>6, <3>3
  <2>. QED  BY <1>6, <1>19, <2>1, WholeApart
<1>21. \A k \in 1 .. Len(exts) : k < ei' /\ Length(exts[k]) > 0 => exts[k].end <= Len(crc')
  <2> SUFFICES ASSUME NEW k \in 1 .. n, k < e, Length(exts[k]) > 0 PROVE exts[k].end <= m + b
    BY <1>2, <1>6, <1>18
  <2>1. exts[k].end <= m /\ exts[k].end \in Nat
    BY <1>2, <1>5, <1>6, ExtentNumbers
  <2>. QED  BY <1>6, <2>1
<1>22. BlockInv'
  <2>1. exts' = exts /\ ei' = e /\ blockSize' = b
    BY <1>2, <1>6
  <2>2. Length(exts[ei])' > 0
    BY <1>2, <1>4 DEF Length
  <2>3. Whole(Len(crc))'
    BY <1>18, <1>19, <2>1, <1>6 DEF Whole
  <2>4. exts'[ei'].start = s /\ exts'[ei'].end = t /\ s <= m + b
    BY <1>6, <1>7, <2>1
  <2>5. IF left' > 0 THEN m + b + left' = t ELSE t <= m + b /\ m + b < t + b
    <3>1. left' = l - w
      BY <1>2, <1>6, <1>8
    <3>2. l > 0
      BY <1>2, <1>6
    <3>3. IF l - w > 0 THEN m + b + (l - w) = t ELSE t <= m + b /\ m + b < t + b
      BY <1>7, <1>8, <3>2, LeftOfExtent
    <3>. QED  BY <3>1, <3>3
  <2>6. pos' = (IF ch'.type = "none" THEN Len(chunks') + 1 ELSE Len(chunks')) /\ pos' > 0
    BY <1>13 DEF BlockReads
  <2>7. ch'.type = RAW => Len(chunks'[pos'].data) <= m + b - s
    <3> SUFFICES ASSUME ch'.type = RAW PROVE Len(chunks'[pos'].data) <= m + b - s
      OBVIOUS
    <3>1. Len(chunks'[pos'].data) = b + IF Continues(data) THEN Len(chunks[pos].data) ELSE 0
      BY <1>6, <1>13 DEF BlockReads
    <3>2. CASE Continues(data)
      <4>1. ch.type = RAW
        <5>1. IsFill(data) => ch'.type = FILL
          <6> SUFFICES ASSUME IsFill(data) PROVE ch'.type = FILL
            OBVIOUS
          <6>1. ch.type = FILL
            BY <3>2 DEF Continues
          <6>2. ch' = [ch EXCEPT !.blocks = ch.blocks + 1]
            BY <1>1, <3>2, Zenon DEF SparseBlock
          <6>3. ch \in [type : {"none", RAW, FILL}, blocks : Nat, size : Nat]
            BY <1>2, ExtentNumbers
          <6>. QED  BY <6>1, <6>2, <6>3
        <5>2. ~IsFill(data)
          BY <5>1 DEF RAW, FILL
        <5>. QED  BY <3>2, <5>2 DEF Continues
      <4>2. PICK x \in Nat : x = Len(chunks[pos].data) /\ x <= m - s
        BY <1>12, <3>2, <4>1
      <4>3. Len(chunks'[pos'].data) = b + x
        BY <3>1, <3>2, <4>2
      <4>4. b + x <= m + b - s
        BY <1>7, <4>2, LongerChunk
      <4>. QED  BY <4>3, <4>4
    <3>3. CASE ~Continues(data)
      <4>1. Len(chunks'[pos'].data) = b
        BY <3>1, <3>3
      <4>. QED  BY <1>7, <4>1
    <3>. QED  BY <3>2, <3>3
  <2>8. Len(crc') = m + b
    BY <1>18
  <2>. QED  BY <2>1, <2>2, <2>3, <2>4, <2>5, <2>6, <2>7, <2>8 DEF BlockInv
<1>23. ExtentInv'
  BY <1>2 DEF ExtentInv
<1>24. /\ \A i \in 1 .. Len(crc') : crc'[i] = Unit(Input, i - 1)
       /\ Len(crc') <= RoundUp(StSize(Input))
  BY <1>6, <1>18, <1>20
<1>. QED  BY <1>2, <1>5, <1>14, <1>16, <1>21, <1>22, <1>23, <1>24, WrittenNext

LEMMA SparseStepDecodes ==
  ASSUME IsFile(Input), SparseInv, DecodeInv, SparseGenerate(Input), Input' = Input
  PROVE  DecodeInv'
<1>1. CASE SparseFails
  BY <1>1, StoppedDecodes DEF SparseFails
<1>. QED  BY <1>1, OpenDecodes, MergeDecodes, CreateDecodes, SkipDecodes, ExtentDecodes, BlockDecodes, EndDecodes,
            FinishDecodes DEF SparseGenerate

\* Before the sparse image is begun there is nothing read.
LEMMA DecodeFrame ==
  ASSUME DecodeInv, UNCHANGED sparse, spc \in {"setup", "refused", "open"} \/ Input' = Input
  PROVE  DecodeInv'
<1>1. /\ blockSize' = blockSize /\ spc' = spc /\ exts' = exts /\ ei' = ei /\ left' = left /\ block' = block
      /\ chunks' = chunks /\ ch' = ch /\ pos' = pos /\ header' = header /\ crc' = crc
  BY DEF sparse
<1>2. CASE spc \in {"setup", "refused", "open"}
  BY <1>1, <1>2 DEF DecodeInv, FreshInv, MergedInv, WrittenInv, ExtentInv, BlockInv
<1>3. CASE Input' = Input
  <2>1. /\ \A n : Merged(Input, exts, n) = Merged(Input, exts, n)'
        /\ \A n : RoundUp(n)' = RoundUp(n) /\ (Whole(n)' <=> Whole(n))
        /\ \A k : Length(exts[k])' = Length(exts[k])
    BY <1>1, <1>3, SameInput
  <2>2. RoundUp(StSize(Input))' = RoundUp(StSize(Input)) /\ (Whole(Len(crc))' <=> Whole(Len(crc)))
    BY <1>1, <1>3 DEF RoundUp, Whole
  <2>3. PICK cs : cs = AsRead'
    OBVIOUS
  <2>4. cs = AsRead
    BY <1>1, <2>3 DEF AsRead, Flushed
  <2>5. (GoodChunks(AsRead)' <=> GoodChunks(AsRead)) /\ DecodedOf(AsRead)' = DecodedOf(AsRead)
    BY <1>1, <1>3, <2>3, <2>4, SameInput
  <2>6. PICK n : n = Handled
    OBVIOUS
  <2>7. Handled' = n
    BY <1>1, <2>6 DEF Handled
  <2>8. MergedInv'
    BY <1>1, <2>1, <2>6, <2>7 DEF DecodeInv, MergedInv
  <2>9. FreshInv'
    BY <1>1, <2>2 DEF DecodeInv, FreshInv
  <2>10. WrittenInv'
    <3>1. ReadsInput(ei)' <=> ReadsInput(ei)
      BY <1>1, <1>3, <2>1, <2>2 DEF ReadsInput
    <3>. QED  BY <1>1, <2>2, <2>5, <3>1 DEF DecodeInv, WrittenInv
  <2>11. ExtentInv' /\ BlockInv'
    BY <1>1, <2>1, <2>2 DEF DecodeInv, ExtentInv, BlockInv, Length
  <2>. QED  BY <1>1, <2>8, <2>9, <2>10, <2>11 DEF DecodeInv
<1>. QED  BY <1>2, <1>3

LEMMA InitDecodes == Init => DecodeInv
<1> SUFFICES ASSUME Init PROVE DecodeInv
  OBVIOUS
<1>1. spc = "setup" /\ chunks = << >> /\ crc = << >> /\ block = 0 /\ ei = 1
  BY DEF Init
<1>. QED  BY <1>1 DEF DecodeInv, FreshInv, MergedInv, WrittenInv, ExtentInv, BlockInv

LEMMA NextDecodes ==
  ASSUME Inv, DecodeInv, [Next]_vars
  PROVE  DecodeInv'
<1>1. /\ PhaseInv /\ SparseInv /\ cfg \in Configs /\ IsFile(out) /\ IsFile(Source)
  BY ConfigOf DEF Inv, PhaseInv, CallInv
<1>2. IsFile(Input)
  BY <1>1, ChildOf DEF Input
<1>3. CASE UNCHANGED vars
  <2>1. cfg' = cfg /\ out' = out /\ UNCHANGED sparse
    BY <1>3 DEF vars, pipeline, sparse
  <2>2. Input' = Input
    BY <2>1 DEF Input, Child, Source
  <2>. QED  BY <2>1, <2>2, DecodeFrame
<1>4. CASE FileSetup \/ ContainerSetup \/ FileStays \/ FileCopy \/ FileCopyFails \/ FlashImageGenerate \/ HdImageGenerate
  <2>1. /\ UNCHANGED sparse /\ ppc \in Phases \ {"sparse", "ok", "failed"}
    BY <1>4 DEF FileSetup, ContainerSetup, FileStays, FileCopy, FileCopyFails, FlashImageGenerate,
                HdImageGenerate, Unchanged, sparse, Phases
  <2>2. spc \in {"setup", "refused", "open"}
    BY <1>1, <2>1 DEF PhaseInv
  <2>. QED  BY <2>1, <2>2, DecodeFrame
<1>5. CASE SparseImageSetup
  <2>1. /\ spc = "setup" /\ spc' \in {"refused", "open"}
        /\ UNCHANGED <<blockSize, exts, ei, left, block, chunks, ch, pos, header, crc>>
    BY <1>5 DEF SparseImageSetup, SparseSetup
  <2>2. FreshInv'
    BY <2>1 DEF DecodeInv, FreshInv
  <2>. QED  BY <2>1, <2>2 DEF DecodeInv, MergedInv, WrittenInv, ExtentInv, BlockInv
<1>6. CASE SparseImageGenerate
  <2>1. SparseGenerate(Input) /\ UNCHANGED <<cfg, out>>
    BY <1>6 DEF SparseImageGenerate
  <2>2. Input' = Input
    BY <2>1 DEF Input, Child, Source
  <2>. QED  BY <1>1, <1>2, <2>1, <2>2, SparseStepDecodes
<1>7. CASE Over
  BY <1>3, <1>7 DEF Over
<1>. QED  BY <1>3, <1>4, <1>5, <1>6, <1>7 DEF Next, Step

LEMMA DecodesAtEnd ==
  ASSUME Inv, DecodeInv
  PROVE  SparseDecodes
<1>1. SUFFICES ASSUME spc = "ok" PROVE SparseDecodes
  BY DEF SparseDecodes
<1>2. /\ Merged(Input, exts, Len(exts)) /\ GoodChunks(chunks) /\ DecodedOf(chunks) = crc
      /\ header.chunks = Len(chunks) /\ header.blocks * blockSize = RoundUp(StSize(Input))
      /\ \A i \in 1 .. Len(crc) : crc[i] = Unit(Input, i - 1)
      /\ Len(crc) <= RoundUp(StSize(Input))
      /\ \A k \in 1 .. Len(exts) : k < ei /\ Length(exts[k]) > 0 => exts[k].end <= Len(crc)
      /\ ei > Len(exts)
  BY <1>1, WrittenNow DEF AsRead, DecodeInv
<1>3. /\ exts \in Seq(ExtentRecord) /\ crc \in Seq(Values) /\ chunks \in Seq(ChunkRecord) /\ ei \in Nat
      /\ blockSize \in Nat
  BY DEF Inv, SparseInv, ExtentRecord
<1>4. Decoded = crc
  BY <1>2 DEF Decoded, DecodedOf
<1>5. crc = [i \in 1 .. Len(crc) |-> Unit(Input, i - 1)]
  <2>1. crc = [i \in 1 .. Len(crc) |-> crc[i]]
    BY <1>3
  <2>. QED  BY <1>2, <2>1
<1>6. ASSUME NEW u \in Len(crc) .. StSize(Input) - 1 PROVE IsHole(Input, u)
  <2>1. PICK m \in Nat, n \in Nat, size \in Nat : m = Len(crc) /\ n = Len(exts) /\ size = StSize(Input)
    <3>1. IsFile(Input)
      BY ChildOf DEF Inv, PhaseInv, CallInv, Input
    <3>2. StSize(Input) \in Nat /\ Len(crc) \in Nat /\ Len(exts) \in Nat
      BY <1>3, <3>1, StSizeOf
    <3>. QED  BY <3>2
  <2>2. SUFFICES ASSUME ~IsHole(Input, u) PROVE FALSE
    OBVIOUS
  <2>3. u \in m .. size - 1
    BY <2>1
  <2>4. u \in 0 .. StSize(Input) - 1
    BY <2>1, <2>3
  <2>5. InExtents(exts, u)
    BY <1>2, <2>2, <2>4 DEF Merged
  <2>6. PICK k \in 1 .. n : exts[k].start <= u /\ u < exts[k].end
    <3>1. DOMAIN exts = 1 .. n
      BY <1>3, <2>1
    <3>. QED  BY <2>5, <3>1 DEF InExtents
  <2>7. PICK a \in Nat, b \in Nat : a = exts[k].start /\ b = exts[k].end
    BY <1>3, <2>1, ElementOfSeq, ExtentFields
  <2>8. Length(exts[k]) > 0
    <3>1. b - a > 0
      BY <2>3, <2>6, <2>7
    <3>. QED  BY <2>7, <3>1 DEF Length
  <2>9. k < ei
    BY <1>2, <1>3, <2>1
  <2>10. b <= m
    BY <1>2, <2>1, <2>7, <2>8, <2>9
  <2>. QED  BY <2>3, <2>6, <2>7, <2>10
<1>7. ASSUME NEW i \in DOMAIN chunks
      PROVE  /\ \A u \in DontCareUnits(i) : u < StSize(Input) => IsHole(Input, u)
             /\ chunks[i].type = RAW => Len(chunks[i].data) = chunks[i].blocks * blockSize
             /\ TrueSize(chunks[i]) < SizeMod => chunks[i].size = TrueSize(chunks[i])
             /\ TrueSize(chunks[i]) >= SizeMod =>
                  (\E k \in DOMAIN exts : exts[k] = Removed) \/ StSize(Input) % blockSize # 0
  <2>1. i \in 1 .. Len(chunks)
    BY <1>3
  <2>2. ChunkGood(chunks[i]) /\ (chunks[i].type = DONTCARE => HolesAt(Before(chunks, i), chunks[i].blocks))
    BY <1>2, <2>1 DEF GoodChunks
  <2>3. \A u \in DontCareUnits(i) : u < StSize(Input) => IsHole(Input, u)
    BY <2>2 DEF DontCareUnits, HolesAt, Before
  <2>. QED  BY <2>2, <2>3 DEF ChunkGood, Outgrown
<1>. QED  BY <1>2, <1>4, <1>5, <1>6, <1>7 DEF SparseDecodes

\* Reading a finished sparse image gives back the regular file it is made of, whatever that holds and
\* wherever its holes are; of a block device it is empty.  So was the checksum computed, the chunks are
\* counted, and only a chunk that joined extents or the last padded block outgrew has a wrong size.
THEOREM SparseReadsBack == Spec => []SparseDecodes
<1>1. Init => Inv /\ DecodeInv
  BY InitInv, InitDecodes
<1>2. ASSUME Inv /\ DecodeInv, [Next]_vars
      PROVE  (Inv /\ DecodeInv)'
  BY <1>2, NextInv, NextDecodes
<1>3. Inv /\ DecodeInv => SparseDecodes
  BY DecodesAtEnd
<1>. QED  BY <1>1, <1>2, <1>3, PTL DEF Spec
=============================================================================
