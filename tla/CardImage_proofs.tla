-------------------------- MODULE CardImage_proofs --------------------------
(***************************************************************************)
(* Proofs about CardImage, for every set of partition tables and images    *)
(* whose numbers fit (HdLayout!Fits): which tables are refused, where the  *)
(* partitions of the others go, and when the reported size is enough.      *)
(* CardInv carries them: what is placed so far, against the table.  The    *)
(* recursive functions of FexCfg are first given their equations, and what *)
(* genimage reads back of the sections is shown to be the boot files and   *)
(* what is kept of the table (ReadBeside), if no section has their titles. *)
(***************************************************************************)
EXTENDS CardImage, HdLayout_proofs, FiniteSetTheorems

-----------------------------------------------------------------------------
(***************************************************************************)
(* What is written of a table, and its size.                               *)
(***************************************************************************)
\* What Written goes through, up to n.
WrittenUpTo(q, n, f) ==
  f = [m \in 0 .. n |-> IF m = 0 THEN << >>
                        ELSE IF q[m].name = "UDISK" THEN f[m - 1] ELSE Append(f[m - 1], q[m])]

\* There is such a function.
LEMMA WrittenExists == ASSUME NEW q, NEW n \in Nat PROVE \E f : WrittenUpTo(q, n, f)
<1> DEFINE Bad == {k \in Nat : ~ \E f : WrittenUpTo(q, k, f)}
<1>1. SUFFICES ASSUME Bad # {} PROVE FALSE
  OBVIOUS
<1>2. PICK m \in Bad : \A k \in Bad : m <= k
  <2>1. Bad \in SUBSET Nat
    OBVIOUS
  <2>. QED  BY <1>1, <2>1, LeastOf
<1>3. m \in Nat /\ ~ \E f : WrittenUpTo(q, m, f)
  OBVIOUS
<1>4. CASE m = 0
  <2>1. PICK f : f = [k \in 0 .. 0 |-> << >>]
    OBVIOUS
  <2>2. \A k \in 0 .. 0 : k = 0
    OBVIOUS
  <2>3. WrittenUpTo(q, 0, f)
    BY <2>1, <2>2 DEF WrittenUpTo
  <2>. QED  BY <1>3, <1>4, <2>3
<1>5. CASE m # 0
  <2>1. m - 1 \in Nat /\ m - 1 \notin Bad
    BY <1>2, <1>3, <1>5
  <2>2. PICK g : WrittenUpTo(q, m - 1, g)
    BY <2>1
  <2> DEFINE Rule(h, k) ==
             IF k = 0 THEN << >>
             ELSE IF q[k].name = "UDISK" THEN h[k - 1] ELSE Append(h[k - 1], q[k])
  <2>3. PICK f : f = [k \in 0 .. m |-> Rule(g, k)]
    OBVIOUS
  <2>4. g = [k \in 0 .. m - 1 |-> Rule(g, k)]
    BY <2>2 DEF WrittenUpTo
  <2>5. ASSUME NEW k \in 0 .. m - 1 PROVE f[k] = g[k]
    <3> HIDE DEF Rule
    <3>1. k \in 0 .. m
      BY <1>3
    <3>2. f[k] = Rule(g, k)
      BY <2>3, <3>1
    <3>3. g[k] = Rule(g, k)
      BY <2>4
    <3>. QED  BY <3>2, <3>3
  <2>6. \A k \in 0 .. m : Rule(g, k) = Rule(f, k)
    <3> SUFFICES ASSUME NEW k \in 0 .. m, k # 0 PROVE g[k - 1] = f[k - 1]
      OBVIOUS
    <3>1. k - 1 \in 0 .. m - 1
      BY <1>3
    <3>. QED  BY <2>5, <3>1
  <2>7. f = [k \in 0 .. m |-> Rule(f, k)]
    BY <2>3, <2>6
  <2>. QED  BY <1>3, <2>7 DEF WrittenUpTo
<1>. QED  BY <1>4, <1>5

\* Two such functions agree where both are defined.
LEMMA WrittenUnique ==
  ASSUME NEW q, NEW n \in Nat, NEW m \in Nat, m <= n, NEW f, NEW g,
         WrittenUpTo(q, m, f), WrittenUpTo(q, n, g)
  PROVE  \A k \in 0 .. m : f[k] = g[k]
<1> DEFINE Bad == {k \in 0 .. m : f[k] # g[k]}
           Rule(h, k) ==
             IF k = 0 THEN << >>
             ELSE IF q[k].name = "UDISK" THEN h[k - 1] ELSE Append(h[k - 1], q[k])
<1>1. SUFFICES ASSUME Bad # {} PROVE FALSE
  OBVIOUS
<1>2. PICK b \in Bad : \A k \in Bad : b <= k
  <2>1. Bad \in SUBSET Nat
    OBVIOUS
  <2>. QED  BY <1>1, <2>1, LeastOf
<1>3. b \in 0 .. m /\ b \in 0 .. n /\ f[b] # g[b]
  OBVIOUS
<1>4. f[b] = Rule(f, b) /\ g[b] = Rule(g, b)
  <2>1. f = [k \in 0 .. m |-> Rule(f, k)] /\ g = [k \in 0 .. n |-> Rule(g, k)]
    BY DEF WrittenUpTo
  <2> HIDE DEF Rule
  <2>. QED  BY <1>3, <2>1
<1>5. b # 0 => b - 1 \in 0 .. m /\ f[b - 1] = g[b - 1]
  <2> SUFFICES ASSUME b # 0 PROVE b - 1 \in 0 .. m /\ f[b - 1] = g[b - 1]
    OBVIOUS
  <2>1. b - 1 \in 0 .. m /\ ~(b <= b - 1)
    BY <1>3
  <2>. QED  BY <1>2, <2>1
<1>. QED  BY <1>3, <1>4, <1>5

\* One section more is written unless it is UDISK.
LEMMA WrittenStep ==
  ASSUME NEW q, NEW n \in Nat
  PROVE  /\ Written(q, 0) = << >>
         /\ n > 0 => Written(q, n) = IF q[n].name = "UDISK" THEN Written(q, n - 1)
                                     ELSE Append(Written(q, n - 1), q[n])
<1> DEFINE upTo(m) == CHOOSE f : WrittenUpTo(q, m, f)
           Rule(h, k) ==
             IF k = 0 THEN << >>
             ELSE IF q[k].name = "UDISK" THEN h[k - 1] ELSE Append(h[k - 1], q[k])
<1>1. \A m \in Nat : WrittenUpTo(q, m, upTo(m))
  BY WrittenExists, Zenon
<1>2. \A m \in Nat : Written(q, m) = upTo(m)[m]
  BY DEF Written, WrittenUpTo
<1> HIDE DEF upTo
<1>3. Written(q, 0) = << >>
  <2>1. 0 \in 0 .. 0 /\ 0 \in Nat
    OBVIOUS
  <2>2. upTo(0)[0] = << >>
    BY <1>1, <2>1 DEF WrittenUpTo
  <2>. QED  BY <1>2, <2>1, <2>2
<1>4. ASSUME n > 0
      PROVE  Written(q, n) = IF q[n].name = "UDISK" THEN Written(q, n - 1)
                             ELSE Append(Written(q, n - 1), q[n])
  <2>1. n - 1 \in Nat /\ n - 1 <= n /\ n - 1 \in 0 .. n - 1 /\ n \in 0 .. n
    BY <1>4
  <2>2. WrittenUpTo(q, n - 1, upTo(n - 1)) /\ WrittenUpTo(q, n, upTo(n))
    BY <1>1, <2>1
  <2>3. upTo(n)[n - 1] = upTo(n - 1)[n - 1]
    BY <2>1, <2>2, WrittenUnique
  <2>4. PICK f : f = upTo(n)
    OBVIOUS
  <2>5. f = [m \in 0 .. n |-> Rule(f, m)]
    BY <2>2, <2>4 DEF WrittenUpTo
  <2>6. f[n] = Rule(f, n)
    <3> HIDE DEF Rule
    <3>. QED  BY <2>1, <2>5
  <2>7. f[n] = IF q[n].name = "UDISK" THEN f[n - 1] ELSE Append(f[n - 1], q[n])
    BY <1>4, <2>6
  <2>. QED  BY <1>2, <2>1, <2>3, <2>4, <2>7
<1>. QED  BY <1>3, <1>4

\* What Kilobytes goes through, up to n.
KilobytesUpTo(q, n, f) ==
  f = [m \in 0 .. n |-> IF m = 0 THEN 0 ELSE f[m - 1] + q[m].sectors \div 2]

\* The same of Kilobytes: there is such a function.
LEMMA KilobytesExists == ASSUME NEW q, NEW n \in Nat PROVE \E f : KilobytesUpTo(q, n, f)
<1> DEFINE Bad == {k \in Nat : ~ \E f : KilobytesUpTo(q, k, f)}
<1>1. SUFFICES ASSUME Bad # {} PROVE FALSE
  OBVIOUS
<1>2. PICK m \in Bad : \A k \in Bad : m <= k
  <2>1. Bad \in SUBSET Nat
    OBVIOUS
  <2>. QED  BY <1>1, <2>1, LeastOf
<1>3. m \in Nat /\ ~ \E f : KilobytesUpTo(q, m, f)
  OBVIOUS
<1>4. CASE m = 0
  <2>1. PICK f : f = [k \in 0 .. 0 |-> 0]
    OBVIOUS
  <2>2. \A k \in 0 .. 0 : k = 0
    OBVIOUS
  <2>3. KilobytesUpTo(q, 0, f)
    BY <2>1, <2>2 DEF KilobytesUpTo
  <2>. QED  BY <1>3, <1>4, <2>3
<1>5. CASE m # 0
  <2>1. m - 1 \in Nat /\ m - 1 \notin Bad
    BY <1>2, <1>3, <1>5
  <2>2. PICK g : KilobytesUpTo(q, m - 1, g)
    BY <2>1
  <2> DEFINE Rule(h, k) == IF k = 0 THEN 0 ELSE h[k - 1] + q[k].sectors \div 2
  <2>3. PICK f : f = [k \in 0 .. m |-> Rule(g, k)]
    OBVIOUS
  <2>4. g = [k \in 0 .. m - 1 |-> Rule(g, k)]
    BY <2>2 DEF KilobytesUpTo
  <2>5. ASSUME NEW k \in 0 .. m - 1 PROVE f[k] = g[k]
    <3> HIDE DEF Rule
    <3>1. k \in 0 .. m
      BY <1>3
    <3>2. f[k] = Rule(g, k)
      BY <2>3, <3>1
    <3>3. g[k] = Rule(g, k)
      BY <2>4
    <3>. QED  BY <3>2, <3>3
  <2>6. \A k \in 0 .. m : Rule(g, k) = Rule(f, k)
    <3> SUFFICES ASSUME NEW k \in 0 .. m, k # 0 PROVE g[k - 1] = f[k - 1]
      OBVIOUS
    <3>1. k - 1 \in 0 .. m - 1
      BY <1>3
    <3>. QED  BY <2>5, <3>1
  <2>7. f = [k \in 0 .. m |-> Rule(f, k)]
    BY <2>3, <2>6
  <2>. QED  BY <1>3, <2>7 DEF KilobytesUpTo
<1>. QED  BY <1>4, <1>5

\* Two such functions agree where both are defined.
LEMMA KilobytesUnique ==
  ASSUME NEW q, NEW n \in Nat, NEW m \in Nat, m <= n, NEW f, NEW g,
         KilobytesUpTo(q, m, f), KilobytesUpTo(q, n, g)
  PROVE  \A k \in 0 .. m : f[k] = g[k]
<1> DEFINE Bad == {k \in 0 .. m : f[k] # g[k]}
           Rule(h, k) == IF k = 0 THEN 0 ELSE h[k - 1] + q[k].sectors \div 2
<1>1. SUFFICES ASSUME Bad # {} PROVE FALSE
  OBVIOUS
<1>2. PICK b \in Bad : \A k \in Bad : b <= k
  <2>1. Bad \in SUBSET Nat
    OBVIOUS
  <2>. QED  BY <1>1, <2>1, LeastOf
<1>3. b \in 0 .. m /\ b \in 0 .. n /\ f[b] # g[b]
  OBVIOUS
<1>4. f[b] = Rule(f, b) /\ g[b] = Rule(g, b)
  <2>1. f = [k \in 0 .. m |-> Rule(f, k)] /\ g = [k \in 0 .. n |-> Rule(g, k)]
    BY DEF KilobytesUpTo
  <2> HIDE DEF Rule
  <2>. QED  BY <1>3, <2>1
<1>5. b # 0 => b - 1 \in 0 .. m /\ f[b - 1] = g[b - 1]
  <2> SUFFICES ASSUME b # 0 PROVE b - 1 \in 0 .. m /\ f[b - 1] = g[b - 1]
    OBVIOUS
  <2>1. b - 1 \in 0 .. m /\ ~(b <= b - 1)
    BY <1>3
  <2>. QED  BY <1>2, <2>1
<1>. QED  BY <1>3, <1>4, <1>5

\* One section more adds its size.
LEMMA KilobytesStep ==
  ASSUME NEW q, NEW n \in Nat
  PROVE  /\ Kilobytes(q, 0) = 0
         /\ n > 0 => Kilobytes(q, n) = Kilobytes(q, n - 1) + q[n].sectors \div 2
<1> DEFINE upTo(m) == CHOOSE f : KilobytesUpTo(q, m, f)
           Rule(h, k) == IF k = 0 THEN 0 ELSE h[k - 1] + q[k].sectors \div 2
<1>1. \A m \in Nat : KilobytesUpTo(q, m, upTo(m))
  BY KilobytesExists, Zenon
<1>2. \A m \in Nat : Kilobytes(q, m) = upTo(m)[m]
  BY DEF Kilobytes, KilobytesUpTo
<1> HIDE DEF upTo
<1>3. Kilobytes(q, 0) = 0
  <2>1. 0 \in 0 .. 0 /\ 0 \in Nat
    OBVIOUS
  <2>2. upTo(0)[0] = 0
    BY <1>1, <2>1 DEF KilobytesUpTo
  <2>. QED  BY <1>2, <2>1, <2>2
<1>4. ASSUME n > 0 PROVE Kilobytes(q, n) = Kilobytes(q, n - 1) + q[n].sectors \div 2
  <2>1. n - 1 \in Nat /\ n - 1 <= n /\ n - 1 \in 0 .. n - 1 /\ n \in 0 .. n
    BY <1>4
  <2>2. KilobytesUpTo(q, n - 1, upTo(n - 1)) /\ KilobytesUpTo(q, n, upTo(n))
    BY <1>1, <2>1
  <2>3. upTo(n)[n - 1] = upTo(n - 1)[n - 1]
    BY <2>1, <2>2, KilobytesUnique
  <2>4. PICK f : f = upTo(n)
    OBVIOUS
  <2>5. f = [m \in 0 .. n |-> Rule(f, m)]
    BY <2>2, <2>4 DEF KilobytesUpTo
  <2>6. f[n] = Rule(f, n)
    <3> HIDE DEF Rule
    <3>. QED  BY <2>1, <2>5
  <2>7. f[n] = f[n - 1] + q[n].sectors \div 2
    BY <1>4, <2>6
  <2>. QED  BY <1>2, <2>1, <2>3, <2>4, <2>7
<1>. QED  BY <1>3, <1>4

\* The size of a table is a number, and depends on the sections counted only.
LEMMA KilobytesType ==
  ASSUME NEW q \in Seq(Section), NEW n \in 0 .. Len(q) PROVE Kilobytes(q, n) \in Nat
<1> DEFINE Bad == {k \in 0 .. Len(q) : Kilobytes(q, k) \notin Nat}
<1>1. SUFFICES ASSUME Bad # {} PROVE FALSE
  OBVIOUS
<1>2. PICK m \in Bad : \A k \in Bad : m <= k
  <2>1. Bad \in SUBSET Nat
    OBVIOUS
  <2>. QED  BY <1>1, <2>1, LeastOf
<1>3. m \in 0 .. Len(q) /\ m \in Nat /\ Kilobytes(q, m) \notin Nat
  OBVIOUS
<1>4. m > 0 => m - 1 \in Nat /\ Kilobytes(q, m - 1) \in Nat /\ q[m] \in Section
  <2> SUFFICES ASSUME m > 0 PROVE m - 1 \in Nat /\ Kilobytes(q, m - 1) \in Nat /\ q[m] \in Section
    OBVIOUS
  <2>1. m - 1 \in 0 .. Len(q) /\ ~(m <= m - 1) /\ m \in 1 .. Len(q)
    BY <1>3
  <2>. QED  BY <1>2, <2>1
<1>5. m > 0 => q[m].sectors \div 2 \in Nat
  BY <1>4 DEF Section
<1>. QED  BY <1>3, <1>4, <1>5, KilobytesStep

\* Tables that agree on the sections counted have the same size.
LEMMA KilobytesLocal ==
  ASSUME NEW p, NEW q, NEW n \in Nat, \A i \in 1 .. n : p[i] = q[i]
  PROVE  Kilobytes(p, n) = Kilobytes(q, n)
<1> DEFINE Bad == {k \in 0 .. n : Kilobytes(p, k) # Kilobytes(q, k)}
<1>1. SUFFICES ASSUME Bad # {} PROVE FALSE
  OBVIOUS
<1>2. PICK m \in Bad : \A k \in Bad : m <= k
  <2>1. Bad \in SUBSET Nat
    OBVIOUS
  <2>. QED  BY <1>1, <2>1, LeastOf
<1>3. m \in 0 .. n /\ m \in Nat /\ Kilobytes(p, m) # Kilobytes(q, m)
  OBVIOUS
<1>4. m > 0 => Kilobytes(p, m - 1) = Kilobytes(q, m - 1) /\ p[m] = q[m]
  <2> SUFFICES ASSUME m > 0 PROVE Kilobytes(p, m - 1) = Kilobytes(q, m - 1) /\ p[m] = q[m]
    OBVIOUS
  <2>1. m - 1 \in 0 .. n /\ ~(m <= m - 1) /\ m \in 1 .. n
    BY <1>3
  <2>. QED  BY <1>2, <2>1
<1>. QED  BY <1>3, <1>4, KilobytesStep

\* What is written are sections of the table other than UDISK, and altogether no
\* larger than the table.
WrittenWell(q, n) ==
  /\ Written(q, n) \in Seq({s \in Section : s.name # "UDISK" /\ \E i \in 1 .. n : s = q[i]})
  /\ Kilobytes(Written(q, n), Len(Written(q, n))) <= Kilobytes(q, n)

\* By least counterexample over the sections counted.
LEMMA WrittenSound == ASSUME NEW q \in Seq(Section), NEW n \in 0 .. Len(q) PROVE WrittenWell(q, n)
<1> DEFINE Bad == {k \in 0 .. Len(q) : ~WrittenWell(q, k)}
           Kept(k) == {s \in Section : s.name # "UDISK" /\ \E i \in 1 .. k : s = q[i]}
<1>1. SUFFICES ASSUME Bad # {} PROVE FALSE
  OBVIOUS
<1>2. PICK m \in Bad : \A k \in Bad : m <= k
  <2>1. Bad \in SUBSET Nat
    OBVIOUS
  <2>. QED  BY <1>1, <2>1, LeastOf
<1>3. m \in 0 .. Len(q) /\ m \in Nat /\ ~WrittenWell(q, m)
  OBVIOUS
<1>4. CASE m = 0
  <2>1. Written(q, 0) = << >> /\ Kilobytes(q, 0) = 0 /\ Kilobytes(<< >>, 0) = 0
    BY WrittenStep, KilobytesStep
  <2>2. Len(<< >>) = 0 /\ << >> \in Seq(Kept(0))
    OBVIOUS
  <2>3. Kilobytes(Written(q, 0), Len(Written(q, 0))) <= Kilobytes(q, 0)
    BY <2>1, <2>2
  <2>. QED  BY <1>3, <1>4, <2>1, <2>2, <2>3 DEF WrittenWell
<1>5. CASE m # 0
  <2> DEFINE w == Written(q, m - 1)
             s == q[m]
  <2>1. m - 1 \in Nat /\ m - 1 \in 0 .. Len(q) /\ m > 0 /\ m \in 1 .. Len(q) /\ s \in Section
    BY <1>3, <1>5
  <2>2. WrittenWell(q, m - 1)
    <3>1. ~(m <= m - 1)
      BY <1>3
    <3>. QED  BY <1>2, <2>1, <3>1
  <2>3. w \in Seq(Kept(m - 1)) /\ Kilobytes(w, Len(w)) <= Kilobytes(q, m - 1)
    BY <2>2 DEF WrittenWell
  <2>4. Kept(m - 1) \subseteq Kept(m) /\ Kept(m) \subseteq Section
    BY <1>3, <2>1
  <2>5. s.name # "UDISK" => s \in Kept(m)
    BY <2>1
  <2> HIDE DEF Kept
  <2>6. w \in Seq(Kept(m)) /\ w \in Seq(Section) /\ Len(w) \in Nat
    BY <2>3, <2>4
  <2>7. /\ Written(q, m) = IF s.name = "UDISK" THEN w ELSE Append(w, s)
        /\ Kilobytes(q, m) = Kilobytes(q, m - 1) + s.sectors \div 2
    BY <1>3, <2>1, WrittenStep, KilobytesStep
  <2>8. /\ Kilobytes(w, Len(w)) \in Nat /\ Kilobytes(q, m - 1) \in Nat /\ s.sectors \div 2 \in Nat
    <3>1. Len(w) \in 0 .. Len(w)
      BY <2>6
    <3>2. s.sectors \div 2 \in Nat
      BY <2>1 DEF Section
    <3>. QED  BY <2>1, <2>6, <3>1, <3>2, KilobytesType
  <2> HIDE DEF w, s
  <2>9. CASE s.name = "UDISK"
    <3>1. Kilobytes(w, Len(w)) <= Kilobytes(q, m)
      BY <2>3, <2>7, <2>8
    <3>. QED  BY <1>3, <2>6, <2>7, <2>9, <3>1 DEF WrittenWell, Kept
  <2>10. CASE s.name # "UDISK"
    <3>1. PICK v : v = Append(w, s)
      OBVIOUS
    <3>2. /\ v \in Seq(Kept(m)) /\ Len(v) = Len(w) + 1 /\ v[Len(w) + 1] = s
          /\ \A i \in 1 .. Len(w) : v[i] = w[i]
      BY <2>5, <2>6, <2>10, <3>1
    <3>3. Kilobytes(v, Len(w)) = Kilobytes(w, Len(w))
      BY <2>6, <3>2, KilobytesLocal
    <3>4. PICK l \in Nat : l = Len(w) + 1 /\ l > 0 /\ l - 1 = Len(w)
      BY <2>6
    <3>5. Kilobytes(v, l) = Kilobytes(v, l - 1) + v[l].sectors \div 2
      BY <3>4, KilobytesStep
    <3>6. Kilobytes(v, Len(v)) = Kilobytes(w, Len(w)) + s.sectors \div 2
      BY <3>2, <3>3, <3>4, <3>5
    <3>7. Kilobytes(v, Len(v)) <= Kilobytes(q, m)
      BY <2>3, <2>7, <2>8, <3>6
    <3>. QED  BY <1>3, <2>7, <2>10, <3>1, <3>2, <3>7 DEF WrittenWell, Kept
  <2>. QED  BY <2>9, <2>10
<1>. QED  BY <1>4, <1>5

-----------------------------------------------------------------------------
(***************************************************************************)
(* What genimage reads back of the sections written.                       *)
(***************************************************************************)
\* What ReadBack goes through, up to n.
ReadBackUpTo(q, n, f) ==
  f = [m \in 0 .. n |-> IF m = 0 THEN << >> ELSE Titled(f[m - 1], q[m])]

\* The same of ReadBack: there is such a function.
LEMMA ReadBackExists == ASSUME NEW q, NEW n \in Nat PROVE \E f : ReadBackUpTo(q, n, f)
<1> DEFINE Bad == {k \in Nat : ~ \E f : ReadBackUpTo(q, k, f)}
<1>1. SUFFICES ASSUME Bad # {} PROVE FALSE
  OBVIOUS
<1>2. PICK m \in Bad : \A k \in Bad : m <= k
  <2>1. Bad \in SUBSET Nat
    OBVIOUS
  <2>. QED  BY <1>1, <2>1, LeastOf
<1>3. m \in Nat /\ ~ \E f : ReadBackUpTo(q, m, f)
  OBVIOUS
<1>4. CASE m = 0
  <2>1. PICK f : f = [k \in 0 .. 0 |-> << >>]
    OBVIOUS
  <2>2. \A k \in 0 .. 0 : k = 0
    OBVIOUS
  <2>3. ReadBackUpTo(q, 0, f)
    BY <2>1, <2>2 DEF ReadBackUpTo
  <2>. QED  BY <1>3, <1>4, <2>3
<1>5. CASE m # 0
  <2>1. m - 1 \in Nat /\ m - 1 \notin Bad
    BY <1>2, <1>3, <1>5
  <2>2. PICK g : ReadBackUpTo(q, m - 1, g)
    BY <2>1
  <2> DEFINE Rule(h, k) == IF k = 0 THEN << >> ELSE Titled(h[k - 1], q[k])
  <2>3. PICK f : f = [k \in 0 .. m |-> Rule(g, k)]
    OBVIOUS
  <2>4. g = [k \in 0 .. m - 1 |-> Rule(g, k)]
    BY <2>2 DEF ReadBackUpTo
  <2>5. ASSUME NEW k \in 0 .. m - 1 PROVE f[k] = g[k]
    <3> HIDE DEF Rule
    <3>1. k \in 0 .. m
      BY <1>3
    <3>2. f[k] = Rule(g, k)
      BY <2>3, <3>1
    <3>3. g[k] = Rule(g, k)
      BY <2>4
    <3>. QED  BY <3>2, <3>3
  <2>6. \A k \in 0 .. m : Rule(g, k) = Rule(f, k)
    <3> SUFFICES ASSUME NEW k \in 0 .. m, k # 0 PROVE g[k - 1] = f[k - 1]
      OBVIOUS
    <3>1. k - 1 \in 0 .. m - 1
      BY <1>3
    <3>. QED  BY <2>5, <3>1
  <2>7. f = [k \in 0 .. m |-> Rule(f, k)]
    BY <2>3, <2>6
  <2>. QED  BY <1>3, <2>7 DEF ReadBackUpTo
<1>. QED  BY <1>4, <1>5

\* Two such functions agree where both are defined.
LEMMA ReadBackUnique ==
  ASSUME NEW q, NEW n \in Nat, NEW m \in Nat, m <= n, NEW f, NEW g,
         ReadBackUpTo(q, m, f), ReadBackUpTo(q, n, g)
  PROVE  \A k \in 0 .. m : f[k] = g[k]
<1> DEFINE Bad == {k \in 0 .. m : f[k] # g[k]}
           Rule(h, k) == IF k = 0 THEN << >> ELSE Titled(h[k - 1], q[k])
<1>1. SUFFICES ASSUME Bad # {} PROVE FALSE
  OBVIOUS
<1>2. PICK b \in Bad : \A k \in Bad : b <= k
  <2>1. Bad \in SUBSET Nat
    OBVIOUS
  <2>. QED  BY <1>1, <2>1, LeastOf
<1>3. b \in 0 .. m /\ b \in 0 .. n /\ f[b] # g[b]
  OBVIOUS
<1>4. f[b] = Rule(f, b) /\ g[b] = Rule(g, b)
  <2>1. f = [k \in 0 .. m |-> Rule(f, k)] /\ g = [k \in 0 .. n |-> Rule(g, k)]
    BY DEF ReadBackUpTo
  <2> HIDE DEF Rule
  <2>. QED  BY <1>3, <2>1
<1>5. b # 0 => b - 1 \in 0 .. m /\ f[b - 1] = g[b - 1]
  <2> SUFFICES ASSUME b # 0 PROVE b - 1 \in 0 .. m /\ f[b - 1] = g[b - 1]
    OBVIOUS
  <2>1. b - 1 \in 0 .. m /\ ~(b <= b - 1)
    BY <1>3
  <2>. QED  BY <1>2, <2>1
<1>. QED  BY <1>3, <1>4, <1>5

\* One section more is put where its title asks.
LEMMA ReadBackStep ==
  ASSUME NEW q, NEW n \in Nat
  PROVE  /\ ReadBack(q, 0) = << >>
         /\ n > 0 => ReadBack(q, n) = Titled(ReadBack(q, n - 1), q[n])
<1> DEFINE upTo(m) == CHOOSE f : ReadBackUpTo(q, m, f)
           Rule(h, k) == IF k = 0 THEN << >> ELSE Titled(h[k - 1], q[k])
<1>1. \A m \in Nat : ReadBackUpTo(q, m, upTo(m))
  BY ReadBackExists, Zenon
<1>2. \A m \in Nat : ReadBack(q, m) = upTo(m)[m]
  BY DEF ReadBack, ReadBackUpTo
<1> HIDE DEF upTo
<1>3. ReadBack(q, 0) = << >>
  <2>1. 0 \in 0 .. 0 /\ 0 \in Nat
    OBVIOUS
  <2>2. upTo(0)[0] = << >>
    BY <1>1, <2>1 DEF ReadBackUpTo
  <2>. QED  BY <1>2, <2>1, <2>2
<1>4. ASSUME n > 0 PROVE ReadBack(q, n) = Titled(ReadBack(q, n - 1), q[n])
  <2>1. n - 1 \in Nat /\ n - 1 <= n /\ n - 1 \in 0 .. n - 1 /\ n \in 0 .. n
    BY <1>4
  <2>2. ReadBackUpTo(q, n - 1, upTo(n - 1)) /\ ReadBackUpTo(q, n, upTo(n))
    BY <1>1, <2>1
  <2>3. upTo(n)[n - 1] = upTo(n - 1)[n - 1]
    BY <2>1, <2>2, ReadBackUnique
  <2>4. PICK f : f = upTo(n)
    OBVIOUS
  <2>5. f = [m \in 0 .. n |-> Rule(f, m)]
    BY <2>2, <2>4 DEF ReadBackUpTo
  <2>6. f[n] = Rule(f, n)
    <3> HIDE DEF Rule
    <3>. QED  BY <2>1, <2>5
  <2>7. f[n] = Titled(f[n - 1], q[n])
    BY <1>4, <2>6
  <2>. QED  BY <1>2, <2>1, <2>3, <2>4, <2>7
<1>. QED  BY <1>3, <1>4

\* A section in its place among those read, or behind them.
TitledAs(q, s, t) ==
  \/ /\ \E k \in 1 .. Len(q) : q[k].name = s.name
     /\ Len(t) = Len(q)
     /\ \A i \in 1 .. Len(q) : t[i] = IF q[i].name = s.name THEN s ELSE q[i]
  \/ /\ \A k \in 1 .. Len(q) : q[k].name # s.name
     /\ Len(t) = Len(q) + 1 /\ t[Len(q) + 1] = s
     /\ \A i \in 1 .. Len(q) : t[i] = q[i]

\* That is what Titled makes.
LEMMA TitledElements ==
  ASSUME NEW S, NEW q \in Seq(S), NEW s \in S
  PROVE  Titled(q, s) \in Seq(S) /\ TitledAs(q, s, Titled(q, s))
<1>1. Len(q) \in Nat /\ DOMAIN q = 1 .. Len(q) /\ \A i \in 1 .. Len(q) : q[i] \in S
  OBVIOUS
<1>2. CASE \E k \in DOMAIN q : q[k].name = s.name
  <2>1. PICK t : t = [k \in 1 .. Len(q) |-> IF q[k].name = s.name THEN s ELSE q[k]]
    OBVIOUS
  <2>2. Titled(q, s) = t
    BY <1>1, <1>2, <2>1 DEF Titled
  <2>3. t \in [1 .. Len(q) -> S]
    BY <1>1, <2>1
  <2>4. \A k \in Nat : \A g \in [1 .. k -> S] : g \in Seq(S) /\ Len(g) = k
    OBVIOUS
  <2>5. t \in Seq(S) /\ Len(t) = Len(q)
    BY <1>1, <2>3, <2>4
  <2>6. \A i \in 1 .. Len(q) : t[i] = IF q[i].name = s.name THEN s ELSE q[i]
    BY <2>1
  <2>7. TitledAs(q, s, t)
    BY <1>1, <1>2, <2>5, <2>6 DEF TitledAs
  <2>. QED  BY <2>2, <2>5, <2>7
<1>3. CASE ~ \E k \in DOMAIN q : q[k].name = s.name
  <2>1. PICK t : t = Append(q, s)
    OBVIOUS
  <2>2. Titled(q, s) = t
    BY <1>3, <2>1, Zenon DEF Titled
  <2>3. t \in Seq(S) /\ Len(t) = Len(q) + 1 /\ t[Len(q) + 1] = s /\ \A i \in 1 .. Len(q) : t[i] = q[i]
    BY <2>1
  <2>4. TitledAs(q, s, t)
    BY <1>1, <1>3, <2>3 DEF TitledAs
  <2>. QED  BY <2>2, <2>3, <2>4
<1>. QED  BY <1>2, <1>3

\* A table with one section exchanged is larger by that section at most.
LEMMA KilobytesReplaced ==
  ASSUME NEW r \in Seq(Section), NEW t \in Seq(Section), Len(t) = Len(r), NEW j \in 1 .. Len(r),
         \A i \in 1 .. Len(r) : i # j => t[i] = r[i], NEW n \in 0 .. Len(r)
  PROVE  Kilobytes(t, n) <= Kilobytes(r, n) + t[j].sectors \div 2
<1>0. PICK h : h \in Nat /\ h = t[j].sectors \div 2
  <2>1. t[j] \in Section
    OBVIOUS
  <2>. QED  BY <2>1 DEF Section
<1> DEFINE Bad == {k \in 0 .. Len(r) : ~(Kilobytes(t, k) <= Kilobytes(r, k) + h)}
<1>1. SUFFICES ASSUME Bad # {} PROVE FALSE
  BY <1>0
<1>2. PICK m \in Bad : \A k \in Bad : m <= k
  <2>1. Bad \in SUBSET Nat
    OBVIOUS
  <2>. QED  BY <1>1, <2>1, LeastOf
<1>3. m \in 0 .. Len(r) /\ m \in Nat /\ ~(Kilobytes(t, m) <= Kilobytes(r, m) + h)
  OBVIOUS
<1>4. Kilobytes(t, m) \in Nat /\ Kilobytes(r, m) \in Nat
  BY <1>3, KilobytesType
<1>5. CASE m < j
  <2>1. \A i \in 1 .. m : t[i] = r[i]
    BY <1>3, <1>5
  <2>2. Kilobytes(t, m) = Kilobytes(r, m)
    BY <1>3, <2>1, KilobytesLocal
  <2>. QED  BY <1>0, <1>3, <1>4, <2>2
<1>6. CASE m >= j
  <2>1. m - 1 \in 0 .. Len(r) /\ m - 1 \in Nat /\ m > 0 /\ m \in 1 .. Len(r)
    BY <1>3, <1>6
  <2>2. PICK a, b : /\ a \in Nat /\ a = Kilobytes(t, m - 1)
                    /\ b \in Nat /\ b = Kilobytes(r, m - 1)
    BY <2>1, KilobytesType
  <2>3. PICK c, d : /\ c \in Nat /\ c = t[m].sectors \div 2
                    /\ d \in Nat /\ d = r[m].sectors \div 2
    <3>1. t[m] \in Section /\ r[m] \in Section
      BY <2>1
    <3>2. \A s \in Section : s.sectors \div 2 \in Nat
      BY DEF Section
    <3>. QED  BY <3>1, <3>2, Zenon
  <2>4. Kilobytes(t, m) = a + c /\ Kilobytes(r, m) = b + d
    BY <1>3, <2>1, <2>2, <2>3, KilobytesStep
  <2>5. CASE m = j
    <3>1. \A i \in 1 .. m - 1 : t[i] = r[i]
      BY <1>3, <2>5
    <3>2. a = b
      BY <2>1, <2>2, <3>1, KilobytesLocal
    <3>3. c = h
      BY <1>0, <2>3, <2>5
    <3>. QED  BY <1>0, <1>3, <2>2, <2>3, <2>4, <3>2, <3>3
  <2>6. CASE m # j
    <3>1. a <= b + h
      <4>1. ~(m <= m - 1)
        BY <1>3
      <4>. QED  BY <1>2, <2>1, <2>2, <4>1
    <3>2. c = d
      BY <2>1, <2>3, <2>6
    <3>. QED  BY <1>0, <1>3, <2>2, <2>3, <2>4, <3>1, <3>2
  <2>. QED  BY <2>5, <2>6
<1>. QED  BY <1>3, <1>5, <1>6

\* What is read back are sections of the file, each of its own name, and altogether
\* no larger than the file.
ReadBackWell(q, n) ==
  LET r == ReadBack(q, n)
  IN  /\ r \in Seq({s \in Section : \E i \in 1 .. n : s = q[i]})
      /\ \A i, j \in 1 .. Len(r) : r[i].name = r[j].name => i = j
      /\ Kilobytes(r, Len(r)) <= Kilobytes(q, n)

\* By least counterexample over the sections read.
LEMMA ReadBackSound == ASSUME NEW q \in Seq(Section), NEW n \in 0 .. Len(q) PROVE ReadBackWell(q, n)
<1> DEFINE Bad == {k \in 0 .. Len(q) : ~ReadBackWell(q, k)}
           Read(k) == {s \in Section : \E i \in 1 .. k : s = q[i]}
<1>1. SUFFICES ASSUME Bad # {} PROVE FALSE
  OBVIOUS
<1>2. PICK m \in Bad : \A k \in Bad : m <= k
  <2>1. Bad \in SUBSET Nat
    OBVIOUS
  <2>. QED  BY <1>1, <2>1, LeastOf
<1>3. m \in 0 .. Len(q) /\ m \in Nat /\ ~ReadBackWell(q, m)
  OBVIOUS
<1>4. CASE m = 0
  <2>1. ReadBack(q, 0) = << >> /\ Kilobytes(q, 0) = 0 /\ Kilobytes(<< >>, 0) = 0
    BY ReadBackStep, KilobytesStep
  <2>2. Len(<< >>) = 0 /\ << >> \in Seq(Read(0))
    OBVIOUS
  <2>3. Kilobytes(ReadBack(q, 0), Len(ReadBack(q, 0))) <= Kilobytes(q, 0)
    BY <2>1, <2>2
  <2>4. \A i, j \in 1 .. Len(ReadBack(q, 0)) : ReadBack(q, 0)[i].name = ReadBack(q, 0)[j].name => i = j
    BY <2>1, <2>2
  <2>. QED  BY <1>3, <1>4, <2>1, <2>2, <2>3, <2>4 DEF ReadBackWell
<1>5. CASE m # 0
  <2>0. PICK r, t, s : r = ReadBack(q, m - 1) /\ s = q[m] /\ t = Titled(r, s)
    OBVIOUS
  <2>1. m - 1 \in Nat /\ m - 1 \in 0 .. Len(q) /\ m > 0 /\ m \in 1 .. Len(q) /\ s \in Section
    BY <1>3, <1>5, <2>0
  <2>2. ReadBackWell(q, m - 1)
    <3>1. ~(m <= m - 1)
      BY <1>3
    <3>. QED  BY <1>2, <2>1, <3>1
  <2>3. /\ r \in Seq(Read(m - 1)) /\ Kilobytes(r, Len(r)) <= Kilobytes(q, m - 1)
        /\ \A i, j \in 1 .. Len(r) : r[i].name = r[j].name => i = j
    BY <2>0, <2>2 DEF ReadBackWell
  <2>4. Read(m - 1) \subseteq Read(m) /\ Read(m) \subseteq Section /\ s \in Read(m)
    BY <1>3, <2>0, <2>1
  <2>5. /\ ReadBack(q, m) = t
        /\ Kilobytes(q, m) = Kilobytes(q, m - 1) + s.sectors \div 2
    BY <1>3, <2>0, <2>1, ReadBackStep, KilobytesStep
  <2> HIDE DEF Read
  <2>6. r \in Seq(Read(m)) /\ r \in Seq(Section) /\ Len(r) \in Nat
    BY <2>3, <2>4
  <2>7. t \in Seq(Read(m)) /\ t \in Seq(Section) /\ TitledAs(r, s, t)
    <3>1. t \in Seq(Read(m)) /\ TitledAs(r, s, t)
      BY <2>0, <2>4, <2>6, TitledElements
    <3>. QED  BY <2>4, <3>1
  <2>8. PICK a, b, h : /\ a \in Nat /\ a = Kilobytes(r, Len(r))
                       /\ b \in Nat /\ b = Kilobytes(q, m - 1)
                       /\ h \in Nat /\ h = s.sectors \div 2
    <3>1. Len(r) \in 0 .. Len(r)
      BY <2>6
    <3>2. s.sectors \div 2 \in Nat
      BY <2>1 DEF Section
    <3>. QED  BY <2>1, <2>6, <3>1, <3>2, KilobytesType
  <2>9. a <= b /\ Kilobytes(q, m) = b + h
    BY <2>3, <2>5, <2>8
  <2>10. ASSUME \A i, j \in 1 .. Len(t) : t[i].name = t[j].name => i = j, Kilobytes(t, Len(t)) <= a + h
         PROVE  FALSE
    <3>1. Kilobytes(t, Len(t)) \in Nat
      <4>1. Len(t) \in 0 .. Len(t)
        BY <2>7
      <4>. QED  BY <2>7, <4>1, KilobytesType
    <3>2. Kilobytes(t, Len(t)) <= Kilobytes(q, m)
      BY <2>8, <2>9, <2>10, <3>1
    <3>. QED  BY <1>3, <2>5, <2>7, <2>10, <3>2 DEF ReadBackWell, Read
  <2>11. CASE \E k \in 1 .. Len(r) : r[k].name = s.name
    <3>1. PICK j \in 1 .. Len(r) : r[j].name = s.name
      BY <2>11
    <3>2. Len(t) = Len(r) /\ \A i \in 1 .. Len(r) : t[i] = IF r[i].name = s.name THEN s ELSE r[i]
      BY <2>7, <2>11 DEF TitledAs
    <3>3. t[j] = s /\ \A i \in 1 .. Len(r) : i # j => t[i] = r[i]
      BY <2>3, <3>1, <3>2
    <3>4. \A i \in 1 .. Len(r) : t[i].name = r[i].name
      BY <3>2
    <3>5. \A i, k \in 1 .. Len(t) : t[i].name = t[k].name => i = k
      BY <2>3, <3>2, <3>4
    <3>6. Kilobytes(t, Len(r)) <= Kilobytes(r, Len(r)) + t[j].sectors \div 2
      <4>1. Len(r) \in 0 .. Len(r)
        BY <2>6
      <4>. QED  BY <2>6, <2>7, <3>2, <3>3, <4>1, KilobytesReplaced
    <3>7. Kilobytes(t, Len(t)) <= a + h
      BY <2>8, <3>2, <3>3, <3>6
    <3>. QED  BY <2>10, <3>5, <3>7
  <2>12. CASE ~ \E k \in 1 .. Len(r) : r[k].name = s.name
    <3>1. Len(t) = Len(r) + 1 /\ t[Len(r) + 1] = s /\ \A i \in 1 .. Len(r) : t[i] = r[i]
      BY <2>7, <2>12 DEF TitledAs
    <3>2. \A i, k \in 1 .. Len(t) : t[i].name = t[k].name => i = k
      <4>1. \A i \in 1 .. Len(t) : i \in 1 .. Len(r) \/ i = Len(r) + 1
        BY <2>6, <3>1
      <4>2. \A i \in 1 .. Len(r) : t[i].name # t[Len(r) + 1].name
        BY <2>12, <3>1
      <4>3. \A i, k \in 1 .. Len(r) : t[i].name = t[k].name => i = k
        BY <2>3, <3>1
      <4> SUFFICES ASSUME NEW i \in 1 .. Len(t), NEW k \in 1 .. Len(t), t[i].name = t[k].name PROVE i = k
        OBVIOUS
      <4>. QED  BY <4>1, <4>2, <4>3, Zenon
    <3>3. Kilobytes(t, Len(r)) = a
      BY <2>6, <2>8, <3>1, KilobytesLocal
    <3>4. PICK l \in Nat : l = Len(r) + 1 /\ l > 0 /\ l - 1 = Len(r)
      BY <2>6
    <3>5. Kilobytes(t, l) = Kilobytes(t, l - 1) + t[l].sectors \div 2
      BY <3>4, KilobytesStep
    <3>6. Kilobytes(t, Len(t)) <= a + h
      BY <2>8, <3>1, <3>3, <3>4, <3>5
    <3>. QED  BY <2>10, <3>2, <3>6
  <2>. QED  BY <2>11, <2>12
<1>. QED  BY <1>4, <1>5

-----------------------------------------------------------------------------
(***************************************************************************)
(* The partition list of a card.                                           *)
(***************************************************************************)
\* Who the boot files are, and what becomes of a section.
BootListed(p, o, image) ==
  /\ p.offset = o /\ p.size = 0 /\ p.align = 1 /\ p.inTable = FALSE /\ p.autoresize = FALSE
  /\ p.ptype = 0 /\ p.typeUuid = "none" /\ p.uuid = "none" /\ p.image = image

SectionListed(p, s) ==
  /\ p.offset = 0 /\ p.size = Bytes(s) /\ p.align = 512 /\ p.inTable = TRUE /\ p.autoresize = FALSE
  /\ p.ptype = (IF IsBootResource(s) THEN 12 ELSE 0) /\ p.typeUuid = "none" /\ p.uuid = "none"
  /\ p.image = ImageOf(s) /\ p.name = s.name

\* The fields of a partition in the configuration.
OptionAs(p, n, o, z, t, k, image) ==
  /\ p.offset = o /\ p.size = z /\ p.inTable = t /\ p.autoresize = FALSE /\ p.ptype = k
  /\ p.typeUuid = "none" /\ p.uuid = "none" /\ p.image = image /\ p.name = n
  /\ p.align = 0

\* What a partition of the generated configuration says.
LEMMA OptionFields ==
  ASSUME NEW n, NEW o, NEW z, NEW t, NEW k, NEW image
  PROVE  OptionAs(PartitionOption(n, o, z, t, k, image), n, o, z, t, k, image)
BY DEF PartitionOption, OptionAs

\* The title of a section is that of its partition.
LEMMA OptionTitles ==
  /\ BootPartitions[1].name = "boot0" /\ BootPartitions[2].name = "boot-packages"
  /\ \A s : PartitionOf(s).name = s.name
<1>1. BootPartitions[1].name = "boot0" /\ BootPartitions[2].name = "boot-packages"
  BY DEF BootPartitions, PartitionOption
<1>2. ASSUME NEW s PROVE PartitionOf(s).name = s.name
  BY DEF PartitionOf, PartitionOption
<1>. QED  BY <1>1, <1>2

\* The boot files lie behind the header of the GPT and behind its array, with room
\* between them, and every place is one of whole kilobytes.
LEMMA Places ==
  /\ GptLocationBytes \in Nat /\ Boot0Offset \in Nat /\ BootPackagesOffset \in Nat
  /\ Boot0Offset >= 2 * Sector /\ GptLocationBytes >= 2 * Sector
  /\ BootPackagesOffset >= GptLocationBytes + 16384
  /\ GptLocationBytes # 0 /\ Boot0Offset # 0 /\ BootPackagesOffset # 0
BY SMT DEF GptLocationBytes, Boot0Offset, BootPackagesOffset, Sector

\* The boot package has a size.
LEMMA PackageSized == SizeOf("boot_package.fex") \in Nat
<1>1. "boot_package.fex" \in Images
  BY FexesAssumption, Zenon
<1>2. SizeOf("boot_package.fex") \in 0 .. ULL - 1
  BY <1>1, ImagesAssumption DEF SizeOf
<1>. QED  BY <1>2, ULLAssumption

\* What is written of a table.
LEMMA WrittenOf ==
  ASSUME NEW f \in Fexes
  PROVE  /\ f \in Seq(Section) /\ WrittenSections(f) \in Seq(Section) /\ Len(WrittenSections(f)) \in Nat
         /\ DOMAIN WrittenSections(f) = 1 .. Len(WrittenSections(f))
         /\ \A i \in 1 .. Len(WrittenSections(f)) :
              LET s == WrittenSections(f)[i]
              IN  /\ s \in Section /\ ImageOf(s) \in Images /\ ImageOf(s) # NoImage
                  /\ SizeOf(ImageOf(s)) \in 0 .. ULL - 1 /\ Bytes(s) \in Nat /\ Bytes(s) % 512 = 0
                  /\ \E j \in DOMAIN f : s = f[j]
         /\ Kilobytes(WrittenSections(f), Len(WrittenSections(f))) <= Kilobytes(f, Len(f))
<1>1. f \in Seq(Section) /\ \A i \in DOMAIN f : f[i].name # "UDISK" => ImageOf(f[i]) \in Images
  BY FexesAssumption
<1>2. WrittenWell(f, Len(f))
  BY <1>1, WrittenSound
<1> DEFINE w == WrittenSections(f)
           Kept == {s \in Section : s.name # "UDISK" /\ \E i \in 1 .. Len(f) : s = f[i]}
<1>3. w \in Seq(Kept) /\ Kilobytes(w, Len(w)) <= Kilobytes(f, Len(f))
  BY <1>2 DEF WrittenWell, WrittenSections
<1> HIDE DEF w
<1>4. w \in Seq(Section) /\ Len(w) \in Nat /\ DOMAIN w = 1 .. Len(w) /\ \A i \in 1 .. Len(w) : w[i] \in Kept
  BY <1>3
<1>5. ASSUME NEW i \in 1 .. Len(w)
      PROVE  /\ w[i] \in Section /\ ImageOf(w[i]) \in Images /\ ImageOf(w[i]) # NoImage
             /\ SizeOf(ImageOf(w[i])) \in 0 .. ULL - 1 /\ Bytes(w[i]) \in Nat /\ Bytes(w[i]) % 512 = 0
             /\ \E j \in DOMAIN f : w[i] = f[j]
  <2>1. PICK j \in 1 .. Len(f) : w[i] = f[j]
    BY <1>4
  <2>2. w[i] \in Section /\ w[i].name # "UDISK"
    BY <1>4
  <2>3. j \in DOMAIN f
    BY <1>1, <2>1
  <2>4. ImageOf(w[i]) \in Images
    BY <1>1, <2>1, <2>2, <2>3
  <2>5. ImageOf(w[i]) # NoImage /\ SizeOf(ImageOf(w[i])) \in 0 .. ULL - 1
    BY <2>4, ImagesAssumption DEF SizeOf
  <2>6. PICK k \in Nat : k = w[i].sectors \div 2
    BY <2>2 DEF Section
  <2>7. k * 1024 \in Nat /\ (k * 1024) % 512 = 0
    OBVIOUS
  <2>8. Bytes(w[i]) = k * 1024
    BY <2>6 DEF Bytes
  <2>. QED  BY <2>1, <2>2, <2>3, <2>4, <2>5, <2>7, <2>8
<1>. QED  BY <1>1, <1>3, <1>4, <1>5 DEF w

\* What is kept of a table: some of its sections, the last of every name.
LEMMA KeptOf ==
  ASSUME NEW f \in Fexes
  PROVE  /\ f \in Seq(Section) /\ KeptSections(f) \in Seq(Section) /\ Len(KeptSections(f)) \in Nat
         /\ DOMAIN KeptSections(f) = 1 .. Len(KeptSections(f))
         /\ \A i \in 1 .. Len(KeptSections(f)) :
              LET s == KeptSections(f)[i]
              IN  /\ s \in Section /\ ImageOf(s) \in Images /\ ImageOf(s) # NoImage
                  /\ SizeOf(ImageOf(s)) \in 0 .. ULL - 1 /\ Bytes(s) \in Nat /\ Bytes(s) % 512 = 0
                  /\ \E j \in DOMAIN f : s = f[j]
                  /\ s.name # BackupName
         /\ Kilobytes(KeptSections(f), Len(KeptSections(f))) <= Kilobytes(f, Len(f))
<1> DEFINE w == WrittenSections(f)
           r == KeptSections(f)
           Own(s) == /\ s \in Section /\ ImageOf(s) \in Images /\ ImageOf(s) # NoImage
                     /\ SizeOf(ImageOf(s)) \in 0 .. ULL - 1 /\ Bytes(s) \in Nat /\ Bytes(s) % 512 = 0
                     /\ \E j \in DOMAIN f : s = f[j]
           Read == {s \in Section : \E i \in 1 .. Len(w) : s = w[i]}
<1>1. /\ f \in Seq(Section) /\ w \in Seq(Section) /\ Len(w) \in Nat
      /\ \A i \in 1 .. Len(w) : Own(w[i])
      /\ Kilobytes(w, Len(w)) <= Kilobytes(f, Len(f))
  BY WrittenOf
<1>2. ReadBackWell(w, Len(w))
  <2>1. Len(w) \in 0 .. Len(w)
    BY <1>1
  <2>. QED  BY <1>1, <2>1, ReadBackSound
<1>3. r \in Seq(Read) /\ Kilobytes(r, Len(r)) <= Kilobytes(w, Len(w))
  BY <1>2 DEF ReadBackWell, KeptSections
<1> HIDE DEF w, r, Own
<1>4. r \in Seq(Section) /\ Len(r) \in Nat /\ DOMAIN r = 1 .. Len(r) /\ \A i \in 1 .. Len(r) : r[i] \in Read
  BY <1>3
<1>5. \A i \in 1 .. Len(r) : Own(r[i])
  BY <1>1, <1>4
<1>6. ASSUME NEW i \in 1 .. Len(r) PROVE r[i].name # BackupName
  <2>1. PICK j \in DOMAIN f : r[i] = f[j]
    BY <1>5 DEF Own
  <2>. QED  BY <2>1, FexesAssumption, Zenon DEF BackupName
<1>7. Kilobytes(r, Len(r)) <= Kilobytes(f, Len(f))
  <2>1. Len(r) \in 0 .. Len(r) /\ Len(w) \in 0 .. Len(w) /\ Len(f) \in 0 .. Len(f)
    BY <1>1, <1>4
  <2>2. Kilobytes(r, Len(r)) \in Nat /\ Kilobytes(w, Len(w)) \in Nat /\ Kilobytes(f, Len(f)) \in Nat
    BY <1>1, <1>4, <2>1, KilobytesType
  <2>. QED  BY <1>1, <1>3, <2>2
<1>. QED  BY <1>1, <1>4, <1>5, <1>6, <1>7 DEF r, Own

\* The configuration made of a table without the titles of the boot files, and the
\* sections kept.
IsCard(c, f, w) ==
  f \in Fexes /\ c = HdimageSection(f) /\ w = KeptSections(f) /\ OwnNames(f)

CardSettled(c, f) ==
  /\ c \in Configs /\ c \in Config /\ ~OptionsRefused(c) /\ c.block = FALSE
  /\ ImageSizeOf(c) = 0 /\ TableType(c) # {} /\ "gpt" \in TableType(c)
  /\ TableType(c) = {"mbr", "gpt"} <=> BootResources(f) # {}
  /\ "mbr" \in TableType(c) <=> BootResources(f) # {}
  /\ ExtendedPartition(c) = 0 /\ GptLocation(c) = GptLocationBytes /\ ImageAlign(c) = 512

\* What the configuration of a card asks of hdimage_setup.
LEMMA CardConfig == ASSUME NEW f, NEW c, NEW w, IsCard(c, f, w) PROVE CardSettled(c, f)
<1> f \in Fexes /\ c = HdimageSection(f)
  BY DEF IsCard
<1>1. c \in Configs /\ c \in Config
  BY FexesAssumption, ConfigsAssumption
<1>2. /\ c.table = TableTypeOf(f) /\ c.ptOpt = "unset" /\ c.gptOpt = "unset" /\ c.align = 0 /\ c.ext = 0
      /\ c.sig = "none" /\ c.uuid = "none" /\ c.gptLoc = GptLocationBytes /\ c.block = FALSE /\ c.size = 0
  BY DEF HdimageSection
<1>3. c.table = IF BootResources(f) # {} THEN "hybrid" ELSE "gpt"
  BY <1>2 DEF TableTypeOf, BootResources
<1>4. TableType(c) = TableTypes[c.table]
  BY <1>2 DEF TableType
<1>5. TableType(c) = IF BootResources(f) # {} THEN {"mbr", "gpt"} ELSE {"gpt"}
  BY <1>3, <1>4 DEF TableTypes
<1>6. TableType(c) # {} /\ "gpt" \in TableType(c) /\ TableType(c) # {"mbr"}
  BY <1>5
<1>7. ImageAlign(c) = 512 /\ ExtendedPartition(c) = 0 /\ GptLocation(c) = GptLocationBytes /\ ImageSizeOf(c) = 0
  <2>1. ImageAlign(c) = 512
    BY <1>2, <1>6 DEF ImageAlign, Sector
  <2>2. ExtendedPartition(c) = 0
    BY <1>2, <1>6 DEF ExtendedPartition
  <2>3. GptLocation(c) = GptLocationBytes
    BY <1>2, Places DEF GptLocation
  <2>4. ImageSizeOf(c) = 0
    BY <1>2 DEF ImageSizeOf
  <2>. QED  BY <2>1, <2>2, <2>3, <2>4
<1>8. ~OptionsRefused(c)
  <2>1. c.table \in DOMAIN TableTypes
    BY <1>3 DEF TableTypes
  <2>2. 512 % Sector = 0
    BY DEF Sector
  <2>. QED  BY <1>2, <1>7, <2>1, <2>2, SMT DEF OptionsRefused
<1>9. /\ TableType(c) = {"mbr", "gpt"} <=> BootResources(f) # {}
      /\ "mbr" \in TableType(c) <=> BootResources(f) # {}
  <2>1. "mbr" \notin {"gpt"} /\ "mbr" \in {"mbr", "gpt"}
    OBVIOUS
  <2>. QED  BY <1>5, <2>1, Zenon
<1>. QED  BY <1>1, <1>2, <1>6, <1>7, <1>8, <1>9 DEF CardSettled

\* The partitions of the sections k, behind those of the boot files.
BesideBoot(v, k) ==
  /\ Len(v) = Len(k) + 2 /\ v[1] = BootPartitions[1] /\ v[2] = BootPartitions[2]
  /\ \A i \in 1 .. Len(k) : v[i + 2] = PartitionOf(k[i])

CardOptions == {PartitionOf(s) : s \in Section} \cup {BootPartitions[1], BootPartitions[2]}

\* A section of another title than the boot files stays behind them.
LEMMA TitledBeside ==
  ASSUME NEW k \in Seq(Section), NEW v \in Seq(CardOptions), BesideBoot(v, k),
         NEW s \in Section, s.name # "boot0", s.name # "boot-packages"
  PROVE  BesideBoot(Titled(v, PartitionOf(s)), Titled(k, s))
<1>1. PICK p : p = PartitionOf(s)
  OBVIOUS
<1>2. p \in CardOptions /\ p.name = s.name
  BY <1>1, OptionTitles DEF CardOptions
<1>3. PICK u, l : u = Titled(v, p) /\ l = Titled(k, s)
  OBVIOUS
<1>4. TitledAs(v, p, u) /\ TitledAs(k, s, l)
  BY <1>2, <1>3, TitledElements
<1>5. /\ Len(k) \in Nat /\ Len(v) = Len(k) + 2 /\ v[1] = BootPartitions[1] /\ v[2] = BootPartitions[2]
      /\ \A i \in 1 .. Len(k) : v[i + 2] = PartitionOf(k[i])
  BY DEF BesideBoot
<1>6. /\ v[1].name # p.name /\ v[2].name # p.name
      /\ \A i \in 1 .. Len(k) : v[i + 2].name = k[i].name
  BY <1>2, <1>5, OptionTitles
<1>7. \A i \in 1 .. Len(v) : i = 1 \/ i = 2 \/ (i - 2 \in 1 .. Len(k) /\ (i - 2) + 2 = i)
  BY <1>5
<1>8. \A i \in 1 .. Len(k) : i + 2 \in 1 .. Len(v)
  BY <1>5
<1>9. 1 \in 1 .. Len(v) /\ 2 \in 1 .. Len(v)
  BY <1>5
<1>10. CASE \E i \in 1 .. Len(k) : k[i].name = s.name
  <2>1. \E i \in 1 .. Len(v) : v[i].name = p.name
    BY <1>2, <1>6, <1>8, <1>10
  <2>2. Len(u) = Len(v) /\ \A i \in 1 .. Len(v) : u[i] = IF v[i].name = p.name THEN p ELSE v[i]
    BY <1>4, <2>1, Zenon DEF TitledAs
  <2>3. Len(l) = Len(k) /\ \A i \in 1 .. Len(k) : l[i] = IF k[i].name = s.name THEN s ELSE k[i]
    BY <1>4, <1>10, Zenon DEF TitledAs
  <2>4. u[1] = BootPartitions[1] /\ u[2] = BootPartitions[2]
    BY <1>5, <1>6, <1>9, <2>2, Zenon
  <2>5. ASSUME NEW i \in 1 .. Len(k) PROVE u[i + 2] = PartitionOf(l[i])
    <3>1. u[i + 2] = IF v[i + 2].name = p.name THEN p ELSE v[i + 2]
      BY <1>8, <2>2
    <3>2. l[i] = IF k[i].name = s.name THEN s ELSE k[i]
      BY <2>3
    <3>. QED  BY <1>1, <1>2, <1>5, <1>6, <3>1, <3>2, Zenon
  <2>6. Len(u) = Len(l) + 2 /\ \A i \in 1 .. Len(l) : u[i + 2] = PartitionOf(l[i])
    BY <1>5, <2>2, <2>3, <2>5
  <2>. QED  BY <1>1, <1>3, <2>4, <2>6, Zenon DEF BesideBoot
<1>11. CASE ~ \E i \in 1 .. Len(k) : k[i].name = s.name
  <2>1. ~ \E i \in 1 .. Len(v) : v[i].name = p.name
    BY <1>2, <1>6, <1>7, <1>11
  <2>2. Len(u) = Len(v) + 1 /\ u[Len(v) + 1] = p /\ \A i \in 1 .. Len(v) : u[i] = v[i]
    BY <1>4, <2>1, Zenon DEF TitledAs
  <2>3. Len(l) = Len(k) + 1 /\ l[Len(k) + 1] = s /\ \A i \in 1 .. Len(k) : l[i] = k[i]
    BY <1>4, <1>11, Zenon DEF TitledAs
  <2>4. u[1] = BootPartitions[1] /\ u[2] = BootPartitions[2]
    BY <1>5, <1>9, <2>2, Zenon
  <2>5. ASSUME NEW i \in 1 .. Len(l) PROVE u[i + 2] = PartitionOf(l[i])
    <3>1. CASE i \in 1 .. Len(k)
      BY <1>5, <1>8, <2>2, <2>3, <3>1
    <3>2. CASE i = Len(k) + 1
      <4>1. i + 2 = Len(v) + 1
        BY <1>5, <3>2
      <4>. QED  BY <1>1, <2>2, <2>3, <3>2, <4>1
    <3>. QED  BY <1>5, <2>3, <3>1, <3>2
  <2>6. Len(u) = Len(l) + 2
    BY <1>5, <2>2, <2>3
  <2>. QED  BY <1>1, <1>3, <2>4, <2>5, <2>6, Zenon DEF BesideBoot
<1>. QED  BY <1>10, <1>11

\* The sections written follow those of the boot files.
LEMMA WrittenParts ==
  ASSUME NEW f \in Fexes, NEW w, w = WrittenSections(f)
  PROVE  /\ PartitionSections(f) \in Seq(CardOptions)
         /\ BesideBoot(PartitionSections(f), w)
<1>2. w \in Seq(Section) /\ Len(w) \in Nat /\ DOMAIN w = 1 .. Len(w)
  BY WrittenOf
<1> DEFINE q == [i \in 1 .. Len(w) |-> PartitionOf(w[i])]
<1>3. q \in Seq(CardOptions) /\ Len(q) = Len(w) /\ \A i \in 1 .. Len(w) : q[i] = PartitionOf(w[i])
  <2>1. q \in [1 .. Len(w) -> CardOptions]
    BY <1>2 DEF CardOptions
  <2>2. \A k \in Nat : \A g \in [1 .. k -> CardOptions] : g \in Seq(CardOptions) /\ Len(g) = k
    OBVIOUS
  <2>. QED  BY <1>2, <2>1, <2>2
<1>4. BootPartitions \in Seq(CardOptions) /\ Len(BootPartitions) = 2
  <2>1. PICK a, b : BootPartitions = <<a, b>>
    BY DEF BootPartitions
  <2>2. BootPartitions[1] = a /\ BootPartitions[2] = b /\ Len(BootPartitions) = 2
    BY <2>1
  <2>3. a \in CardOptions /\ b \in CardOptions
    BY <2>2 DEF CardOptions
  <2>. QED  BY <2>1, <2>2, <2>3
<1>5. PartitionSections(f) = BootPartitions \o q
  BY <1>2 DEF PartitionSections
<1> HIDE DEF q
<1>6. PICK b : b = BootPartitions
  OBVIOUS
<1>7. b \in Seq(CardOptions) /\ Len(b) = 2 /\ b \o q \in Seq(CardOptions)
  BY <1>3, <1>4, <1>6
<1>8. /\ Len(b \o q) = Len(b) + Len(q)
      /\ \A i \in 1 .. Len(b) + Len(q) : (b \o q)[i] = IF i <= Len(b) THEN b[i] ELSE q[i - Len(b)]
  <2>1. b \in Seq(CardOptions) /\ q \in Seq(CardOptions)
    BY <1>3, <1>7
  <2>. QED  BY <2>1, ConcatProperties
<1>9. /\ Len(b \o q) = Len(w) + 2
      /\ \A i \in 1 .. Len(w) + 2 : (b \o q)[i] = IF i <= 2 THEN b[i] ELSE q[i - 2]
  BY <1>2, <1>3, <1>7, <1>8
<1>10. (b \o q)[1] = b[1] /\ (b \o q)[2] = b[2]
  BY <1>2, <1>9
<1>11. ASSUME NEW i \in 1 .. Len(w) PROVE (b \o q)[i + 2] = PartitionOf(w[i])
  <2>1. i + 2 \in 1 .. Len(w) + 2 /\ ~(i + 2 <= 2) /\ (i + 2) - 2 = i
    BY <1>2
  <2>2. (b \o q)[i + 2] = q[(i + 2) - 2]
    BY <1>9, <2>1
  <2>. QED  BY <1>3, <2>1, <2>2
<1>. QED  BY <1>5, <1>6, <1>7, <1>9, <1>10, <1>11 DEF BesideBoot

\* Reading the file back keeps them there: by least counterexample over the sections.
LEMMA ReadBeside ==
  ASSUME NEW f \in Fexes, OwnNames(f), NEW w, w = WrittenSections(f), NEW n \in 0 .. Len(w)
  PROVE  /\ ReadBack(PartitionSections(f), n + 2) \in Seq(CardOptions)
         /\ ReadBack(w, n) \in Seq(Section)
         /\ BesideBoot(ReadBack(PartitionSections(f), n + 2), ReadBack(w, n))
<1>1. PICK p : p = PartitionSections(f)
  OBVIOUS
<1>2. /\ p \in Seq(CardOptions) /\ Len(p) = Len(w) + 2 /\ p[1] = BootPartitions[1]
      /\ p[2] = BootPartitions[2] /\ \A i \in 1 .. Len(w) : p[i + 2] = PartitionOf(w[i])
  BY <1>1, WrittenParts DEF BesideBoot
<1>3. /\ w \in Seq(Section) /\ Len(w) \in Nat
      /\ \A i \in 1 .. Len(w) : w[i] \in Section /\ \E j \in DOMAIN f : w[i] = f[j]
  BY WrittenOf
<1> DEFINE Good(k) == /\ ReadBack(p, k + 2) \in Seq(CardOptions) /\ ReadBack(w, k) \in Seq(Section)
                      /\ BesideBoot(ReadBack(p, k + 2), ReadBack(w, k))
           Bad == {k \in 0 .. Len(w) : ~Good(k)}
<1>4. SUFFICES ASSUME Bad # {} PROVE FALSE
  BY <1>1
<1>5. PICK m \in Bad : \A k \in Bad : m <= k
  <2>1. Bad \in SUBSET Nat
    OBVIOUS
  <2>. QED  BY <1>4, <2>1, LeastOf
<1>6. m \in 0 .. Len(w) /\ m \in Nat /\ ~Good(m)
  OBVIOUS
<1>7. CASE m = 0
  <2>1. PICK a, b, c : a = BootPartitions[1] /\ b = BootPartitions[2] /\ c = Titled(<< >>, a)
    OBVIOUS
  <2>2. a \in CardOptions /\ b \in CardOptions /\ a.name # b.name
    BY <2>1, OptionTitles DEF CardOptions
  <2>3. c \in Seq(CardOptions) /\ Len(c) = 1 /\ c[1] = a
    <3>1. << >> \in Seq(CardOptions) /\ Len(<< >>) = 0
      OBVIOUS
    <3>2. c \in Seq(CardOptions) /\ TitledAs(<< >>, a, c)
      BY <2>1, <2>2, <3>1, TitledElements
    <3>. QED  BY <3>1, <3>2 DEF TitledAs
  <2>4. PICK d : d = Titled(c, b)
    OBVIOUS
  <2>5. d \in Seq(CardOptions) /\ Len(d) = 2 /\ d[1] = a /\ d[2] = b
    <3>1. d \in Seq(CardOptions) /\ TitledAs(c, b, d)
      BY <2>2, <2>3, <2>4, TitledElements
    <3>2. \A k \in 1 .. Len(c) : k = 1 /\ c[k].name # b.name
      BY <2>2, <2>3
    <3>3. 1 \in 1 .. Len(c)
      BY <2>3
    <3>. QED  BY <2>3, <3>1, <3>2, <3>3 DEF TitledAs
  <2>6. ReadBack(p, 0) = << >> /\ ReadBack(p, 1) = Titled(<< >>, p[1])
    <3>1. 1 \in Nat /\ 1 > 0 /\ 1 - 1 = 0
      OBVIOUS
    <3>2. ReadBack(p, 1) = Titled(ReadBack(p, 1 - 1), p[1]) /\ ReadBack(p, 0) = << >>
      BY <3>1, ReadBackStep
    <3>. QED  BY <3>1, <3>2
  <2>7. ReadBack(p, 2) = d
    <3>1. 2 \in Nat /\ 2 > 0 /\ 2 - 1 = 1
      OBVIOUS
    <3>2. ReadBack(p, 2) = Titled(ReadBack(p, 2 - 1), p[2])
      BY <3>1, ReadBackStep
    <3>. QED  BY <1>2, <2>1, <2>4, <2>6, <3>1, <3>2
  <2>8. ReadBack(w, 0) = << >> /\ Len(<< >>) = 0 /\ << >> \in Seq(Section)
    BY ReadBackStep
  <2>9. BesideBoot(d, << >>)
    BY <2>1, <2>5, <2>8 DEF BesideBoot
  <2>10. m + 2 = 2
    BY <1>7
  <2>. QED  BY <1>6, <1>7, <2>5, <2>7, <2>8, <2>9, <2>10
<1>8. CASE m # 0
  <2>1. m - 1 \in Nat /\ m - 1 \in 0 .. Len(w) /\ m > 0 /\ m \in 1 .. Len(w) /\ ~(m <= m - 1)
    BY <1>3, <1>6, <1>8
  <2>2. Good(m - 1)
    BY <1>5, <2>1
  <2>3. PICK v, k, s : v = ReadBack(p, (m - 1) + 2) /\ k = ReadBack(w, m - 1) /\ s = w[m]
    OBVIOUS
  <2>4. v \in Seq(CardOptions) /\ k \in Seq(Section) /\ BesideBoot(v, k)
    BY <2>2, <2>3
  <2>5. s \in Section /\ s.name # "boot0" /\ s.name # "boot-packages"
    <3>1. s \in Section /\ \E j \in DOMAIN f : s = f[j]
      BY <1>3, <2>1, <2>3
    <3>. QED  BY <3>1, Zenon DEF OwnNames
  <2>6. ReadBack(p, m + 2) = Titled(v, PartitionOf(s))
    <3>1. PICK l \in Nat : l = m + 2 /\ l > 0 /\ l - 1 = (m - 1) + 2
      BY <1>6
    <3>2. ReadBack(p, l) = Titled(ReadBack(p, l - 1), p[l])
      BY <3>1, ReadBackStep
    <3>3. p[l] = PartitionOf(s)
      BY <1>2, <2>1, <2>3, <3>1
    <3>. QED  BY <2>3, <3>1, <3>2, <3>3
  <2>7. ReadBack(w, m) = Titled(k, s)
    BY <1>6, <2>1, <2>3, ReadBackStep
  <2>8. Titled(v, PartitionOf(s)) \in Seq(CardOptions) /\ Titled(k, s) \in Seq(Section)
    <3>1. PICK o : o = PartitionOf(s)
      OBVIOUS
    <3>2. o \in CardOptions
      BY <2>5, <3>1 DEF CardOptions
    <3>. QED  BY <2>4, <2>5, <3>1, <3>2, TitledElements
  <2>9. BesideBoot(Titled(v, PartitionOf(s)), Titled(k, s))
    BY <2>4, <2>5, TitledBeside
  <2>. QED  BY <1>6, <2>6, <2>7, <2>8, <2>9
<1>. QED  BY <1>7, <1>8

\* Its partitions.
LEMMA CardParts ==
  ASSUME NEW f, NEW c, NEW w, IsCard(c, f, w)
  PROVE  /\ Len(c.parts) = Len(w) + 2
         /\ c.parts[1] = BootPartitions[1] /\ c.parts[2] = BootPartitions[2]
         /\ \A i \in 1 .. Len(w) : c.parts[i + 2] = PartitionOf(w[i])
<1>1. PICK u : u = WrittenSections(f)
  OBVIOUS
<1>2. f \in Fexes /\ OwnNames(f) /\ w = ReadBack(u, Len(u))
  BY <1>1 DEF IsCard, KeptSections
<1>3. Len(u) \in Nat /\ Len(u) \in 0 .. Len(u)
  BY <1>1, <1>2, WrittenOf
<1>4. BesideBoot(ReadBack(PartitionSections(f), Len(u) + 2), w)
  BY <1>1, <1>2, <1>3, ReadBeside
<1>5. Len(PartitionSections(f)) = Len(u) + 2
  BY <1>1, <1>2, WrittenParts DEF BesideBoot
<1>6. c.parts = ReadBack(PartitionSections(f), Len(PartitionSections(f)))
  BY DEF IsCard, HdimageSection
<1>. QED  BY <1>4, <1>5, <1>6 DEF BesideBoot

\* What preparing leaves of a partition where there is a table.
PreparedAs(q, p, a) ==
  /\ q.offset = p.offset /\ q.size = p.size /\ q.inTable = p.inTable
  /\ q.autoresize = p.autoresize /\ q.ptype = p.ptype /\ q.typeUuid = p.typeUuid
  /\ q.uuid = p.uuid /\ q.image = p.image /\ q.name = p.name
  /\ q.align = IF p.align # 0 THEN p.align ELSE IF p.inTable THEN a ELSE 1

\* Preparing a partition gives it an alignment and leaves the rest.
LEMMA PreparedFields ==
  ASSUME NEW c \in Config, NEW p \in Partition, TableType(c) # {}
  PROVE  PreparedAs(Prepared(p, c), p, ImageAlign(c))
<1>0. PICK q : q = Prepared(p, c)
  OBVIOUS
<1>1. PICK a : a = IF p.align # 0 THEN p.align ELSE IF p.inTable THEN ImageAlign(c) ELSE 1
  OBVIOUS
<1>2. q = [p EXCEPT !.inTable = p.inTable, !.align = a]
  BY <1>0, <1>1, Zenon DEF Prepared
<1>3. p.inTable \in BOOLEAN /\ \A t : [p EXCEPT !.inTable = t, !.align = a].align = a
  BY DEF Partition
<1>4. PICK t : t = p.inTable
  OBVIOUS
<1>5. q = [p EXCEPT !.inTable = t, !.align = a]
  BY <1>2, <1>4
<1>6. PreparedAs(q, p, ImageAlign(c))
  BY <1>1, <1>4, <1>5 DEF Partition, PreparedAs
<1>. QED  BY <1>0, <1>6

\* The list hdimage_setup goes through.
LEMMA CardListed ==
  ASSUME NEW f, NEW c, NEW w, IsCard(c, f, w)
  PROVE  /\ Len(Listed(c)) = Len(w) + 6 /\ Listed(c) \in Seq(Partition)
         /\ BootListed(Listed(c)[1], Boot0Offset, "boot0_sdcard.fex")
         /\ BootListed(Listed(c)[2], BootPackagesOffset, "boot_package.fex")
         /\ \A i \in 1 .. Len(w) : SectionListed(Listed(c)[i + 2], w[i])
         /\ AreasListed(c, Len(w) + 2)
<1>0. CardSettled(c, f)
  BY CardConfig
<1>1. /\ c \in Config /\ TableType(c) # {} /\ "gpt" \in TableType(c) /\ ImageAlign(c) = 512
      /\ ImageSizeOf(c) = 0
  BY <1>0 DEF CardSettled
<1>2. /\ Len(c.parts) = Len(w) + 2 /\ Len(w) \in Nat
      /\ c.parts[1] = BootPartitions[1] /\ c.parts[2] = BootPartitions[2]
      /\ \A i \in 1 .. Len(w) : c.parts[i + 2] = PartitionOf(w[i])
  <2>1. f \in Fexes /\ w = KeptSections(f)
    BY DEF IsCard
  <2>2. Len(w) \in Nat
    BY <2>1, KeptOf, Zenon
  <2>. QED  BY <2>2, CardParts
<1>3. AreasListed(c, Len(w) + 2)
  <2>1. AreasListed(c, Len(c.parts))
    BY <1>1, ListedAreas
  <2>. QED  BY <1>2, <2>1
<1>4. Len(Listed(c)) = Len(w) + 6
  BY <1>1, <1>2, <1>3 DEF AreasListed
<1>5. Listed(c) \in Seq(Partition) /\ \A i \in 1 .. Len(w) + 2 : Listed(c)[i] = Prepared(c.parts[i], c)
  <2>1. /\ Listed(c) \in Seq(Partition)
        /\ \A i \in 1 .. Len(Listed(c)) :
              Listed(c)[i] = IF i <= Len(c.parts) THEN Prepared(c.parts[i], c)
                             ELSE TableAreas(c, ImageSizeOf(c))[i - Len(c.parts)]
    BY <1>1, ListedElements
  <2>2. ASSUME NEW i \in 1 .. Len(w) + 2 PROVE Listed(c)[i] = Prepared(c.parts[i], c)
    <3>1. i \in 1 .. Len(Listed(c)) /\ i <= Len(c.parts)
      BY <1>2, <1>4
    <3>. QED  BY <2>1, <3>1
  <2>. QED  BY <2>1, <2>2
<1>6. Listed(c)[1] = Prepared(BootPartitions[1], c) /\ Listed(c)[2] = Prepared(BootPartitions[2], c)
  BY <1>2, <1>5
<1>7. ASSUME NEW t, NEW o, NEW image, NEW p \in Partition, p = PartitionOption(t, o, 0, FALSE, 0, image)
      PROVE  BootListed(Prepared(p, c), o, image)
  <2>1. PICK q : q = Prepared(p, c)
    OBVIOUS
  <2>2. OptionAs(p, t, o, 0, FALSE, 0, image)
    BY <1>7, OptionFields
  <2>3. PreparedAs(q, p, ImageAlign(c))
    BY <1>1, <1>7, <2>1, PreparedFields
  <2>4. BootListed(q, o, image)
    BY <2>2, <2>3 DEF BootListed, PreparedAs, OptionAs
  <2>. QED  BY <2>1, <2>4
<1>8. /\ BootPartitions[1] = PartitionOption("boot0", Boot0Offset, 0, FALSE, 0, "boot0_sdcard.fex")
      /\ BootPartitions[2] = PartitionOption("boot-packages", BootPackagesOffset, 0, FALSE, 0, "boot_package.fex")
  BY DEF BootPartitions
<1>10. \A i \in 1 .. Len(c.parts) : c.parts[i] \in Partition
  BY <1>1 DEF Config
<1>11. /\ BootListed(Listed(c)[1], Boot0Offset, "boot0_sdcard.fex")
       /\ BootListed(Listed(c)[2], BootPackagesOffset, "boot_package.fex")
  <2>1. BootPartitions[1] \in Partition /\ BootPartitions[2] \in Partition
    <3>1. 1 \in 1 .. Len(c.parts) /\ 2 \in 1 .. Len(c.parts)
      BY <1>2
    <3>. QED  BY <1>2, <1>10, <3>1
  <2>. QED  BY <1>6, <1>7, <1>8, <2>1
<1>9. ASSUME NEW i \in 1 .. Len(w) PROVE SectionListed(Listed(c)[i + 2], w[i])
  <2>1. Listed(c)[i + 2] = Prepared(PartitionOf(w[i]), c)
    <3>1. i + 2 \in 1 .. Len(w) + 2
      BY <1>2
    <3>. QED  BY <1>2, <1>5, <3>1
  <2>2. PICK p, q : p = PartitionOf(w[i]) /\ q = Prepared(p, c)
    OBVIOUS
  <2>3. p \in Partition
    <3>1. i + 2 \in 1 .. Len(c.parts) /\ p = c.parts[i + 2]
      BY <1>2, <2>2
    <3>. QED  BY <1>10, <3>1
  <2>4. p = PartitionOption(w[i].name, 0, Bytes(w[i]), TRUE, IF IsBootResource(w[i]) THEN 12 ELSE 0,
                            ImageOf(w[i]))
    BY <2>2, Zenon DEF PartitionOf, ImageOf
  <2>5. OptionAs(p, w[i].name, 0, Bytes(w[i]), TRUE, IF IsBootResource(w[i]) THEN 12 ELSE 0,
                 ImageOf(w[i]))
    BY <2>4, OptionFields
  <2>6. PreparedAs(q, p, 512)
    BY <1>1, <2>2, <2>3, PreparedFields
  <2>7. SectionListed(q, w[i])
    BY <2>5, <2>6 DEF SectionListed, PreparedAs, OptionAs
  <2>. QED  BY <2>1, <2>2, <2>7
<1>. QED  BY <1>3, <1>4, <1>5, <1>9, <1>11

-----------------------------------------------------------------------------
(***************************************************************************)
(* The layout of a card as far as it has come.                             *)
(***************************************************************************)
\* Rounding up to sectors, as the program does it and as it is meant.
LEMMA ToSectorBounds ==
  ASSUME NEW v \in Nat
  PROVE  /\ ToSector(v) \in Nat /\ ToSector(v) % 512 = 0
         /\ v <= ToSector(v) /\ ToSector(v) < v + 512
         /\ v % 512 = 0 => ToSector(v) = v
<1>1. PICK q \in Nat : q = (v + 511) \div 512
  OBVIOUS
<1>2. q * 512 <= v + 511 /\ v + 511 < q * 512 + 512
  BY <1>1
<1>3. ToSector(v) = q * 512
  BY <1>1 DEF ToSector, Sector
<1>4. (q * 512) % 512 = 0
  OBVIOUS
<1>. QED  BY <1>2, <1>3, <1>4

\* Where nothing wraps the two agree, also at zero, where the program wraps twice.
LEMMA RoundsToSector ==
  ASSUME NEW v \in Nat, v + 512 < ULL PROVE RoundUp(v, 512) = ToSector(v)
<1>0. ULL \in Nat /\ ULL % 512 = 0 /\ ULL > 65536
  BY ULLAssumption, WidthAssumption DEF Sector
<1>1. CASE v = 0
  <2>1. PICK q \in Nat : ULL = q * 512
    <3>1. ULL = (ULL \div 512) * 512 /\ ULL \div 512 \in Nat
      BY <1>0
    <3>. QED  BY <3>1
  <2>2. Minus(v, 1) = ULL - 1
    BY <1>0, <1>1 DEF Minus
  <2>3. (ULL - 1) \div 512 = q - 1
    BY <1>0, <2>1
  <2>4. RoundUp(v, 512) = (q * 512) % ULL
    BY <2>1, <2>2, <2>3 DEF RoundUp
  <2>5. ULL % ULL = 0
    BY <1>0
  <2>6. ToSector(v) = 0
    BY <1>1 DEF ToSector, Sector
  <2>. QED  BY <2>1, <2>4, <2>5, <2>6
<1>2. CASE v > 0
  <2>1. Minus(v, 1) = v - 1
    BY <1>0, <1>2 DEF Minus
  <2>2. PICK q \in Nat : q = (v - 1) \div 512
    BY <1>2
  <2>3. (v + 511) \div 512 = q + 1
    BY <1>2, <2>2
  <2>4. PICK k \in Nat : k = (q + 1) * 512
    OBVIOUS
  <2>5. k < ULL
    BY <1>0, <1>2, <2>2, <2>4
  <2>6. RoundUp(v, 512) = k % ULL
    BY <2>1, <2>2, <2>4 DEF RoundUp
  <2>7. ToSector(v) = k
    BY <2>3, <2>4 DEF ToSector, Sector
  <2>8. k % ULL = k
    BY <1>0, <2>5
  <2>. QED  BY <2>6, <2>7, <2>8
<1>. QED  BY <1>1, <1>2

\* The sections that are partitions of the card.
Kept == KeptSections(fex)

\* Where the first of them starts.
CardFirst == ToSector(BootPackagesOffset + SizeOf("boot_package.fex"))

\* Section i lies where the table wants it.
SectionPlaced(i) ==
  /\ parts[i + 2].size = SpaceOf(Kept[i]) /\ parts[i + 2].size # 0
  /\ SizeOf(ImageOf(Kept[i])) <= parts[i + 2].size
  /\ parts[i + 2].offset = IF i = 1 THEN CardFirst ELSE End(parts[i + 1])
  /\ End(parts[i + 2]) % 512 = 0 /\ BootPackagesOffset <= parts[i + 2].offset

\* The boot resources among the first k sections.
BootCount(k) == Cardinality({i \in DOMAIN Kept : i <= k /\ IsBootResource(Kept[i])})

\* What is placed, and where the used space ends.
CardPlaced ==
  /\ hd.ext = 0
  /\ idx <= 2 => now = GptLocationBytes + 16384
  /\ 1 \in Done => parts[1].offset = Boot0Offset /\ parts[1].size = SizeOf("boot0_sdcard.fex")
  /\ 2 \in Done => /\ parts[2].offset = BootPackagesOffset
                   /\ parts[2].size = SizeOf("boot_package.fex")
  /\ \A i \in 1 .. Len(Kept) : i + 2 \in Done => SectionPlaced(i)
  /\ idx > 2 /\ idx <= Len(Kept) + 6 => now = End(parts[MinOf(idx - 1, Len(Kept) + 2)])
  /\ idx > Len(Kept) + 6 => now <= End(parts[Len(Kept) + 2]) + BackupSize + 4096

CardInv ==
  /\ fex \in Fexes /\ cfg = HdimageSection(fex) /\ OwnNames(fex)
  /\ Settled => CardPlaced
  /\ hybridEntries = BootCount(idx - 3)
  /\ ret = "ok" => /\ Settled /\ idx = Len(Kept) + 7 /\ size = now /\ hybridEntries <= 3
                   /\ BootResources(fex) # {} => hybridEntries # 0
  /\ ret = "einval" => Unfit(fex)
  /\ pc = "done" => ret # "none"

\* The table areas ask for nothing.
LEMMA AreasPlain ==
  ASSUME NEW c \in Config, TableType(c) # {}, "gpt" \in TableType(c), NEW n \in Nat, n = Len(c.parts),
         NEW k \in 1 .. 4
  PROVE  /\ Listed(c)[n + k].ptype = 0 /\ Listed(c)[n + k].typeUuid = "none"
         /\ Listed(c)[n + k].uuid = "none"
<1>1. ImageSizeOf(c) \in Nat
  BY DEF Config, ImageSizeOf
<1>2. PICK t : t = TableAreas(c, ImageSizeOf(c))
  OBVIOUS
<1>3. /\ Len(t) = 4 /\ t[1] = MbrArea /\ t[2] = FakePartition(HeaderName, Sector, Sector)
      /\ t[3] = FakePartition(ArrayName, GptLocation(c), (GptSectors - 1) * Sector)
      /\ t[4] = FakePartition(BackupName, BackupStart(c), BackupSize)
  BY <1>1, <1>2, GptAreasList, Zenon DEF BackupStart
<1>4. MbrArea = FakePartition(MbrName, Sector - MbrTail, MbrTail)
  BY Zenon DEF MbrArea, MbrName
<1>5. \A name, o, z : /\ FakePartition(name, o, z).ptype = 0 /\ FakePartition(name, o, z).typeUuid = "none"
                      /\ FakePartition(name, o, z).uuid = "none"
  BY DEF FakePartition
<1>6. /\ t[k].ptype = 0 /\ t[k].typeUuid = "none" /\ t[k].uuid = "none"
  <2>1. k = 1 \/ k = 2 \/ k = 3 \/ k = 4
    OBVIOUS
  <2>. QED  BY <1>3, <1>4, <1>5, <2>1
<1>7. Listed(c)[n + k] = t[k]
  <2>1. /\ Len(Listed(c)) = n + Len(t)
        /\ \A i \in 1 .. Len(Listed(c)) :
             Listed(c)[i] = IF i <= n THEN Prepared(c.parts[i], c) ELSE t[i - n]
    BY <1>2, ListedElements
  <2>2. n + k \in 1 .. Len(Listed(c)) /\ ~(n + k <= n) /\ (n + k) - n = k
    BY <1>3, <2>1
  <2>3. Listed(c)[n + k] = t[(n + k) - n]
    BY <2>1, <2>2
  <2>. QED  BY <2>2, <2>3
<1>. QED  BY <1>6, <1>7

\* Once the options are settled.
LEMMA CardSettles ==
  ASSUME NEW M \in Nat, Fits(M), HdInv(M), CardInv, Settled
  PROVE  /\ TypeInv /\ ListInv /\ SpaceInv(M) /\ CardPlaced
         /\ CardSettled(cfg, fex) /\ IsCard(cfg, fex, Kept)
         /\ Len(Kept) \in Nat /\ Len(cfg.parts) = Len(Kept) + 2 /\ Len(parts) = Len(Kept) + 6
         /\ hd.table = TableType(cfg) /\ "gpt" \in hd.table /\ hd.ext = 0
<1>1. TypeInv /\ ListInv /\ SpaceInv(M) /\ CardPlaced
  BY DEF HdInv, CardInv
<1>2. IsCard(cfg, fex, Kept) /\ fex \in Fexes
  BY DEF CardInv, IsCard, Kept
<1>3. CardSettled(cfg, fex)
  BY <1>2, CardConfig
<1>4. Len(Kept) \in Nat
  BY <1>2, KeptOf DEF Kept
<1>5. Len(cfg.parts) = Len(Kept) + 2
  BY <1>2, CardParts
<1>6. Len(Listed(cfg)) = Len(Kept) + 6
  BY <1>2, CardListed
<1>7. Len(parts) = Len(Listed(cfg)) /\ hd.table = TableType(cfg)
  BY <1>1 DEF ListInv
<1>8. "gpt" \in TableType(cfg) /\ hd.ext = 0
  BY <1>1, <1>3 DEF CardSettled, CardPlaced
<1>. QED  BY <1>1, <1>2, <1>3, <1>4, <1>5, <1>6, <1>7, <1>8

-----------------------------------------------------------------------------
(***************************************************************************)
(* The turns of the loop of hdimage_setup.                                 *)
(***************************************************************************)
\* What a partition asks for: nothing but a place in the table, perhaps the hybrid one.
CurPlain ==
  /\ cur.autoresize = FALSE /\ cur.typeUuid = "none" /\ cur.uuid = "none"
  /\ cur.ptype # 0 => "mbr" \in hd.table

\* What the list says of the partition at idx.
CurListed(n) ==
  /\ idx = 1 => BootListed(cur, Boot0Offset, "boot0_sdcard.fex")
  /\ idx = 2 => BootListed(cur, BootPackagesOffset, "boot_package.fex")
  /\ idx > 2 /\ idx <= n + 2 => SectionListed(cur, Kept[idx - 2])
  /\ idx > n + 2 => cur.align = 1 /\ cur.inTable = FALSE /\ cur.size # 0 /\ cur.image = NoImage
  /\ idx = n + 3 => AreaIs(cur, Sector - MbrTail, MbrTail)
  /\ idx = n + 4 => AreaIs(cur, Sector, Sector)
  /\ idx = n + 5 => AreaIs(cur, GptLocationBytes, 16384)
  /\ idx = n + 6 => AreaIs(cur, 0, BackupSize) /\ cur.name = BackupName

\* The partition of a turn of the loop is the one of the list.
LEMMA CurIs ==
  ASSUME NEW M \in Nat, Fits(M), HdInv(M), CardInv, pc = "place", idx <= Len(parts),
         NEW n \in Nat, n = Len(Kept)
  PROVE  Settled /\ CurListed(n) /\ CurPlain /\ (IsFloatingBackup <=> idx = n + 6)
<1>0. Settled
  BY DEF HdInv, TypeInv, TypeOK, Settled
<1>1. /\ TypeInv /\ ListInv /\ SpaceInv(M) /\ CardSettled(cfg, fex) /\ IsCard(cfg, fex, Kept)
      /\ Len(cfg.parts) = n + 2 /\ Len(parts) = n + 6
      /\ hd.table = TableType(cfg) /\ "gpt" \in hd.table
  BY <1>0, CardSettles
<1>2. /\ cfg \in Configs /\ idx \in 1 .. n + 6 /\ cur = Listed(cfg)[idx] /\ ListedAt(M, cfg, idx, cur)
      /\ cur \in Partition
  BY <1>1, TurnNumbers, SMT
<1>3. /\ BootListed(Listed(cfg)[1], Boot0Offset, "boot0_sdcard.fex")
      /\ BootListed(Listed(cfg)[2], BootPackagesOffset, "boot_package.fex")
      /\ \A i \in 1 .. n : SectionListed(Listed(cfg)[i + 2], Kept[i])
      /\ AreasListed(cfg, n + 2)
  BY <1>1, CardListed
<1>4. /\ cfg \in Config /\ TableType(cfg) # {} /\ "gpt" \in TableType(cfg) /\ ImageSizeOf(cfg) = 0
      /\ GptLocation(cfg) = GptLocationBytes
      /\ ("mbr" \in TableType(cfg) <=> BootResources(fex) # {})
  BY <1>1 DEF CardSettled
<1>5. BackupStart(cfg) = 0
  BY <1>4 DEF BackupStart
<1>6. /\ AreaIs(Listed(cfg)[n + 3], Sector - MbrTail, MbrTail)
      /\ AreaIs(Listed(cfg)[n + 4], Sector, Sector)
      /\ AreaIs(Listed(cfg)[n + 5], GptLocationBytes, 16384)
      /\ Listed(cfg)[n + 6].name = BackupName
      /\ AreaIs(Listed(cfg)[n + 6], 0, BackupSize)
  <2>1. (n + 2) + 1 = n + 3 /\ (n + 2) + 2 = n + 4 /\ (n + 2) + 3 = n + 5 /\ (n + 2) + 4 = n + 6
    OBVIOUS
  <2>. QED  BY <1>3, <1>4, <1>5, <2>1, SMT DEF AreasListed
<1>7. ASSUME idx > 2, idx <= n + 2 PROVE SectionListed(cur, Kept[idx - 2])
  <2>1. idx - 2 \in 1 .. n /\ (idx - 2) + 2 = idx
    BY <1>2, <1>7
  <2>. QED  BY <1>2, <1>3, <2>1
<1>8. ASSUME idx > n + 2 PROVE AreaAt(M, cfg, idx - (n + 2), cur)
  BY <1>1, <1>2, <1>8 DEF ListedAt
<1>9. CurListed(n)
  <2>1. idx > n + 2 => cur.align = 1 /\ cur.inTable = FALSE /\ cur.size # 0 /\ cur.image = NoImage
    BY <1>8 DEF AreaAt
  <2>2. /\ idx = 1 => BootListed(cur, Boot0Offset, "boot0_sdcard.fex")
        /\ idx = 2 => BootListed(cur, BootPackagesOffset, "boot_package.fex")
    BY <1>2, <1>3, SMT
  <2>3. /\ idx = n + 3 => AreaIs(cur, Sector - MbrTail, MbrTail)
        /\ idx = n + 4 => AreaIs(cur, Sector, Sector)
        /\ idx = n + 5 => AreaIs(cur, GptLocationBytes, 16384)
        /\ idx = n + 6 => AreaIs(cur, 0, BackupSize) /\ cur.name = BackupName
    BY <1>2, <1>6, SMT
  <2>. QED  BY <1>7, <2>1, <2>2, <2>3, SMT DEF CurListed
<1>10. CurPlain
  <2>1. CASE idx <= 2
    <3>1. idx = 1 \/ idx = 2
      BY <1>2, <2>1
    <3>. QED  BY <1>9, <3>1 DEF CurListed, BootListed, CurPlain
  <2>2. CASE idx > 2 /\ idx <= n + 2
    <3>1. SectionListed(cur, Kept[idx - 2])
      BY <1>7, <2>2
    <3>2. cur.ptype # 0 => BootResources(fex) # {}
      <4>1. SUFFICES ASSUME cur.ptype # 0 PROVE BootResources(fex) # {}
        OBVIOUS
      <4>2. IsBootResource(Kept[idx - 2])
        BY <3>1, <4>1 DEF SectionListed
      <4>3. fex \in Fexes /\ idx - 2 \in 1 .. n
        BY <1>2, <2>2 DEF CardInv
      <4>4. PICK j \in DOMAIN fex : Kept[idx - 2] = fex[j]
        BY <4>3, KeptOf DEF Kept
      <4>. QED  BY <4>2, <4>4 DEF BootResources
    <3>. QED  BY <1>1, <1>4, <3>1, <3>2 DEF SectionListed, CurPlain
  <2>3. CASE idx > n + 2
    <3>1. PICK k \in 1 .. 4 : k = idx - (n + 2) /\ (n + 2) + k = idx
      BY <1>2, <2>3
    <3>2. cur.ptype = 0 /\ cur.typeUuid = "none" /\ cur.uuid = "none"
      <4>1. PICK m \in Nat : m = n + 2 /\ m = Len(cfg.parts)
        BY <1>1
      <4>2. /\ Listed(cfg)[m + k].ptype = 0 /\ Listed(cfg)[m + k].typeUuid = "none"
            /\ Listed(cfg)[m + k].uuid = "none"
        BY <1>4, <4>1, AreasPlain
      <4>3. m + k = idx
        BY <3>1, <4>1
      <4>. QED  BY <1>2, <4>2, <4>3
    <3>3. cur.autoresize = FALSE
      BY <1>8, <2>3 DEF AreaAt
    <3>. QED  BY <3>2, <3>3 DEF CurPlain
  <2>. QED  BY <1>2, <2>1, <2>2, <2>3
<1>11. IsFloatingBackup <=> idx = n + 6
  <2>1. ASSUME idx = n + 6 PROVE IsFloatingBackup
    <3>1. cur.name = BackupName /\ cur.offset = 0
      BY <1>9, <2>1 DEF CurListed, AreaIs
    <3>. QED  BY <3>1, FloatingName, Zenon
  <2>2. ASSUME idx # n + 6, IsFloatingBackup PROVE FALSE
    <3>1. cur.name = BackupName /\ cur.offset = 0
      BY <2>2, FloatingName, Zenon
    <3>2. CASE idx <= 2
      <4>1. idx = 1 \/ idx = 2
        BY <1>2, <3>2
      <4>2. cur.offset # 0
        BY <1>9, <4>1, Places DEF CurListed, BootListed
      <4>. QED  BY <3>1, <4>2
    <3>3. CASE idx > 2 /\ idx <= n + 2
      <4>1. cur.name = Kept[idx - 2].name
        BY <1>7, <3>3 DEF SectionListed
      <4>2. Kept[idx - 2].name # BackupName
        <5>1. fex \in Fexes /\ idx - 2 \in 1 .. n
          BY <1>2, <3>3 DEF CardInv
        <5>. QED  BY <5>1, KeptOf DEF Kept
      <4>. QED  BY <3>1, <4>1, <4>2
    <3>4. CASE idx > n + 2
      <4>1. idx - (n + 2) = 4
        BY <1>8, <3>1, <3>4 DEF AreaAt
      <4>. QED  BY <1>2, <2>2, <4>1
    <3>. QED  BY <1>2, <3>2, <3>3, <3>4
  <2>. QED  BY <2>1, <2>2
<1>. QED  BY <1>0, <1>9, <1>10, <1>11

\* Where the partition at idx goes, and how large it is.
LEMMA CurGoes ==
  ASSUME NEW M \in Nat, Fits(M), HdInv(M), CardInv, pc = "place", idx <= Len(parts),
         NEW n \in Nat, n = Len(Kept)
  PROVE  /\ ret = "none" /\ idx \in 1 .. n + 6 /\ size = 0
         /\ cur \in Partition /\ cur.size \in Nat /\ cur.size <= M
         /\ M >= 65536 /\ now \in Nat /\ now + 12 * M < ULL
         /\ ~IsExtended /\ Reserved = now /\ Offset <= now + 3 * M
         /\ Offset \in Nat /\ FinalSize \in Nat /\ NowBefore \in Nat
         /\ idx # n + 6 => NowBefore = now /\ NowAfter = MaxOf(now, PartitionEnd(Placed))
         /\ cur.offset # 0 => Offset = cur.offset
         /\ cur.offset = 0 /\ cur.inTable /\ idx # n + 6 => Offset = RoundUp(now, cur.align)
         /\ Placed.offset = Offset /\ Placed.size = FinalSize
         /\ FinalSize = (IF cur.image = NoImage \/ cur.size # 0 THEN cur.size
                         ELSE IF cur.inTable THEN RoundUp(ImageSize[cur.image], cur.align)
                         ELSE ImageSize[cur.image])
         /\ PartitionRefused <=>
              \/ Offset % cur.align # 0
              \/ cur.image # NoImage /\ ImageSize[cur.image] > FinalSize
              \/ FinalSize = 0
              \/ \E j \in Done : Overlaps(Placed, parts[j])
              \/ cur.inTable /\ FinalSize % Sector # 0
<1>0. Settled /\ CurPlain /\ (IsFloatingBackup <=> idx = n + 6)
  BY CurIs
<1>1. /\ TypeInv /\ ListInv /\ SpaceInv(M) /\ CardSettled(cfg, fex) /\ Len(parts) = n + 6
      /\ hd.table = TableType(cfg) /\ "gpt" \in hd.table /\ hd.ext = 0
  BY <1>0, CardSettles
<1>2. ImageSizeOf(cfg) = 0
  BY <1>1 DEF CardSettled
<1>3. /\ idx \in 1 .. n + 6 /\ size = 0 /\ now \in Nat /\ now + 2 * Step(M) <= ULL \div 2
      /\ cur \in Partition /\ cur.size <= M
  BY <1>1, <1>2, TurnNumbers, SMT
<1>4. M >= 65536 /\ now + 12 * M < ULL
  BY <1>3, ULLAssumption, SMT DEF Step, Fits
<1>5. ret = "none"
  BY <1>1 DEF ListInv
<1>6. ~IsExtended /\ Reserved = now
  <2>1. ~IsExtended
    BY <1>1 DEF IsExtended
  <2>. QED  BY <2>1, Zenon DEF Reserved
<1>7. /\ Offset \in Nat /\ FinalSize \in Nat /\ NowBefore \in Nat
      /\ Placed.offset = Offset /\ Placed.size = FinalSize
  BY <1>1, PlacedType, Zenon
<1>8. cur.size \in Nat
  BY <1>3 DEF Partition
<1>9. idx # n + 6 => NowBefore = now /\ NowAfter = MaxOf(now, PartitionEnd(Placed))
  BY <1>0, <1>6, Zenon DEF NowBefore, NowAfter
<1>10. cur.offset # 0 => Offset = cur.offset
  BY <1>1, <1>3, OffsetRange, SMT
<1>11. cur.offset = 0 /\ cur.inTable /\ idx # n + 6 => Offset = RoundUp(now, cur.align)
  <2> SUFFICES ASSUME cur.offset = 0, cur.inTable, idx # n + 6 PROVE Offset = RoundUp(now, cur.align)
    OBVIOUS
  <2>1. ~IsFloatingBackup /\ NowBefore = now
    BY <1>0, <1>9
  <2>2. Offset = RoundUp(NowBefore, cur.align)
    BY <2>1, SMT DEF Offset
  <2>. QED  BY <2>1, <2>2
<1>12. FinalSize = (IF cur.image = NoImage \/ cur.size # 0 THEN cur.size
                    ELSE IF cur.inTable THEN RoundUp(ImageSize[cur.image], cur.align)
                    ELSE ImageSize[cur.image])
  BY <1>0, Zenon DEF FinalSize, CurPlain
<1>13. ~AutoresizeRefused
  BY <1>0, Zenon DEF AutoresizeRefused, CurPlain
<1>14. ~TypeRefused
  <2>1. "invalid" \notin {"none", "none"}
    BY Zenon
  <2>. QED  BY <1>0, <2>1, Zenon DEF TypeRefused, CurPlain
<1>15. SpaceRefused <=> \E j \in Done : Overlaps(Placed, parts[j])
  BY <1>6, Zenon DEF SpaceRefused, Done
<1>16. PartitionRefused <=>
              \/ Offset % cur.align # 0
              \/ cur.image # NoImage /\ ImageSize[cur.image] > FinalSize
              \/ FinalSize = 0
              \/ \E j \in Done : Overlaps(Placed, parts[j])
              \/ cur.inTable /\ FinalSize % Sector # 0
  BY <1>13, <1>14, <1>15, Zenon DEF PartitionRefused
<1>17. Offset <= now + 3 * M
  <2>1. ~Wrapped(idx)
    BY <1>3 DEF Wrapped, TooSmallForGpt
  <2>. QED  BY <1>1, <1>3, <2>1, OffsetRange, SMT
<1>. QED  BY <1>3, <1>4, <1>5, <1>6, <1>7, <1>8, <1>9, <1>10, <1>11, <1>12, <1>16, <1>17

\* Two areas in order do not overlap.
LEMMA Clear ==
  ASSUME NEW M \in Nat, Fits(M), HdInv(M), CardInv, pc = "place", idx <= Len(parts), NEW j \in Done,
         Offset + FinalSize < ULL,
         End(parts[j]) <= Offset \/ Offset + FinalSize <= parts[j].offset
  PROVE  ~Overlaps(Placed, parts[j])
<1>1. Placed.offset = Offset /\ Placed.size = FinalSize /\ Offset \in Nat /\ FinalSize \in Nat
  BY PlacedType, Zenon DEF HdInv
<1>2. parts[j] \in Partition /\ End(parts[j]) \in Nat /\ End(parts[j]) <= now
  BY PlacedBelowNow, Zenon
<1>3. now \in Nat /\ now < ULL
  BY NowBelowWidth
<1>4. PICK p \in Partition : p = parts[j]
  BY <1>2
<1>5. p.offset \in Nat /\ p.size \in Nat /\ p.offset + p.size < ULL
  BY <1>2, <1>3, <1>4, ULLAssumption DEF Partition, End
<1>6. PartitionEnd(p) = End(p)
  BY <1>5, PlusExact DEF PartitionEnd, End
<1>7. PartitionEnd(Placed) = Offset + FinalSize
  BY <1>1, PlusExact DEF PartitionEnd
<1>8. ~(Offset < PartitionEnd(p)) \/ ~(p.offset < PartitionEnd(Placed))
  BY <1>1, <1>2, <1>4, <1>5, <1>6, <1>7
<1>. QED  BY <1>1, <1>4, <1>8, Zenon DEF Overlaps

\* What the places of the boot files leave room for, in bytes.
LEMMA PlacesApart ==
  /\ GptLocationBytes \in Nat /\ Boot0Offset \in Nat /\ BootPackagesOffset \in Nat
  /\ Boot0Offset >= 1024 /\ GptLocationBytes >= 1024
  /\ BootPackagesOffset >= GptLocationBytes + 16384
BY Places, AreaSizes, SMT

\* The images of the boot files.
LEMMA BootImages ==
  ASSUME NEW M \in Nat, Fits(M)
  PROVE  /\ \A image \in {"boot0_sdcard.fex", "boot_package.fex"} :
              image \in Images /\ image # NoImage /\ SizeOf(image) \in Nat /\ SizeOf(image) > 0
              /\ SizeOf(image) <= M /\ ImageSize[image] = SizeOf(image)
         /\ Boot0Offset + SizeOf("boot0_sdcard.fex") <= GptLocationBytes
<1>1. ASSUME NEW image \in {"boot0_sdcard.fex", "boot_package.fex"}
      PROVE  image \in Images /\ image # NoImage /\ SizeOf(image) \in Nat /\ SizeOf(image) > 0
             /\ SizeOf(image) <= M /\ ImageSize[image] = SizeOf(image)
  <2>1. image \in Images
    BY FexesAssumption
  <2>2. image # NoImage /\ ImageSize[image] \in Nat
    BY <2>1, ImagesAssumption, ULLAssumption
  <2>3. ImageSize[image] <= M
    BY <2>1 DEF Fits
  <2>. QED  BY <2>1, <2>2, <2>3, BootFilesAssumption DEF SizeOf
<1>. QED  BY <1>1, BootFilesAssumption

\* The end of what is placed.
LEMMA PlacedEnd ==
  ASSUME NEW M \in Nat, Fits(M), HdInv(M), CardInv, pc = "place", idx <= Len(parts),
         FinalSize <= 2 * M
  PROVE  Offset + FinalSize < ULL /\ PartitionEnd(Placed) = Offset + FinalSize
<1>1. PICK n : n = Len(Kept)
  OBVIOUS
<1>2. n \in Nat
  <2>1. fex \in Fexes
    BY DEF CardInv
  <2>. QED  BY <1>1, <2>1, KeptOf DEF Kept
<1>3. /\ now \in Nat /\ now + 12 * M < ULL /\ Offset \in Nat /\ FinalSize \in Nat /\ Offset <= now + 3 * M
      /\ Placed.offset = Offset /\ Placed.size = FinalSize
  BY <1>1, <1>2, CurGoes, SMT
<1>4. Offset + FinalSize < ULL
  BY <1>3, ULLAssumption
<1>. QED  BY <1>3, <1>4, PlusExact DEF PartitionEnd

\* The turns of the boot files.
LEMMA BootTurn ==
  ASSUME NEW M \in Nat, Fits(M), HdInv(M), CardInv, pc = "place", idx <= Len(parts), idx <= 2
  PROVE  /\ ~PartitionRefused
         /\ idx = 1 => /\ Offset = Boot0Offset /\ FinalSize = SizeOf("boot0_sdcard.fex")
                       /\ NowAfter = now
         /\ idx = 2 => /\ Offset = BootPackagesOffset /\ FinalSize = SizeOf("boot_package.fex")
                       /\ NowAfter = Offset + FinalSize
<1>0. PICK n \in Nat : n = Len(Kept)
  <2>1. fex \in Fexes
    BY DEF CardInv
  <2>. QED  BY <2>1, KeptOf DEF Kept
<1>1. Settled /\ CurListed(n)
  BY <1>0, CurIs
<1>2. CardPlaced
  BY <1>1 DEF CardInv
<1>3. /\ idx \in Nat /\ idx >= 1 /\ idx # n + 6 /\ now \in Nat /\ M >= 65536
      /\ cur \in Partition /\ Offset \in Nat /\ FinalSize \in Nat
      /\ NowAfter = MaxOf(now, PartitionEnd(Placed))
      /\ cur.offset # 0 => Offset = cur.offset
  <2>1. idx \in 1 .. n + 6 /\ idx # n + 6
    BY <1>0, CurGoes, SMT
  <2>. QED  BY <1>0, <2>1, CurGoes, SMT
<1>4. FinalSize = (IF cur.image = NoImage \/ cur.size # 0 THEN cur.size
                   ELSE IF cur.inTable THEN RoundUp(ImageSize[cur.image], cur.align)
                   ELSE ImageSize[cur.image])
  BY <1>0, CurGoes
<1>5. PartitionRefused <=>
              \/ Offset % cur.align # 0
              \/ cur.image # NoImage /\ ImageSize[cur.image] > FinalSize
              \/ FinalSize = 0
              \/ \E j \in Done : Overlaps(Placed, parts[j])
              \/ cur.inTable /\ FinalSize % Sector # 0
  BY <1>0, CurGoes
<1>6. PICK o, image : /\ idx = 1 => o = Boot0Offset /\ image = "boot0_sdcard.fex"
                      /\ idx = 2 => o = BootPackagesOffset /\ image = "boot_package.fex"
  <2> DEFINE o == IF idx = 1 THEN Boot0Offset ELSE BootPackagesOffset
             image == IF idx = 1 THEN "boot0_sdcard.fex" ELSE "boot_package.fex"
  <2>1. /\ idx = 1 => o = Boot0Offset /\ image = "boot0_sdcard.fex"
        /\ idx = 2 => o = BootPackagesOffset /\ image = "boot_package.fex"
    OBVIOUS
  <2> HIDE DEF o, image
  <2>. QED  BY <2>1
<1>7. BootListed(cur, o, image)
  BY <1>1, <1>3, <1>6 DEF CurListed
<1>8. image \in Images /\ image # NoImage /\ SizeOf(image) \in Nat /\ SizeOf(image) > 0
      /\ SizeOf(image) <= M /\ ImageSize[image] = SizeOf(image)
  BY <1>3, <1>6, BootImages
<1>9. o \in Nat /\ o # 0
  BY <1>3, <1>6, PlacesApart
<1>10. Offset = o /\ FinalSize = SizeOf(image)
  BY <1>3, <1>4, <1>7, <1>8, <1>9 DEF BootListed
<1>11. Offset + FinalSize < ULL /\ PartitionEnd(Placed) = Offset + FinalSize
  BY <1>8, <1>10, PlacedEnd
<1>12. now = GptLocationBytes + 16384
  BY <1>2 DEF CardPlaced
<1>13. \A j \in Done : ~Overlaps(Placed, parts[j])
  <2> SUFFICES ASSUME NEW j \in Done PROVE ~Overlaps(Placed, parts[j])
    OBVIOUS
  <2>1. j = 1 /\ idx = 2 /\ 1 \in Done
    BY <1>3 DEF Done
  <2>2. parts[1].offset = Boot0Offset /\ parts[1].size = SizeOf("boot0_sdcard.fex")
    BY <1>2, <2>1 DEF CardPlaced
  <2>3. End(parts[j]) <= Offset
    BY <1>6, <1>10, <2>1, <2>2, BootImages, PlacesApart DEF End
  <2>. QED  BY <1>11, <2>3, Clear
<1>14. ~PartitionRefused
  <2>1. Offset % cur.align = 0
    BY <1>3, <1>7 DEF BootListed
  <2>. QED  BY <1>5, <1>7, <1>8, <1>10, <1>13, <2>1 DEF BootListed
<1>15. idx = 1 => NowAfter = now
  BY <1>3, <1>6, <1>8, <1>10, <1>11, <1>12, BootImages, PlacesApart DEF MaxOf
<1>16. idx = 2 => NowAfter = Offset + FinalSize
  BY <1>3, <1>6, <1>8, <1>10, <1>11, <1>12, PlacesApart DEF MaxOf
<1>. QED  BY <1>6, <1>10, <1>14, <1>15, <1>16

\* The turn of a section.
SectionTurned(i) ==
  /\ PartitionRefused <=>
       SpaceOf(Kept[i]) = 0 \/ SizeOf(ImageOf(Kept[i])) > SpaceOf(Kept[i])
  /\ Offset = IF i = 1 THEN CardFirst ELSE End(parts[i + 1])
  /\ FinalSize = SpaceOf(Kept[i]) /\ SpaceOf(Kept[i]) \in Nat /\ SizeOf(ImageOf(Kept[i])) \in Nat
  /\ (Offset + FinalSize) % 512 = 0 /\ BootPackagesOffset <= Offset
  /\ NowAfter = Offset + FinalSize
  /\ (cur.ptype # 0 <=> IsBootResource(Kept[i])) /\ cur.inTable = TRUE

\* A turn of the loop does that.
LEMMA SectionTurn ==
  ASSUME NEW M \in Nat, Fits(M), HdInv(M), CardInv, pc = "place", idx <= Len(parts),
         NEW i \in 1 .. Len(Kept), idx = i + 2
  PROVE  SectionTurned(i)
<1>0. fex \in Fexes
  BY DEF CardInv
<1>1. PICK n \in Nat : n = Len(Kept)
  BY <1>0, KeptOf DEF Kept
<1> DEFINE s == Kept[i]
<1>2. /\ s \in Section /\ ImageOf(s) \in Images /\ ImageOf(s) # NoImage
      /\ SizeOf(ImageOf(s)) \in 0 .. ULL - 1 /\ Bytes(s) \in Nat /\ Bytes(s) % 512 = 0
  BY <1>0, KeptOf DEF Kept
<1> HIDE DEF s
<1>3. /\ Settled /\ CurListed(n) /\ CardPlaced
  BY <1>1, CurIs DEF CardInv
<1>4. SectionListed(cur, s)
  <2>1. i \in Nat /\ i >= 1 /\ i <= n /\ idx - 2 = i /\ idx > 2 /\ idx <= n + 2
    BY <1>1
  <2>. QED  BY <1>3, <2>1 DEF CurListed, s
<1>5. /\ cur.offset = 0 /\ cur.size = Bytes(s) /\ cur.align = 512 /\ cur.inTable = TRUE
      /\ cur.ptype = (IF IsBootResource(s) THEN 12 ELSE 0) /\ cur.image = ImageOf(s)
  BY <1>4 DEF SectionListed
<1>6. /\ idx # n + 6 /\ now \in Nat /\ now + 12 * M < ULL /\ M >= 65536 /\ Offset \in Nat
      /\ NowAfter = MaxOf(now, PartitionEnd(Placed)) /\ cur.size <= M
      /\ Offset = RoundUp(now, 512)
  <2>1. i \in Nat /\ idx # n + 6
    BY <1>1
  <2>. QED  BY <1>1, <1>5, <2>1, CurGoes, SMT
<1>7. SizeOf(ImageOf(s)) = ImageSize[ImageOf(s)] /\ SizeOf(ImageOf(s)) <= M /\ SizeOf(ImageOf(s)) \in Nat
  BY <1>2, ULLAssumption DEF Fits, SizeOf
<1>8. FinalSize = SpaceOf(s)
  <2>1. FinalSize = (IF cur.image = NoImage \/ cur.size # 0 THEN cur.size
                     ELSE IF cur.inTable THEN RoundUp(ImageSize[cur.image], cur.align)
                     ELSE ImageSize[cur.image])
    BY <1>1, CurGoes
  <2>2. RoundUp(SizeOf(ImageOf(s)), 512) = ToSector(SizeOf(ImageOf(s)))
    BY <1>6, <1>7, ULLAssumption, RoundsToSector
  <2>. QED  BY <1>2, <1>5, <1>7, <2>1, <2>2 DEF SpaceOf
<1>9. SpaceOf(s) \in Nat /\ SpaceOf(s) % 512 = 0 /\ SpaceOf(s) <= 2 * M
  <2>1. CASE Bytes(s) # 0
    BY <1>2, <1>5, <1>6, <2>1 DEF SpaceOf
  <2>2. CASE Bytes(s) = 0
    <3>1. SpaceOf(s) = ToSector(SizeOf(ImageOf(s)))
      BY <2>2 DEF SpaceOf
    <3>2. PICK z : z \in Nat /\ z = SizeOf(ImageOf(s))
      BY <1>7
    <3>3. ToSector(z) \in Nat /\ ToSector(z) % 512 = 0 /\ ToSector(z) < z + 512
      BY <3>2, ToSectorBounds
    <3>4. PICK t : t = ToSector(z) /\ t \in Nat /\ t % 512 = 0 /\ t < z + 512
      BY <3>3
    <3>5. SpaceOf(s) = t /\ z <= M /\ M >= 65536
      BY <1>6, <1>7, <3>1, <3>2, <3>4
    <3>6. t <= 2 * M
      BY <3>2, <3>4, <3>5
    <3>. QED  BY <3>4, <3>5, <3>6
  <2>. QED  BY <2>1, <2>2
<1>10. Offset = ToSector(now)
  BY <1>6, ULLAssumption, RoundsToSector
<1>11. now = End(parts[i + 1])
  <2>1. idx > 2 /\ idx <= Len(Kept) + 6 /\ MinOf(idx - 1, Len(Kept) + 2) = i + 1
    BY <1>1 DEF MinOf
  <2>. QED  BY <1>3, <2>1 DEF CardPlaced
<1>12. /\ Offset = IF i = 1 THEN CardFirst ELSE End(parts[i + 1])
       /\ BootPackagesOffset <= Offset
  <2>1. CASE i = 1
    <3>1. 2 \in Done
      BY <2>1 DEF Done
    <3>2. parts[2].offset = BootPackagesOffset /\ parts[2].size = SizeOf("boot_package.fex")
      BY <1>3, <3>1 DEF CardPlaced
    <3>3. End(parts[i + 1]) = BootPackagesOffset + SizeOf("boot_package.fex")
      BY <2>1, <3>2 DEF End
    <3>4. SizeOf("boot_package.fex") \in Nat
      BY BootImages
    <3>5. Offset = CardFirst
      BY <1>10, <1>11, <3>3 DEF CardFirst
    <3>6. now <= Offset
      BY <1>6, <1>10, ToSectorBounds
    <3>. QED  BY <1>6, <1>11, <2>1, <3>3, <3>4, <3>5, <3>6, PlacesApart
  <2>2. CASE i # 1
    <3>1. PICK k \in 1 .. Len(Kept) : k = i - 1 /\ k + 2 = i + 1 /\ k + 2 \in Done
      BY <1>1, <2>2 DEF Done
    <3>2. SectionPlaced(k)
      BY <1>3, <3>1 DEF CardPlaced
    <3>3. End(parts[i + 1]) % 512 = 0 /\ BootPackagesOffset <= parts[i + 1].offset
      BY <3>1, <3>2 DEF SectionPlaced
    <3>4. Offset = now
      BY <1>6, <1>10, <1>11, <3>3, ToSectorBounds
    <3>5. parts[i + 1] \in Partition
      BY <3>1, PlacedBelowNow
    <3>6. parts[i + 1].offset <= End(parts[i + 1])
      BY <3>5 DEF End, Partition
    <3>7. PICK p \in Partition : p = parts[i + 1]
      BY <3>5
    <3>8. p.offset \in Nat
      BY DEF Partition
    <3>9. Offset = End(parts[i + 1])
      BY <1>11, <3>4
    <3>10. BootPackagesOffset <= p.offset /\ p.offset <= Offset
      BY <3>3, <3>6, <3>7, <3>9
    <3>11. BootPackagesOffset <= Offset
      BY <1>6, <3>8, <3>10, PlacesApart
    <3>. QED  BY <2>2, <3>9, <3>11
  <2>. QED  BY <2>1, <2>2
<1>13. Offset + FinalSize < ULL /\ PartitionEnd(Placed) = Offset + FinalSize
  BY <1>8, <1>9, PlacedEnd
<1>14. Offset % 512 = 0 /\ now <= Offset
  BY <1>6, <1>10, ToSectorBounds
<1>15. (Offset + FinalSize) % 512 = 0
  BY <1>6, <1>8, <1>9, <1>14, SMTT(30)
<1>16. NowAfter = Offset + FinalSize
  BY <1>6, <1>8, <1>9, <1>13, <1>14 DEF MaxOf
<1>17. \A j \in Done : ~Overlaps(Placed, parts[j])
  <2> SUFFICES ASSUME NEW j \in Done PROVE ~Overlaps(Placed, parts[j])
    OBVIOUS
  <2>1. End(parts[j]) \in Nat /\ End(parts[j]) <= now
    BY PlacedBelowNow, Zenon
  <2>2. End(parts[j]) <= Offset
    BY <1>6, <1>14, <2>1
  <2>. QED  BY <1>13, <2>2, Clear
<1>18. PartitionRefused <=> SpaceOf(s) = 0 \/ SizeOf(ImageOf(s)) > SpaceOf(s)
  <2>1. PartitionRefused <=>
              \/ Offset % cur.align # 0
              \/ cur.image # NoImage /\ ImageSize[cur.image] > FinalSize
              \/ FinalSize = 0
              \/ \E j \in Done : Overlaps(Placed, parts[j])
              \/ cur.inTable /\ FinalSize % Sector # 0
    BY <1>1, CurGoes
  <2>2. FinalSize % Sector = 0
    BY <1>8, <1>9, AreaSizes
  <2>. QED  BY <1>2, <1>5, <1>7, <1>8, <1>14, <1>17, <2>1, <2>2
<1>19. cur.ptype # 0 <=> IsBootResource(s)
  BY <1>5
<1>. QED  BY <1>5, <1>7, <1>8, <1>9, <1>12, <1>15, <1>16, <1>18, <1>19 DEF s, SectionTurned

\* The turns of the table areas in front of the partitions.
LEMMA AreaTurn ==
  ASSUME NEW M \in Nat, Fits(M), HdInv(M), CardInv, pc = "place", idx <= Len(parts),
         NEW n \in Nat, n = Len(Kept), n + 2 < idx, idx < n + 6
  PROVE  ~PartitionRefused /\ NowAfter = now
<1>1. Settled /\ CurListed(n) /\ CardPlaced
  BY CurIs DEF CardInv
<1>2. HdInv(M) /\ TypeInv /\ ListInv /\ SpaceInv(M) /\ IsCard(cfg, fex, Kept)
  BY <1>1, CardSettles
<1>3. /\ idx \in 1 .. n + 6 /\ now \in Nat /\ M >= 65536 /\ cur \in Partition
      /\ Offset \in Nat /\ FinalSize \in Nat /\ cur.size <= M /\ cur.size \in Nat
      /\ NowAfter = MaxOf(now, PartitionEnd(Placed))
      /\ cur.offset # 0 => Offset = cur.offset
  BY CurGoes, SMTT(30)
<1>4. cur.align = 1 /\ cur.inTable = FALSE /\ cur.size # 0 /\ cur.image = NoImage
  BY <1>1 DEF CurListed
<1>5. FinalSize = cur.size
  <2>1. FinalSize = (IF cur.image = NoImage \/ cur.size # 0 THEN cur.size
                     ELSE IF cur.inTable THEN RoundUp(ImageSize[cur.image], cur.align)
                     ELSE ImageSize[cur.image])
    BY CurGoes
  <2>. QED  BY <1>4, <2>1
<1>6. PartitionRefused <=>
              \/ Offset % cur.align # 0
              \/ cur.image # NoImage /\ ImageSize[cur.image] > FinalSize
              \/ FinalSize = 0
              \/ \E j \in Done : Overlaps(Placed, parts[j])
              \/ cur.inTable /\ FinalSize % Sector # 0
  BY CurGoes
<1>7. Sector = 512 /\ MbrTail = 72 /\ Sector - MbrTail = 440
  BY AreaSizes, SMT DEF MbrTail
<1>8. /\ idx = n + 3 => Offset = 440 /\ FinalSize = 72
      /\ idx = n + 4 => Offset = 512 /\ FinalSize = 512
      /\ idx = n + 5 => Offset = GptLocationBytes /\ FinalSize = 16384
  <2>1. idx = n + 3 => cur.offset = 440 /\ cur.size = 72
    BY <1>1, <1>7, SMT DEF CurListed, AreaIs
  <2>2. idx = n + 4 => cur.offset = 512 /\ cur.size = 512
    BY <1>1, <1>7, SMT DEF CurListed, AreaIs
  <2>3. idx = n + 5 => cur.offset = GptLocationBytes /\ cur.size = 16384 /\ cur.offset # 0
    BY <1>1, PlacesApart, SMT DEF CurListed, AreaIs
  <2>. QED  BY <1>3, <1>5, <2>1, <2>2, <2>3, SMT
<1>9. idx = n + 3 \/ idx = n + 4 \/ idx = n + 5
  BY <1>3
<1>10. Offset + FinalSize <= BootPackagesOffset
  BY <1>8, <1>9, PlacesApart, SMT
<1>11. Offset + FinalSize < ULL /\ PartitionEnd(Placed) = Offset + FinalSize
  BY <1>3, <1>5, PlacedEnd
<1>12. BootPackagesOffset <= now
  <2>1. 2 \in Done
    BY <1>3, <1>9 DEF Done
  <2>2. parts[2].offset = BootPackagesOffset
    BY <1>1, <2>1 DEF CardPlaced
  <2>3. PICK p : p = parts[2] /\ p \in Partition /\ End(p) <= now
    BY <2>1, PlacedBelowNow
  <2>4. p.offset \in Nat /\ p.size \in Nat /\ p.offset = BootPackagesOffset
    BY <2>2, <2>3 DEF Partition
  <2>. QED  BY <1>3, <2>3, <2>4, SMTT(30) DEF End
<1>13. NowAfter = now
  BY <1>3, <1>10, <1>11, <1>12, PlacesApart, SMT DEF MaxOf
<1>14. ASSUME NEW j \in Done
       PROVE  End(parts[j]) <= Offset \/ Offset + FinalSize <= parts[j].offset
  <2>1. j \in Nat /\ j >= 1 /\ j < idx
    BY <1>3 DEF Done
  <2>2. \A o, z \in Nat : o # 0 /\ z # 0 /\ AreaIs(Listed(cfg)[j], o, z) =>
               parts[j].offset = o /\ parts[j].size = z
    BY <1>1, KeptArea, Zenon
  <2>3. AreasListed(cfg, n + 2)
    BY <1>2, CardListed
  <2>4. CASE j = 1
    <3>1. parts[1].offset = Boot0Offset /\ parts[1].size = SizeOf("boot0_sdcard.fex")
      BY <1>1, <2>4 DEF CardPlaced
    <3>2. SizeOf("boot0_sdcard.fex") \in Nat /\ Boot0Offset + SizeOf("boot0_sdcard.fex") <= GptLocationBytes
      BY BootImages
    <3>3. End(parts[j]) <= GptLocationBytes
      BY <2>4, <3>1, <3>2 DEF End
    <3>4. idx # n + 5 => Offset + FinalSize <= 1024
      BY <1>8, <1>9
    <3>5. idx # n + 5 => Offset + FinalSize <= parts[j].offset
      BY <1>3, <2>4, <3>1, <3>4, PlacesApart
    <3>. QED  BY <1>8, <3>3, <3>5
  <2>5. CASE j = 2
    <3>1. parts[j].offset = BootPackagesOffset
      BY <1>1, <2>5 DEF CardPlaced
    <3>. QED  BY <1>10, <3>1
  <2>6. CASE j > 2 /\ j <= n + 2
    <3>1. PICK k \in 1 .. Len(Kept) : k + 2 = j
      <4>1. j - 2 \in 1 .. Len(Kept) /\ (j - 2) + 2 = j
        BY <2>1, <2>6
      <4>. QED  BY <4>1
    <3>2. SectionPlaced(k)
      BY <1>1, <3>1 DEF CardPlaced
    <3>3. BootPackagesOffset <= parts[j].offset
      BY <3>1, <3>2 DEF SectionPlaced
    <3>4. PICK p : p = parts[j] /\ p \in Partition
      BY PlacedBelowNow
    <3>5. p.offset \in Nat
      BY <3>4 DEF Partition
    <3>. QED  BY <1>3, <1>10, <3>3, <3>4, <3>5, PlacesApart, SMTT(30)
  <2>7. CASE j = n + 3
    <3>1. AreaIs(Listed(cfg)[j], 440, 72)
      <4>1. (n + 2) + 1 = j
        BY <2>7
      <4>. QED  BY <1>7, <2>3, <4>1, SMT DEF AreasListed
    <3>2. parts[j].offset = 440 /\ parts[j].size = 72
      BY <2>2, <3>1, SMT
    <3>3. End(parts[j]) = 512
      BY <3>2, SMT DEF End
    <3>4. idx # n + 3
      BY <2>1, <2>7
    <3>. QED  BY <1>8, <1>9, <3>3, <3>4, PlacesApart, SMT
  <2>8. CASE j = n + 4
    <3>1. AreaIs(Listed(cfg)[j], 512, 512)
      <4>1. (n + 2) + 2 = j
        BY <2>8
      <4>2. "gpt" \in TableType(cfg)
        BY <1>1, CardSettles
      <4>. QED  BY <1>7, <2>3, <4>1, <4>2, SMT DEF AreasListed
    <3>2. parts[j].offset = 512 /\ parts[j].size = 512
      BY <2>2, <3>1, SMT
    <3>3. End(parts[j]) = 1024
      BY <3>2, SMT DEF End
    <3>4. idx = n + 5
      BY <1>9, <2>1, <2>8
    <3>. QED  BY <1>8, <3>3, <3>4, PlacesApart, SMT
  <2>. QED  BY <1>9, <2>1, <2>4, <2>5, <2>6, <2>7, <2>8
<1>15. \A j \in Done : ~Overlaps(Placed, parts[j])
  BY <1>11, <1>14, Clear
<1>16. Offset % cur.align = 0
  BY <1>3, <1>4
<1>. QED  BY <1>4, <1>5, <1>6, <1>13, <1>15, <1>16

\* The turn of the backup table.
LEMMA BackupTurn ==
  ASSUME NEW M \in Nat, Fits(M), HdInv(M), CardInv, pc = "place", idx <= Len(parts),
         NEW n \in Nat, n = Len(Kept), idx = n + 6
  PROVE  ~PartitionRefused /\ NowAfter \in Nat /\ NowAfter <= now + BackupSize + 4096
<1>1. Settled /\ CurListed(n) /\ IsFloatingBackup
  BY CurIs
<1>2. TypeInv /\ ListInv /\ SpaceInv(M)
  BY <1>1, CardSettles
<1>3. /\ now \in Nat /\ M >= 65536 /\ cur \in Partition /\ now + 12 * M < ULL
      /\ Offset \in Nat /\ FinalSize \in Nat /\ cur.size <= M /\ cur.size \in Nat
      /\ Reserved = now
  BY CurGoes, SMT
<1>4. cur.align = 1 /\ cur.inTable = FALSE /\ cur.image = NoImage /\ cur.size = 16896
  <2>1. n + 2 < idx
    OBVIOUS
  <2>. QED  BY <1>1, <2>1, AreaSizes, SMT DEF CurListed, AreaIs
<1>5. FinalSize = cur.size
  <2>1. FinalSize = (IF cur.image = NoImage \/ cur.size # 0 THEN cur.size
                     ELSE IF cur.inTable THEN RoundUp(ImageSize[cur.image], cur.align)
                     ELSE ImageSize[cur.image])
    BY CurGoes
  <2>. QED  BY <1>4, <2>1, SMT
<1>6. PartitionRefused <=>
              \/ Offset % cur.align # 0
              \/ cur.image # NoImage /\ ImageSize[cur.image] > FinalSize
              \/ FinalSize = 0
              \/ \E j \in Done : Overlaps(Placed, parts[j])
              \/ cur.inTable /\ FinalSize % Sector # 0
  BY CurGoes
<1>7. PICK v : v \in Nat /\ v = now + 16896
  BY <1>3
<1>8. v + 4096 < ULL
  BY <1>3, <1>7, ULLAssumption
<1>9. NowBefore = v
  <2>1. Plus(now, cur.size) = v
    BY <1>3, <1>4, <1>7, <1>8, ULLAssumption, PlusExact
  <2>. QED  BY <1>1, <1>3, <2>1 DEF NowBefore
<1>10. PICK r : r \in Nat /\ r = RoundUp(v, 4096) /\ v <= r /\ r < v + 4096
  BY <1>7, <1>8, RoundUpRange
<1>11. Offset = r - 16896
  <2>1. Offset = Minus(r, cur.size)
    BY <1>1, <1>9, <1>10 DEF Offset
  <2>2. 16896 \in Nat /\ 16896 <= r /\ r < ULL
    BY <1>3, <1>7, <1>8, <1>10, ULLAssumption
  <2>3. Minus(r, 16896) = r - 16896
    <3>1. r - 16896 \in 0 .. ULL - 1 /\ ULL \in Nat
      BY <1>10, <2>2, ULLAssumption
    <3>2. (r - 16896) % ULL = r - 16896
      BY <3>1
    <3>. QED  BY <3>2 DEF Minus
  <2>. QED  BY <1>4, <2>1, <2>3
<1>12. Offset + FinalSize < ULL /\ PartitionEnd(Placed) = Offset + FinalSize
  BY <1>3, <1>5, PlacedEnd
<1>13. PartitionEnd(Placed) = r
  BY <1>4, <1>5, <1>7, <1>10, <1>11, <1>12
<1>14. NowAfter = r
  BY <1>7, <1>9, <1>10, <1>13 DEF NowAfter, MaxOf
<1>15. \A j \in Done : ~Overlaps(Placed, parts[j])
  <2> SUFFICES ASSUME NEW j \in Done PROVE ~Overlaps(Placed, parts[j])
    OBVIOUS
  <2>1. End(parts[j]) \in Nat /\ End(parts[j]) <= now
    BY PlacedBelowNow, Zenon
  <2>2. End(parts[j]) <= Offset
    BY <1>3, <1>7, <1>10, <1>11, <2>1, SMTT(30)
  <2>. QED  BY <1>12, <2>2, Clear
<1>16. ~PartitionRefused
  BY <1>3, <1>4, <1>5, <1>6, <1>15, SMT
<1>. QED  BY <1>3, <1>7, <1>10, <1>14, <1>16, AreaSizes, SMT

-----------------------------------------------------------------------------
(***************************************************************************)
(* Every step keeps CardInv.                                               *)
(***************************************************************************)
\* Counting the boot resources, section by section.
LEMMA BootCounts ==
  ASSUME fex \in Fexes, NEW n \in Nat, n = Len(Kept)
  PROVE  /\ \A k \in Int : BootCount(k) \in Nat
         /\ \A k \in Int : k <= 0 => BootCount(k) = 0
         /\ \A k \in Int : k >= n => BootCount(k) = Cardinality(BootResources(Kept))
         /\ \A k \in 0 .. n - 1 :
              BootCount(k + 1) = BootCount(k) + IF IsBootResource(Kept[k + 1]) THEN 1 ELSE 0
         /\ IsFiniteSet(BootResources(Kept))
<1>1. DOMAIN Kept = 1 .. n
  BY KeptOf DEF Kept
<1> DEFINE B(k) == {i \in DOMAIN Kept : i <= k /\ IsBootResource(Kept[i])}
<1>2. IsFiniteSet(1 .. n)
  BY FS_Interval
<1>3. ASSUME NEW k \in Int PROVE IsFiniteSet(B(k)) /\ BootCount(k) \in Nat /\ BootCount(k) = Cardinality(B(k))
  <2>1. B(k) \subseteq 1 .. n
    BY <1>1
  <2>2. IsFiniteSet(B(k))
    BY <1>2, <2>1, FS_Subset
  <2>3. BootCount(k) = Cardinality(B(k))
    BY DEF BootCount
  <2>. QED  BY <2>2, <2>3, FS_CardinalityType
<1>4. ASSUME NEW k \in Int, k <= 0 PROVE BootCount(k) = 0
  <2>1. B(k) = {}
    BY <1>1, <1>4
  <2>. QED  BY <1>3, <2>1, FS_EmptySet
<1>5. ASSUME NEW k \in Int, k >= n PROVE BootCount(k) = Cardinality(BootResources(Kept)) /\ B(k) = BootResources(Kept)
  <2>1. B(k) = BootResources(Kept)
    BY <1>1, <1>5 DEF BootResources
  <2>. QED  BY <1>3, <2>1
<1>6. ASSUME NEW k \in 0 .. n - 1
      PROVE  BootCount(k + 1) = BootCount(k) + IF IsBootResource(Kept[k + 1]) THEN 1 ELSE 0
  <2>1. k \in Int /\ k + 1 \in Int
    OBVIOUS
  <2>2. CASE IsBootResource(Kept[k + 1])
    <3>1. B(k + 1) = B(k) \cup {k + 1} /\ k + 1 \notin B(k)
      BY <1>1, <2>2
    <3>2. IsFiniteSet(B(k)) /\ BootCount(k) = Cardinality(B(k)) /\ BootCount(k + 1) = Cardinality(B(k + 1))
      BY <1>3, <2>1
    <3> HIDE DEF B
    <3>3. Cardinality(B(k) \cup {k + 1}) = Cardinality(B(k)) + 1
      BY <3>1, <3>2, FS_AddElement
    <3>. QED  BY <2>2, <3>1, <3>2, <3>3
  <2>3. CASE ~IsBootResource(Kept[k + 1])
    <3>1. B(k + 1) = B(k)
      BY <1>1, <2>3
    <3>2. BootCount(k) \in Nat /\ BootCount(k) = Cardinality(B(k)) /\ BootCount(k + 1) = Cardinality(B(k + 1))
      BY <1>3, <2>1
    <3> HIDE DEF B
    <3>. QED  BY <2>3, <3>1, <3>2
  <2>. QED  BY <2>2, <2>3
<1>7. IsFiniteSet(BootResources(Kept))
  BY <1>3, <1>5
<1>. QED  BY <1>3, <1>4, <1>5, <1>6, <1>7

\* The initial states.
LEMMA CardInitInv == CardInit /\ OwnNames(fex) => CardInv
<1> SUFFICES ASSUME CardInit, OwnNames(fex) PROVE CardInv
  OBVIOUS
<1>1. /\ fex \in Fexes /\ cfg = HdimageSection(fex) /\ Init /\ hd.align = 0 /\ idx = 1
      /\ hybridEntries = 0 /\ ret = "none" /\ pc = "options"
  BY DEF CardInit, Init
<1>2. PICK n \in Nat : n = Len(Kept)
  BY <1>1, KeptOf DEF Kept
<1>3. BootCount(idx - 3) = 0
  BY <1>1, <1>2, BootCounts
<1>. QED  BY <1>1, <1>3 DEF CardInv, Settled

\* A turn of the loop.
LEMMA CardPlaceStep ==
  ASSUME NEW M \in Nat, Fits(M), HdInv(M), CardInv, PlacePartition, fex' = fex
  PROVE  CardInv'
<1>1. /\ pc = "place" /\ idx \in 1 .. Len(parts) /\ idx <= Len(parts) /\ ~PartitionRefused /\ Settled
      /\ TypeInv /\ ListInv /\ SpaceInv(M) /\ cfg' = cfg /\ ret' = ret /\ ret = "none"
      /\ idx' = idx + 1 /\ now' = NowAfter /\ Len(parts') = Len(parts) /\ parts'[idx] = Placed
      /\ \A i \in 1 .. Len(parts) : i # idx => parts'[i] = parts[i]
      /\ Done' = Done \cup {idx}
  BY PlacedList
<1>2. PICK n \in Nat : n = Len(Kept)
  <2>1. fex \in Fexes
    BY DEF CardInv
  <2>. QED  BY <2>1, KeptOf DEF Kept
<1>3. /\ CardPlaced /\ fex \in Fexes /\ cfg = HdimageSection(fex) /\ hybridEntries = BootCount(idx - 3)
      /\ Kept' = Kept
  BY <1>1 DEF CardInv, Kept
<1>4. Len(parts) = n + 6 /\ "gpt" \in hd.table /\ idx \in 1 .. n + 6
  BY <1>1, <1>2, CardSettles
<1>5. /\ Placed.offset = Offset /\ Placed.size = FinalSize /\ End(Placed) = Offset + FinalSize
  BY <1>1, PlacedType, Zenon DEF End
<1>6. hd'.ext = 0
  <2>1. hd' = [hd EXCEPT !.extLba = ExtendedLba, !.fileSize = FileSize]
    BY DEF PlacePartition
  <2>2. hd.ext = 0
    BY <1>3 DEF CardPlaced
  <2>. QED  BY <1>1, <2>1, <2>2 DEF TypeInv, TypeOK
<1>7. ASSUME idx <= 2 PROVE CardPlaced'
  <2>1. /\ idx = 1 => Offset = Boot0Offset /\ FinalSize = SizeOf("boot0_sdcard.fex") /\ NowAfter = now
        /\ idx = 2 => /\ Offset = BootPackagesOffset /\ FinalSize = SizeOf("boot_package.fex")
                      /\ NowAfter = Offset + FinalSize
    BY <1>1, <1>7, BootTurn
  <2>2. idx = 1 \/ idx = 2
    BY <1>4, <1>7
  <2>3. Done' = 1 .. idx
    BY <1>1, <2>2 DEF Done
  <2>4. idx' <= 2 => now' = GptLocationBytes + 16384
    BY <1>1, <1>3, <2>1, <2>2 DEF CardPlaced
  <2>5. parts'[1].offset = Boot0Offset /\ parts'[1].size = SizeOf("boot0_sdcard.fex")
    <3>1. CASE idx = 1
      BY <1>1, <1>5, <2>1, <3>1
    <3>2. CASE idx = 2
      <4>1. 1 \in Done /\ parts'[1] = parts[1]
        BY <1>1, <3>2 DEF Done
      <4>. QED  BY <1>3, <4>1 DEF CardPlaced
    <3>. QED  BY <2>2, <3>1, <3>2
  <2>6. 2 \in Done' => parts'[2].offset = BootPackagesOffset /\ parts'[2].size = SizeOf("boot_package.fex")
    BY <1>1, <1>5, <2>1, <2>2, <2>3
  <2>7. \A i \in 1 .. Len(Kept) : i + 2 \notin Done'
    BY <1>2, <2>2, <2>3
  <2>8. idx' > 2 => now' = End(parts'[MinOf(idx' - 1, Len(Kept) + 2)])
    <3> SUFFICES ASSUME idx = 2 PROVE now' = End(parts'[MinOf(idx' - 1, Len(Kept) + 2)])
      BY <1>1, <2>2
    <3>1. MinOf(idx' - 1, Len(Kept) + 2) = 2
      BY <1>1, <1>2 DEF MinOf
    <3>. QED  BY <1>1, <1>5, <2>1, <3>1
  <2>9. ~(idx' > Len(Kept) + 6)
    BY <1>1, <1>2, <2>2
  <2>. QED  BY <1>3, <1>6, <2>4, <2>5, <2>6, <2>7, <2>8, <2>9 DEF CardPlaced
<1>8. ASSUME idx > 2
      PROVE  /\ 1 \in Done /\ 2 \in Done /\ parts'[1] = parts[1] /\ parts'[2] = parts[2]
             /\ parts'[1].offset = Boot0Offset /\ parts'[1].size = SizeOf("boot0_sdcard.fex")
             /\ parts'[2].offset = BootPackagesOffset /\ parts'[2].size = SizeOf("boot_package.fex")
             /\ \A i \in 1 .. Len(Kept) : i + 2 \in Done =>
                  SectionPlaced(i) /\ parts'[i + 2] = parts[i + 2] /\ parts'[i + 1] = parts[i + 1]
             /\ ~(idx' <= 2)
  <2>1. 1 \in Done /\ 2 \in Done /\ ~(idx' <= 2)
    BY <1>1, <1>8 DEF Done
  <2>2. parts'[1] = parts[1] /\ parts'[2] = parts[2]
    BY <1>1, <1>8
  <2>3. /\ parts'[1].offset = Boot0Offset /\ parts'[1].size = SizeOf("boot0_sdcard.fex")
        /\ parts'[2].offset = BootPackagesOffset /\ parts'[2].size = SizeOf("boot_package.fex")
    BY <1>3, <2>1, <2>2 DEF CardPlaced
  <2>4. ASSUME NEW i \in 1 .. Len(Kept), i + 2 \in Done
        PROVE  SectionPlaced(i) /\ parts'[i + 2] = parts[i + 2] /\ parts'[i + 1] = parts[i + 1]
    <3>1. i + 2 \in 1 .. Len(parts) /\ i + 1 \in 1 .. Len(parts) /\ i + 2 # idx /\ i + 1 # idx
      BY <1>1, <1>2, <2>4 DEF Done
    <3>. QED  BY <1>1, <1>3, <2>4, <3>1 DEF CardPlaced
  <2>. QED  BY <2>1, <2>2, <2>3, <2>4
<1>9. ASSUME idx > 2, idx <= n + 2 PROVE CardPlaced'
  <2>1. PICK k \in 1 .. Len(Kept) : idx = k + 2
    <3>1. idx - 2 \in 1 .. Len(Kept) /\ idx = (idx - 2) + 2
      BY <1>2, <1>4, <1>9
    <3>. QED  BY <3>1
  <2>2. /\ Offset = IF k = 1 THEN CardFirst ELSE End(parts[k + 1])
        /\ FinalSize = SpaceOf(Kept[k])
        /\ ~(SpaceOf(Kept[k]) = 0 \/ SizeOf(ImageOf(Kept[k])) > SpaceOf(Kept[k]))
        /\ SpaceOf(Kept[k]) \in Nat /\ SizeOf(ImageOf(Kept[k])) \in Nat
        /\ (Offset + FinalSize) % 512 = 0 /\ BootPackagesOffset <= Offset
        /\ NowAfter = Offset + FinalSize
    <3>1. pc = "place" /\ idx <= Len(parts) /\ ~PartitionRefused
      BY <1>1
    <3>2. SectionTurned(k)
      BY <2>1, <3>1, SectionTurn
    <3>. QED  BY <3>1, <3>2 DEF SectionTurned
  <2>3. parts'[k + 2] = Placed /\ parts'[k + 1] = parts[k + 1]
    <3>1. k + 1 \in 1 .. Len(parts) /\ k + 1 # idx
      BY <1>2, <1>4, <2>1
    <3>. QED  BY <1>1, <2>1, <3>1
  <2>4. SectionPlaced(k)'
    BY <1>3, <1>5, <2>2, <2>3 DEF SectionPlaced
  <2>5. ASSUME NEW i \in 1 .. Len(Kept), i + 2 \in Done' PROVE SectionPlaced(i)'
    <3>1. CASE i = k
      BY <2>4, <3>1
    <3>2. CASE i # k
      <4>1. i + 2 \in Done
        BY <1>1, <1>2, <2>1, <2>5, <3>2
      <4>2. SectionPlaced(i) /\ parts'[i + 2] = parts[i + 2] /\ parts'[i + 1] = parts[i + 1]
        BY <1>8, <1>9, <4>1
      <4>. QED  BY <1>3, <4>2 DEF SectionPlaced
    <3>. QED  BY <3>1, <3>2
  <2>6. now' = End(parts'[MinOf(idx' - 1, Len(Kept) + 2)])
    <3>1. MinOf(idx' - 1, Len(Kept) + 2) = k + 2
      BY <1>1, <1>2, <1>9, <2>1 DEF MinOf
    <3>. QED  BY <1>1, <1>5, <2>2, <2>3, <3>1
  <2>7. ~(idx' > Len(Kept) + 6)
    BY <1>1, <1>2, <1>9
  <2>. QED  BY <1>3, <1>6, <1>8, <1>9, <2>5, <2>6, <2>7 DEF CardPlaced
<1>10. ASSUME idx > n + 2 PROVE CardPlaced'
  <2>1. idx > 2 /\ n + 2 \in 1 .. Len(parts) /\ n + 2 # idx
    BY <1>2, <1>4, <1>10
  <2>2. now = End(parts[n + 2]) /\ parts'[n + 2] = parts[n + 2]
    <3>1. idx <= Len(Kept) + 6 /\ MinOf(idx - 1, Len(Kept) + 2) = n + 2
      BY <1>2, <1>4, <1>10 DEF MinOf
    <3>. QED  BY <1>1, <1>3, <2>1, <3>1 DEF CardPlaced
  <2>3. ASSUME NEW i \in 1 .. Len(Kept), i + 2 \in Done' PROVE SectionPlaced(i)'
    <3>1. i + 2 \in Done
      BY <1>1, <1>2, <1>10, <2>3
    <3>2. SectionPlaced(i) /\ parts'[i + 2] = parts[i + 2] /\ parts'[i + 1] = parts[i + 1]
      BY <1>8, <2>1, <3>1
    <3>. QED  BY <1>3, <3>2 DEF SectionPlaced
  <2>4. idx' <= Len(Kept) + 6 => now' = End(parts'[MinOf(idx' - 1, Len(Kept) + 2)])
    <3> SUFFICES ASSUME idx' <= Len(Kept) + 6 PROVE now' = End(parts'[MinOf(idx' - 1, Len(Kept) + 2)])
      OBVIOUS
    <3>1. idx < n + 6 /\ MinOf(idx' - 1, Len(Kept) + 2) = n + 2
      BY <1>1, <1>2, <1>4, <1>10 DEF MinOf
    <3>2. NowAfter = now
      BY <1>1, <1>2, <1>10, <3>1, AreaTurn
    <3>. QED  BY <1>1, <2>2, <3>1, <3>2
  <2>5. idx' > Len(Kept) + 6 => now' <= End(parts'[Len(Kept) + 2]) + BackupSize + 4096
    <3> SUFFICES ASSUME idx' > Len(Kept) + 6 PROVE now' <= End(parts'[Len(Kept) + 2]) + BackupSize + 4096
      OBVIOUS
    <3>1. idx = n + 6
      BY <1>1, <1>2, <1>4
    <3>2. NowAfter <= now + BackupSize + 4096
      BY <1>1, <1>2, <3>1, BackupTurn
    <3>. QED  BY <1>1, <1>2, <2>2, <3>2
  <2>. QED  BY <1>3, <1>6, <1>8, <2>1, <2>3, <2>4, <2>5 DEF CardPlaced
<1>11. CardPlaced'
  BY <1>2, <1>4, <1>7, <1>9, <1>10
<1>12. hybridEntries' = BootCount(idx' - 3)
  <2>1. hybridEntries' = hybridEntries
            + (IF "gpt" \in hd.table /\ cur.inTable /\ cur.ptype # 0 THEN 1 ELSE 0)
    BY DEF PlacePartition
  <2>2. /\ \A k \in Int : BootCount(k) \in Nat
        /\ \A k \in Int : k <= 0 => BootCount(k) = 0
        /\ \A k \in Int : k >= n => BootCount(k) = Cardinality(BootResources(Kept))
        /\ \A k \in 0 .. n - 1 :
             BootCount(k + 1) = BootCount(k) + IF IsBootResource(Kept[k + 1]) THEN 1 ELSE 0
    BY <1>2, <1>3, BootCounts
  <2>3. CurListed(n)
    BY <1>1, <1>2, CurIs
  <2>4. idx - 3 \in Int /\ idx' - 3 = idx - 2 /\ idx - 2 \in Int
    BY <1>1
  <2>5. CASE idx <= 2
    <3>1. ~cur.inTable
      <4>1. idx = 1 \/ idx = 2
        BY <1>4, <2>5
      <4>. QED  BY <2>3, <4>1 DEF CurListed, BootListed
    <3>2. BootCount(idx - 3) = 0 /\ BootCount(idx - 2) = 0
      <4>1. idx - 3 <= 0 /\ idx - 2 <= 0
        BY <1>1, <2>5
      <4>. QED  BY <2>2, <2>4, <4>1
    <3>3. hybridEntries' = 0
      BY <1>3, <2>1, <3>1, <3>2
    <3>. QED  BY <2>4, <3>2, <3>3
  <2>6. CASE idx > 2 /\ idx <= n + 2
    <3>1. PICK k \in 0 .. n - 1 : k = idx - 3 /\ k + 1 = idx - 2 /\ idx = (k + 1) + 2
      <4>1. idx - 3 \in 0 .. n - 1
        BY <1>2, <1>4, <2>6
      <4>. QED  BY <1>4, <4>1
    <3>2. cur.inTable = TRUE /\ (cur.ptype # 0 <=> IsBootResource(Kept[k + 1]))
      <4>1. k + 1 \in 1 .. Len(Kept)
        BY <1>2, <3>1
      <4>2. pc = "place" /\ idx <= Len(parts)
        BY <1>1
      <4>3. SectionTurned(k + 1)
        BY <3>1, <4>1, <4>2, SectionTurn
      <4>. QED  BY <4>3 DEF SectionTurned
    <3>. QED  BY <1>3, <1>4, <2>1, <2>2, <2>4, <3>1, <3>2
  <2>7. CASE idx > n + 2
    <3>1. cur.inTable = FALSE
      BY <2>3, <2>7 DEF CurListed
    <3>2. idx - 3 >= n /\ idx - 2 >= n
      BY <1>1, <1>2, <2>7
    <3>3. BootCount(idx - 3) = BootCount(idx - 2) /\ BootCount(idx - 3) \in Nat
      BY <2>2, <2>4, <3>2
    <3>. QED  BY <1>3, <2>1, <2>4, <3>1, <3>3
  <2>. QED  BY <1>2, <1>4, <2>5, <2>6, <2>7
<1>13. BootCount(idx - 3)' = BootCount(idx' - 3)
  BY <1>3 DEF BootCount
<1>14. pc' # "done"
  BY <1>1 DEF PlacePartition
<1>. QED  BY <1>1, <1>3, <1>11, <1>12, <1>13, <1>14 DEF CardInv

\* The options are settled, and nothing is placed.
LEMMA CardOptionsStep ==
  ASSUME NEW M \in Nat, Fits(M), HdInv(M), CardInv, SetupOptions, fex' = fex
  PROVE  CardInv'
<1>1. /\ pc = "options" /\ idx = 1 /\ ret = "none" /\ cfg \in Configs
  BY DEF HdInv, TypeInv, ListInv, SetupOptions
<1>2. /\ pc' = "place" /\ ret' = ret /\ idx' = idx /\ cfg' = cfg /\ hybridEntries' = hybridEntries
      /\ hd'.ext = ExtendedPartition(cfg) /\ now' = FirstFree(cfg)
  BY DEF SetupOptions
<1>3. fex \in Fexes /\ cfg = HdimageSection(fex) /\ hybridEntries = BootCount(idx - 3) /\ Kept' = Kept
  BY DEF CardInv, Kept
<1>4. CardSettled(cfg, fex)
  <2>1. IsCard(cfg, fex, Kept)
    BY <1>3 DEF IsCard, Kept, CardInv
  <2>. QED  BY <2>1, CardConfig
<1>5. ExtendedPartition(cfg) = 0 /\ "gpt" \in TableType(cfg) /\ GptLocation(cfg) = GptLocationBytes
  BY <1>4 DEF CardSettled
<1>6. FirstFree(cfg) = GptLocationBytes + 16384
  BY <1>1, <1>5, FirstFreeRange
<1>7. Done' = {}
  BY <1>1, <1>2 DEF Done
<1>8. Len(Kept) \in Nat
  BY <1>3, KeptOf DEF Kept
<1>9. CardPlaced'
  BY <1>1, <1>2, <1>3, <1>5, <1>6, <1>7, <1>8 DEF CardPlaced
<1>10. BootCount(idx - 3)' = BootCount(idx - 3)
  BY <1>2, <1>3 DEF BootCount
<1>. QED  BY <1>1, <1>2, <1>3, <1>9, <1>10 DEF CardInv

\* Why a step refuses: the table is unfit.
LEMMA CardRefuseStep ==
  ASSUME NEW M \in Nat, Fits(M), HdInv(M), CardInv,
         RefuseOptions \/ BlockDeviceError \/ RefusePartition \/ RefuseFinish
  PROVE  Unfit(fex)
<1>1. fex \in Fexes /\ IsCard(cfg, fex, Kept)
  BY DEF CardInv, IsCard, Kept
<1>2. CardSettled(cfg, fex)
  BY <1>1, CardConfig
<1>3. PICK n \in Nat : n = Len(Kept)
  BY <1>1, KeptOf DEF Kept
<1>4. ~RefuseOptions /\ ~BlockDeviceError
  BY <1>2 DEF CardSettled, RefuseOptions, BlockDeviceError
<1>5. CASE RefusePartition
  <2>1. pc = "place" /\ idx <= Len(parts) /\ PartitionRefused
    BY <1>5 DEF RefusePartition
  <2>2. idx \in 1 .. n + 6
    BY <1>3, <2>1, CurGoes, SMT
  <2>3. idx > 2
    BY <2>1, <2>2, BootTurn
  <2>4. ~(n + 2 < idx /\ idx < n + 6)
    BY <1>3, <2>1, AreaTurn
  <2>5. idx # n + 6
    BY <1>3, <2>1, BackupTurn
  <2>6. PICK i \in 1 .. Len(Kept) : idx = i + 2
    <3>1. idx - 2 \in 1 .. Len(Kept) /\ idx = (idx - 2) + 2
      BY <1>3, <2>2, <2>3, <2>4, <2>5
    <3>. QED  BY <3>1
  <2>7. SpaceOf(Kept[i]) = 0 \/ SizeOf(ImageOf(Kept[i])) > SpaceOf(Kept[i])
    BY <2>1, <2>6, SectionTurn DEF SectionTurned
  <2>8. i \in DOMAIN Kept
    BY <1>1, KeptOf DEF Kept
  <2>. QED  BY <2>7, <2>8 DEF Unfit, Kept
<1>6. CASE RefuseFinish
  <2>1. pc = "place" /\ idx > Len(parts) /\ FinishRefused
    BY <1>6 DEF RefuseFinish
  <2>2. Settled
    BY <2>1 DEF HdInv, TypeInv, TypeOK, Settled
  <2>3. TypeInv /\ ListInv /\ Len(parts) = n + 6 /\ hd.table = TableType(cfg)
    BY <1>3, <2>2, CardSettles
  <2>4. size = 0
    BY <1>2, <2>1, <2>2, <2>3 DEF ListInv, CardSettled
  <2>5. hybridEntries > 3 \/ (hd.table = {"mbr", "gpt"} /\ hybridEntries = 0)
    BY <2>1, <2>4 DEF FinishRefused
  <2>6. hybridEntries = Cardinality(BootResources(Kept)) /\ IsFiniteSet(BootResources(Kept))
    <3>1. idx - 3 \in Int /\ idx - 3 >= n
      BY <2>1, <2>3 DEF TypeInv, TypeOK
    <3>. QED  BY <1>1, <1>3, <3>1, BootCounts DEF CardInv
  <2>7. CASE hybridEntries > 3
    BY <2>6, <2>7 DEF Unfit, Kept
  <2>8. CASE hd.table = {"mbr", "gpt"} /\ hybridEntries = 0
    <3>1. BootResources(fex) # {}
      BY <1>2, <2>3, <2>8 DEF CardSettled
    <3>2. BootResources(Kept) = {}
      BY <2>6, <2>8, FS_EmptySet
    <3>. QED  BY <3>1, <3>2 DEF Unfit, Kept
  <2>. QED  BY <2>5, <2>7, <2>8
<1>. QED  BY <1>4, <1>5, <1>6

\* The table is accepted.
LEMMA CardFinishStep ==
  ASSUME NEW M \in Nat, Fits(M), HdInv(M), CardInv, FinishSetup, fex' = fex
  PROVE  CardInv'
<1>1. fex \in Fexes /\ cfg = HdimageSection(fex) /\ IsCard(cfg, fex, Kept) /\ Kept' = Kept
  BY DEF CardInv, IsCard, Kept
<1>2. CardSettled(cfg, fex)
  BY <1>1, CardConfig
<1>3. PICK n \in Nat : n = Len(Kept)
  BY <1>1, KeptOf DEF Kept
<1>4. /\ pc = "place" /\ idx > Len(parts) /\ ~FinishRefused
      /\ pc' = "done" /\ ret' = "ok" /\ UNCHANGED <<cfg, parts, idx, now, tableEntries, hybridEntries, autoPart>>
      /\ size' = IF size = 0 THEN now ELSE size
  BY DEF FinishSetup
<1>5. Settled
  BY <1>4 DEF HdInv, TypeInv, TypeOK, Settled
<1>6. TypeInv /\ ListInv /\ CardPlaced /\ Len(parts) = n + 6 /\ hd.table = TableType(cfg)
  BY <1>3, <1>5, CardSettles
<1>7. idx = n + 7
  BY <1>4, <1>6 DEF TypeInv, TypeOK
<1>8. size = 0 /\ size' = now
  BY <1>2, <1>4, <1>5, <1>6 DEF ListInv, CardSettled
<1>9. ~(hybridEntries > 3) /\ ~(hd.table = {"mbr", "gpt"} /\ hybridEntries = 0)
  BY <1>4 DEF FinishRefused
<1>10. hybridEntries \in Nat
  BY <1>6 DEF TypeInv, TypeOK
<1>11. hybridEntries <= 3 /\ (BootResources(fex) # {} => hybridEntries # 0)
  BY <1>2, <1>6, <1>9, <1>10 DEF CardSettled
<1>12. hd'.ext = hd.ext /\ Settled'
  BY <1>5, <1>6 DEF FinishSetup, TypeInv, TypeOK, Settled
<1>13. Done' = Done
  BY <1>4 DEF Done
<1>14. CardPlaced'
  <2>1. \A i \in 1 .. Len(Kept) : SectionPlaced(i) => SectionPlaced(i)'
    BY <1>1, <1>4 DEF SectionPlaced
  <2>. QED  BY <1>1, <1>4, <1>6, <1>12, <1>13, <2>1 DEF CardPlaced
<1>15. BootCount(idx - 3)' = BootCount(idx - 3) /\ hybridEntries = BootCount(idx - 3)
  BY <1>1, <1>4 DEF BootCount, CardInv
<1>. QED  BY <1>1, <1>3, <1>4, <1>7, <1>8, <1>11, <1>12, <1>14, <1>15 DEF CardInv

\* What changes nothing but the verdict.
LEMMA CardKept ==
  ASSUME CardInv, UNCHANGED <<cfg, hd, size, parts, idx, now, hybridEntries, fex>>,
         ret' # "none" \/ pc' # "done", ret' = "ok" => ret = "ok", ret' = "einval" => Unfit(fex)
  PROVE  CardInv'
<1>1. Kept' = Kept /\ Done' = Done /\ (Settled' <=> Settled)
  BY DEF Kept, Done, Settled
<1>2. \A i \in 1 .. Len(Kept) : SectionPlaced(i) => SectionPlaced(i)'
  BY <1>1 DEF SectionPlaced
<1>3. CardPlaced => CardPlaced'
  BY <1>1, <1>2 DEF CardPlaced
<1>4. BootCount(idx - 3)' = BootCount(idx - 3)
  BY <1>1 DEF BootCount
<1>5. /\ Unfit(fex)' = Unfit(fex) /\ BootResources(fex)' = BootResources(fex)
      /\ OwnNames(fex)' = OwnNames(fex)
  BY Zenon
<1>. QED  BY <1>1, <1>3, <1>4, <1>5 DEF CardInv

\* Every step of a card's layout.
LEMMA CardStep ==
  ASSUME NEW M \in Nat, Fits(M), HdInv(M), CardInv, [CardNext]_<<vars, fex>> PROVE CardInv'
<1>1. CASE UNCHANGED <<vars, fex>>
  BY <1>1, CardKept DEF vars, CardInv
<1>2. CASE Next /\ fex' = fex
  <2>1. CASE SetupOptions
    BY <1>2, <2>1, CardOptionsStep
  <2>2. CASE PlacePartition
    BY <1>2, <2>2, CardPlaceStep
  <2>3. CASE FinishSetup
    BY <1>2, <2>3, CardFinishStep
  <2>4. CASE RefuseOptions \/ BlockDeviceError \/ RefusePartition \/ RefuseFinish
    <3>1. Unfit(fex)
      BY <2>4, CardRefuseStep
    <3>2. Refuse
      BY <2>4 DEF RefuseOptions, BlockDeviceError, RefusePartition, RefuseFinish
    <3>. QED  BY <1>2, <3>1, <3>2, CardKept DEF Refuse
  <2>5. CASE Returned
    BY <1>2, <2>5, CardKept DEF Returned, vars, CardInv
  <2>. QED  BY <1>2, <2>1, <2>2, <2>3, <2>4, <2>5 DEF Next, Setup
<1>. QED  BY <1>1, <1>2 DEF CardNext

\* The invariant, for a table without the titles of the boot files.
OwnInv == OwnNames(fex) => CardInv

\* It holds in every execution.
LEMMA CardInvariant ==
  ASSUME NEW M \in Nat, Fits(M) PROVE CardSpec => [](HdInv(M) /\ OwnInv)
<1>1. CardInit => HdInv(M) /\ OwnInv
  BY CardInitInv, InitHdInv DEF CardInit, OwnInv
<1>2. HdInv(M) /\ OwnInv /\ [CardNext]_<<vars, fex>> => (HdInv(M) /\ OwnInv)'
  <2> SUFFICES ASSUME HdInv(M), OwnInv, [CardNext]_<<vars, fex>> PROVE HdInv(M)' /\ OwnInv'
    OBVIOUS
  <2>1. [Next]_vars
    BY DEF CardNext
  <2>2. HdInv(M)'
    <3>1. CASE SetupOptions
      BY <3>1, SetupOptionsHd
    <3>2. CASE PlacePartition
      BY <3>2, PlacePartitionHd
    <3>3. CASE FinishSetup
      BY <3>3, FinishSetupHd
    <3>4. CASE (pc # "done" /\ Refuse) \/ UNCHANGED vars
      BY <3>4, OtherStepsHd
    <3>. QED  BY <2>1, <3>1, <3>2, <3>3, <3>4, StepCases
  <2>3. fex' = fex
    BY DEF CardNext
  <2>4. OwnInv'
    BY <2>3, CardStep DEF OwnInv
  <2>. QED  BY <2>2, <2>4
<1>. QED  BY <1>1, <1>2, PTL DEF CardSpec

-----------------------------------------------------------------------------
(***************************************************************************)
(* The properties.                                                         *)
(***************************************************************************)
\* What an accepted table looks like.
LEMMA CardAccepted ==
  ASSUME NEW M \in Nat, Fits(M), HdInv(M), CardInv, ret = "ok"
  PROVE  /\ fex \in Fexes /\ CardPlaced /\ idx = Len(Kept) + 7 /\ size = now /\ Len(Kept) \in Nat
         /\ DOMAIN Kept = 1 .. Len(Kept) /\ \A i \in 1 .. Len(Kept) : SectionPlaced(i)
         /\ hybridEntries = Cardinality(BootResources(Kept))
         /\ hybridEntries <= 3 /\ (BootResources(fex) # {} => hybridEntries # 0)
         /\ 2 \in Done
<1>1. /\ fex \in Fexes /\ CardPlaced /\ idx = Len(Kept) + 7 /\ size = now
      /\ hybridEntries = BootCount(idx - 3)
      /\ hybridEntries <= 3 /\ (BootResources(fex) # {} => hybridEntries # 0)
  BY DEF CardInv
<1>2. Len(Kept) \in Nat /\ DOMAIN Kept = 1 .. Len(Kept)
  BY <1>1, KeptOf DEF Kept
<1>3. \A i \in 1 .. Len(Kept) : SectionPlaced(i)
  <2> SUFFICES ASSUME NEW i \in 1 .. Len(Kept) PROVE SectionPlaced(i)
    OBVIOUS
  <2>1. i + 2 \in Done
    BY <1>1, <1>2 DEF Done
  <2>. QED  BY <1>1, <2>1 DEF CardPlaced
<1>4. hybridEntries = Cardinality(BootResources(Kept))
  <2>1. PICK n \in Nat : n = Len(Kept)
    BY <1>2
  <2>2. idx - 3 \in Int /\ idx - 3 >= n
    BY <1>1, <2>1
  <2>. QED  BY <1>1, <2>1, <2>2, BootCounts
<1>5. 2 \in Done
  BY <1>1, <1>2 DEF Done
<1>. QED  BY <1>1, <1>2, <1>3, <1>4, <1>5

\* A partition table is refused exactly when a section that is kept has no data, or a
\* file larger than its size, or when the hybrid MBR cannot show its boot resources:
\* what the configuration fixes never stands in the way of the partitions, where none
\* has the title of a boot file.
THEOREM RefusedExactly ==
  ASSUME NEW M \in Nat, Fits(M) PROVE CardSpec => []RefusedIffUnfit
<1>1. HdInv(M) /\ OwnInv => RefusedIffUnfit
  <2> SUFFICES ASSUME HdInv(M), CardInv, pc = "done" PROVE ret = "einval" <=> Unfit(fex)
    BY DEF RefusedIffUnfit, OwnInv
  <2>1. ret = "ok" \/ ret = "einval"
    BY DEF CardInv, HdInv, TypeInv, TypeOK
  <2>2. ret = "einval" => Unfit(fex)
    BY DEF CardInv
  <2>3. ASSUME ret = "ok" PROVE ~Unfit(fex)
    <3>1. /\ fex \in Fexes /\ DOMAIN Kept = 1 .. Len(Kept) /\ \A i \in 1 .. Len(Kept) : SectionPlaced(i)
          /\ hybridEntries = Cardinality(BootResources(Kept))
          /\ hybridEntries <= 3 /\ (BootResources(fex) # {} => hybridEntries # 0)
      BY <2>3, CardAccepted
    <3>2. ASSUME NEW i \in DOMAIN Kept
          PROVE  ~(SpaceOf(Kept[i]) = 0 \/ SizeOf(ImageOf(Kept[i])) > SpaceOf(Kept[i]))
      <4>1. SectionPlaced(i)
        BY <3>1
      <4>2. SpaceOf(Kept[i]) # 0 /\ SizeOf(ImageOf(Kept[i])) <= SpaceOf(Kept[i])
        BY <4>1 DEF SectionPlaced
      <4>3. SizeOf(ImageOf(Kept[i])) \in Nat
        <5>1. SizeOf(ImageOf(Kept[i])) \in 0 .. ULL - 1
          BY <3>1, KeptOf DEF Kept
        <5>2. ULL \in Nat
          BY ULLAssumption
        <5>. QED  BY <5>1, <5>2
      <4>4. SpaceOf(Kept[i]) \in Nat
        <5>1. Bytes(Kept[i]) \in Nat
          BY <3>1, KeptOf DEF Kept
        <5>2. ToSector(SizeOf(ImageOf(Kept[i]))) \in Nat
          BY <4>3, ToSectorBounds
        <5>. QED  BY <5>1, <5>2 DEF SpaceOf
      <4>. QED  BY <4>2, <4>3, <4>4
    <3>3. hybridEntries \in Nat
      BY DEF HdInv, TypeInv, TypeOK
    <3>4. ~(Cardinality(BootResources(Kept)) > 3)
      BY <3>1, <3>3
    <3>5. BootResources(fex) # {} => BootResources(Kept) # {}
      BY <3>1, FS_EmptySet
    <3>. QED  BY <3>2, <3>4, <3>5 DEF Unfit, Kept
  <2>. QED  BY <2>1, <2>2, <2>3
<1>. QED  BY <1>1, CardInvariant, PTL

\* The partitions of an accepted table follow the boot package without gaps, in the
\* order in which the table names them first, each with the size it gives last, where
\* none has the title of a boot file.
THEOREM PartitionsInOrder ==
  ASSUME NEW M \in Nat, Fits(M) PROVE CardSpec => []PartitionsFollow
<1>1. HdInv(M) /\ OwnInv => PartitionsFollow
  <2> SUFFICES ASSUME HdInv(M), CardInv, ret = "ok", NEW i \in DOMAIN Kept
               PROVE  /\ parts[i + 2].size = SpaceOf(Kept[i])
                      /\ parts[i + 2].offset = IF i = 1 THEN CardFirst ELSE End(parts[i + 1])
    BY DEF PartitionsFollow, Kept, CardFirst, OwnInv
  <2>1. SectionPlaced(i)
    BY CardAccepted
  <2>. QED  BY <2>1 DEF SectionPlaced
<1>. QED  BY <1>1, CardInvariant, PTL

-----------------------------------------------------------------------------
(***************************************************************************)
(* The reported size.                                                      *)
(***************************************************************************)
\* The three conditions of ReportedSizeSuffices.
EverySized  == \A i \in DOMAIN fex : Bytes(fex[i]) # 0
Countable   == Kilobytes(fex, Len(fex)) + Compensation < UINT
Compensated == ToSector(SizeOf("boot_package.fex")) + BackupSize + 4096 <= GptLocationBytes + Boot0Offset

\* Where the partitions of an accepted table end, if every section has a size.
PlacedEndAt(m) == parts[m + 2].offset + parts[m + 2].size <= CardFirst + 1024 * Kilobytes(Kept, m)

\* The compensation is a whole number of kilobytes.
LEMMA KilobyteSums ==
  \A a \in Nat : (a + 17432) * 1024 = 1024 * a + GptLocationBytes + Boot0Offset + BootPackagesOffset
BY SMT DEF GptLocationBytes, Boot0Offset, BootPackagesOffset

\* By least counterexample over the sections.
LEMMA EndsByKilobytes ==
  ASSUME NEW M \in Nat, Fits(M), HdInv(M), CardInv, ret = "ok", EverySized,
         NEW n \in 0 .. Len(Kept)
  PROVE  PlacedEndAt(n)
<1>1. /\ fex \in Fexes /\ CardPlaced /\ Len(Kept) \in Nat /\ DOMAIN Kept = 1 .. Len(Kept)
      /\ \A i \in 1 .. Len(Kept) : SectionPlaced(i)
      /\ 2 \in Done
  BY CardAccepted
<1> DEFINE Bad == {k \in 0 .. Len(Kept) : ~PlacedEndAt(k)}
<1>2. SUFFICES ASSUME Bad # {} PROVE FALSE
  OBVIOUS
<1>3. PICK m \in Bad : \A k \in Bad : m <= k
  <2>1. Bad \subseteq Nat
    OBVIOUS
  <2>. QED  BY <1>2, <2>1, LeastOf
<1>4. m \in 0 .. Len(Kept) /\ m \in Nat /\ ~PlacedEndAt(m)
  OBVIOUS
<1>5. m > 0 => PlacedEndAt(m - 1)
  <2> SUFFICES ASSUME m > 0, ~PlacedEndAt(m - 1) PROVE FALSE
    OBVIOUS
  <2>1. m - 1 \in Bad
    BY <1>1, <1>4
  <2>. QED  BY <1>3, <1>4, <2>1
<1>6. Kept \in Seq(Section)
  BY <1>1, KeptOf DEF Kept
<1>7. CardFirst \in Nat /\ BootPackagesOffset \in Nat
      /\ BootPackagesOffset + SizeOf("boot_package.fex") <= CardFirst
      /\ SizeOf("boot_package.fex") \in Nat
  <2>1. SizeOf("boot_package.fex") \in Nat
    BY PackageSized
  <2>2. BootPackagesOffset + SizeOf("boot_package.fex") \in Nat
    BY <2>1, Places
  <2>3. PICK v : v \in Nat /\ v = BootPackagesOffset + SizeOf("boot_package.fex")
    BY <2>2
  <2>4. ToSector(v) \in Nat /\ v <= ToSector(v)
    BY <2>3, ToSectorBounds
  <2>5. CardFirst = ToSector(v)
    BY <2>3 DEF CardFirst
  <2>. QED  BY <2>1, <2>3, <2>4, <2>5, Places
<1>8. CASE m = 0
  <2>1. parts[2].offset = BootPackagesOffset /\ parts[2].size = SizeOf("boot_package.fex")
    BY <1>1 DEF CardPlaced
  <2>2. Kilobytes(Kept, 0) = 0
    BY KilobytesStep
  <2>3. parts[2].offset + parts[2].size <= CardFirst + 1024 * 0
    BY <1>7, <2>1
  <2>4. m + 2 = 2
    BY <1>8
  <2>. QED  BY <1>4, <1>8, <2>2, <2>3, <2>4 DEF PlacedEndAt
<1>9. CASE m > 0
  <2>1. m \in 1 .. Len(Kept) /\ SectionPlaced(m)
    BY <1>1, <1>4, <1>9
  <2>2. PICK s : s = Kept[m]
    OBVIOUS
  <2>3. s \in Section /\ Bytes(s) \in Nat /\ \E j \in DOMAIN fex : s = fex[j]
    BY <1>1, <2>1, <2>2, KeptOf, ZenonT(30) DEF Kept
  <2>4. Bytes(s) # 0
    BY <2>3 DEF EverySized
  <2>5. SpaceOf(s) = Bytes(s)
    BY <2>4 DEF SpaceOf
  <2>6. PICK h : h \in Nat /\ h = s.sectors \div 2
    <3>1. s.sectors \in Nat
      BY <2>3 DEF Section
    <3>. QED  BY <3>1
  <2>7. parts[m + 2].size = h * 1024
    BY <2>1, <2>2, <2>5, <2>6 DEF SectionPlaced, Bytes
  <2>8. PICK k : k \in Nat /\ k = Kilobytes(Kept, m - 1)
    <3>1. m - 1 \in 0 .. Len(Kept)
      BY <1>1, <1>4, <1>9
    <3>. QED  BY <1>6, <3>1, KilobytesType
  <2>9. Kilobytes(Kept, m) = k + h
    BY <1>4, <1>9, <2>2, <2>6, <2>8, KilobytesStep
  <2>10. parts[m + 2].offset <= CardFirst + 1024 * k
    <3>1. CASE m = 1
      <4>1. parts[m + 2].offset = CardFirst
        BY <2>1, <3>1 DEF SectionPlaced
      <4>. QED  BY <1>7, <2>8, <4>1
    <3>2. CASE m # 1
      <4>1. parts[m + 2].offset = parts[m + 1].offset + parts[m + 1].size
        BY <2>1, <3>2 DEF SectionPlaced, End
      <4>2. (m - 1) + 2 = m + 1
        BY <1>4
      <4>3. parts[m + 1].offset + parts[m + 1].size <= CardFirst + 1024 * k
        BY <1>5, <1>9, <2>8, <4>2 DEF PlacedEndAt
      <4>. QED  BY <4>1, <4>3
    <3>. QED  BY <3>1, <3>2
  <2>11. parts[m + 2].offset \in Nat
    <3>1. ListInv /\ TypeInv /\ Len(parts) = Len(Kept) + 6
      <4>1. Settled
        BY DEF CardInv
      <4>. QED  BY <4>1, CardSettles
    <3>2. m + 2 \in 1 .. Len(parts)
      BY <1>1, <1>4, <3>1
    <3>3. parts[m + 2] \in Partition
      BY <3>1, <3>2 DEF TypeInv, TypeOK
    <3>. QED  BY <3>3 DEF Partition
  <2>12. parts[m + 2].offset + h * 1024 <= CardFirst + 1024 * (k + h)
    <3>1. PICK o : o \in Nat /\ o = parts[m + 2].offset
      BY <2>11
    <3>2. PICK f : f \in Nat /\ f = CardFirst
      BY <1>7
    <3>3. o <= f + 1024 * k
      BY <2>10, <3>1, <3>2
    <3>4. o \in Nat /\ f \in Nat /\ k \in Nat /\ h \in Nat
      BY <2>6, <2>8, <3>1, <3>2
    <3>5. o + h * 1024 <= f + 1024 * (k + h)
      BY <3>3, <3>4, SMT
    <3>. QED  BY <3>1, <3>2, <3>5
  <2>. QED  BY <1>4, <2>7, <2>9, <2>12 DEF PlacedEndAt
<1>. QED  BY <1>4, <1>8, <1>9

\* The size reported to the user is enough for the image, if an unsigned int can
\* hold it, every section has a size and the boot package with the backup GPT
\* behind the partitions stays within the compensation, where no section has the title
\* of a boot file.
THEOREM ReportedSizeEnough ==
  ASSUME NEW M \in Nat, Fits(M) PROVE CardSpec => [](OwnNames(fex) => ReportedSizeSuffices)
<1>1. HdInv(M) /\ OwnInv => (OwnNames(fex) => ReportedSizeSuffices)
  <2> SUFFICES ASSUME HdInv(M), CardInv, ret = "ok", EverySized, Countable, Compensated
               PROVE  size <= RealSize(fex) * 1024
    BY DEF ReportedSizeSuffices, EverySized, Countable, Compensated, OwnInv
  <2>1. PICK n : n \in Nat /\ n = Len(Kept)
    BY CardAccepted
  <2>2. fex \in Fexes /\ CardPlaced /\ idx = n + 7 /\ size = now
    BY <2>1, CardAccepted
  <2>3. now <= parts[n + 2].offset + parts[n + 2].size + BackupSize + 4096
    <3>1. idx > Len(Kept) + 6
      BY <2>1, <2>2
    <3>2. now <= End(parts[n + 2]) + BackupSize + 4096
      BY <2>1, <2>2, <3>1 DEF CardPlaced
    <3>. QED  BY <3>2 DEF End
  <2>4. PICK k : k \in Nat /\ k = Kilobytes(Kept, n)
    <3>1. Kept \in Seq(Section)
      BY <2>2, KeptOf DEF Kept
    <3>. QED  BY <2>1, <3>1, KilobytesType
  <2>5. parts[n + 2].offset + parts[n + 2].size <= CardFirst + 1024 * k
    <3>1. n \in 0 .. Len(Kept)
      BY <2>1
    <3>. QED  BY <2>4, <3>1, EndsByKilobytes DEF PlacedEndAt
  <2>6. PICK all : all \in Nat /\ all = Kilobytes(fex, Len(fex))
    <3>1. fex \in Seq(Section) /\ Len(fex) \in 0 .. Len(fex)
      BY <2>2, KeptOf
    <3>. QED  BY <3>1, KilobytesType
  <2>7. k <= all
    BY <2>1, <2>2, <2>4, <2>6, KeptOf DEF Kept
  <2>8. PICK b : b \in Nat /\ b = SizeOf("boot_package.fex")
    BY PackageSized
  <2>9. PICK t : t \in Nat /\ t = ToSector(b)
    BY <2>8, ToSectorBounds
  <2>10. CardFirst = BootPackagesOffset + t
    <3>1. CardFirst = ToSector(BootPackagesOffset + b)
      BY <2>8 DEF CardFirst
    <3>2. (16400 * 1024 + b + 511) \div 512 = 32800 + (b + 511) \div 512
      BY <2>8
    <3>. QED  BY <2>8, <2>9, <3>1, <3>2 DEF ToSector, Sector, BootPackagesOffset
  <2>11. RealSize(fex) * 1024 = 1024 * all + GptLocationBytes + Boot0Offset + BootPackagesOffset
    <3>1. Compensation = 17432
      BY SMT DEF Compensation, GptLocationBytes, Boot0Offset, BootPackagesOffset
    <3>2. PICK k0 : k0 \in Nat /\ k0 = all + 17432
      BY <2>6
    <3>3. RealSize(fex) = all + 17432
      <4>1. RealSize(fex) = k0 % UINT /\ k0 < UINT
        BY <2>6, <3>1, <3>2 DEF RealSize, Countable
      <4>2. k0 % UINT = k0
        BY <3>2, <4>1, UINTAssumption
      <4>. QED  BY <3>2, <4>1, <4>2
    <3>4. (all + 17432) * 1024 = 1024 * all + GptLocationBytes + Boot0Offset + BootPackagesOffset
      BY <2>6, KilobyteSums
    <3>. QED  BY <3>3, <3>4
  <2>12. now \in Nat /\ BackupSize \in Nat /\ parts[n + 2].offset \in Nat /\ parts[n + 2].size \in Nat
    <3>1. ListInv /\ TypeInv /\ Len(parts) = n + 6
      <4>1. Settled
        BY DEF CardInv
      <4>. QED  BY <2>1, <4>1, CardSettles
    <3>2. n + 2 \in 1 .. Len(parts)
      BY <2>1, <3>1
    <3>3. parts[n + 2] \in Partition /\ now \in Nat
      BY <3>1, <3>2 DEF TypeInv, TypeOK
    <3>4. BackupSize \in Nat
      BY DEF BackupSize, Sector, GptSectors
    <3>. QED  BY <3>3, <3>4 DEF Partition
  <2>13. t + BackupSize + 4096 <= GptLocationBytes + Boot0Offset
    <3>1. ToSector(SizeOf("boot_package.fex")) = t
      BY <2>8, <2>9
    <3>. QED  BY <3>1 DEF Compensated
  <2>14. now <= 1024 * k + BootPackagesOffset + t + BackupSize + 4096
    BY <2>3, <2>4, <2>5, <2>9, <2>10, <2>12, Places
  <2>15. 1024 * k <= 1024 * all
    BY <2>4, <2>6, <2>7
  <2>16. now <= 1024 * all + GptLocationBytes + Boot0Offset + BootPackagesOffset
    <3>1. PICK c : c \in Nat /\ c = 1024 * all
      BY <2>6
    <3>2. PICK u : u \in Nat /\ u = t + BackupSize + 4096
      BY <2>9, <2>12
    <3>3. now <= c + BootPackagesOffset + u
      <4>1. PICK d : d \in Nat /\ d = 1024 * k
        BY <2>4
      <4>2. d <= c
        BY <2>15, <3>1, <4>1
      <4>3. now <= d + BootPackagesOffset + u
        BY <2>9, <2>12, <2>14, <3>2, <4>1, Places
      <4>. QED  BY <2>12, <3>1, <3>2, <4>1, <4>2, <4>3, Places
    <3>4. u <= GptLocationBytes + Boot0Offset
      BY <2>13, <3>2
    <3>5. now <= c + GptLocationBytes + Boot0Offset + BootPackagesOffset
      BY <2>12, <3>1, <3>2, <3>3, <3>4, Places
    <3>. QED  BY <3>1, <3>5
  <2>. QED  BY <2>2, <2>11, <2>16
<1>. QED  BY <1>1, CardInvariant, PTL
=============================================================================
