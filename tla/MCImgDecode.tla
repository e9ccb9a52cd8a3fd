---------------------------- MODULE MCImgDecode ----------------------------
(***************************************************************************)
(* IMAGEWTY images of up to two files, around a 4 GiB limit of 16.         *)
(***************************************************************************)
EXTENDS ImgDecode

MCNames == {"a", "sub/b", "very/long/c"}
MCDirLength == [n \in MCNames |-> CASE n = "a" -> 1 [] n = "sub/b" -> 2 [] n = "very/long/c" -> 4]
MCSubtypes == {"BOOT", "ROOT", "ENV"}

F(n, s, len) == [name |-> n, subtype |-> s, length |-> len]
Even(n) == n + (n % 2)

\* The files stand one behind the other, from a start on, each padded.
Placed(fs, start) ==
  [k \in DOMAIN fs |->
     [name |-> fs[k].name, subtype |-> fs[k].subtype, length |-> fs[k].length,
      stored |-> Even(fs[k].length),
      offset |-> start + FoldLeft(LAMBDA sum, f : sum + Even(f.length), 0, SubSeq(fs, 1, k - 1))]]

Image(v, e, fs, start) ==
  [version |-> v, encrypted |-> e, size |-> start + 60, items |-> Placed(fs, start)]

Kinds == {F(n, s, len) : n \in {"a", "sub/b"}, s \in {"BOOT", "ROOT"}, len \in {3, 5}}
Fourth == {F("a", "BOOT", len) : len \in {0, 4, 17}} \cup {F("very/long/c", "ENV", 4), F("sub/b", "ROOT", 2)}

MCInputs ==
  {Image("v3", FALSE, fs, start) : start \in {2, 11, 18}, fs \in BoundedSeq(Kinds, 2)}
  \cup
  {Image("v3", FALSE, fs, 2) : fs \in BoundedSeq(Fourth, 2)}
  \cup
  {Image(v, e, fs, 2) : v \in Versions, e \in BOOLEAN, fs \in BoundedSeq({F("a", "BOOT", 3)}, 1)}
  \cup
  {[Image("other", FALSE, << >>, 0) EXCEPT !.size = 0]}
=============================================================================
