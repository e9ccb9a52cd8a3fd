----------------------------- MODULE MCGenimage -----------------------------
(***************************************************************************)
(* Configurations of up to three image sections and one implicit image:    *)
(* trees, shared children, chains, self references and cycles.             *)
(***************************************************************************)
EXTENDS Genimage

MCFiles == {"a", "b", "c", "x"}
MCFlashes == {"nand", "nor"}

Holds(f)     == [image |-> f, inTable |-> TRUE, holes |-> FALSE]
HoldsRaw(f)  == [image |-> f, inTable |-> FALSE, holes |-> TRUE]
Reserved     == [image |-> NoFile, inTable |-> TRUE, holes |-> FALSE]
Nothing      == [image |-> NoFile, inTable |-> FALSE, holes |-> FALSE]

S(f, ps, fl, pre, post, types) ==
  [file |-> f, types |-> types, parts |-> ps, flash |-> fl, pre |-> pre, post |-> post]

\* What an image may contain.
Contained == {<< >>, <<Reserved>>} \cup {<<Holds(f)>> : f \in MCFiles}
            \cup {<<Holds("b"), Holds("c")>>, <<Holds("c"), Holds("x")>>, <<HoldsRaw("x"), Holds("b")>>}

Graphs ==
  {<<S("a", p, NoFlash, TRUE, FALSE, 1), S("b", q, NoFlash, FALSE, TRUE, 1), S("c", r, NoFlash, FALSE, FALSE, 1)>> :
     p, q \in Contained, r \in {<<Holds("a")>>, <<Holds("x")>>}}

\* Flash types, sections without a type, partitions without an image, holes.
Sections ==
  {<<S("a", p, fl, FALSE, FALSE, n), S("b", q, fm, FALSE, FALSE, 1)>> :
     p \in {<<Holds("b")>>, <<Holds("x"), HoldsRaw("x")>>, <<Nothing>>}, q \in {<<Holds("x")>>, << >>},
     fl, fm \in {NoFlash, "nand", "nor"}, n \in 0 .. 2}

MCConfigs == Graphs \cup Sections

\* An image inside a flash image declared after it.
FlashConfigs ==
  {<<S("a", p, fl, FALSE, FALSE, 1), S("b", q, fm, FALSE, FALSE, 1), S("c", << >>, NoFlash, FALSE, FALSE, 1)>> :
     p, q \in {<<Holds("b")>>, <<Holds("a")>>, <<Holds("c")>>, << >>}, fl, fm \in {NoFlash, "nand"}}
=============================================================================
