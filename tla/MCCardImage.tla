---------------------------- MODULE MCCardImage -----------------------------
(***************************************************************************)
(* Partition tables of up to four sections for CardImage, of every kind    *)
(* gen_linux_cfg_from_fex_map tells apart, with names of their own and     *)
(* with names that repeat or are those of the boot files.                  *)
(***************************************************************************)
EXTENDS CardImage

MCULL == 2 ^ 26

\* So small that the sizes of three large sections overflow.
MCUINT == 17432 + 1500

MCImages == {"boot0_sdcard.fex", "boot_package.fex", "blank.fex", "boot-resource.fex",
             "env.fex", "odd.fex", "empty.fex"}
MCImageSize == [i \in MCImages |->
  CASE i = "boot0_sdcard.fex" -> 49152 [] i = "boot_package.fex" -> 720000
    [] i = "blank.fex" -> 9 [] i = "boot-resource.fex" -> 300000
    [] i = "env.fex" -> 131072 [] i = "odd.fex" -> 253 * 512 [] OTHER -> 0]
MCImageHoles == [i \in MCImages |-> {}]

S(name, sectors, file) == [name |-> name, sectors |-> sectors, downloadfile |-> file]

\* A size in odd sectors loses half a kilobyte: "odd.fex" fills 253 sectors exactly.
\* The name "" stands for one no other section has.
Sections ==
  { S("boot-resource", 1024, "boot-resource.fex"), S("", 1025, "boot-resource.fex"),
    S("", 256, "env.fex"), S("", 253, "odd.fex"), S("", 254, "odd.fex"),
    S("", 64, NoDownload), S("", 0, "env.fex"), S("", 0, "empty.fex"),
    S("UDISK", 2, NoDownload), S("UDISK", 2, "boot-resource.fex") }

\* Those that have no data or too large a file.
Misfits == {S("", 253, "odd.fex"), S("", 0, "empty.fex")}

Named(q) == [i \in DOMAIN q |->
               IF q[i].name = "" THEN [q[i] EXCEPT !.name = <<"a", "b", "c", "d">>[i]] ELSE q[i]]

\* Sections of every name a second one may have.
Repeated ==
  {S(name, k[1], k[2]) : name \in {"a", "b", "boot0"},
                         k \in {<<256, "env.fex">>, <<1025, "boot-resource.fex">>, <<0, "empty.fex">>}}
  \cup {S("boot-packages", 256, "env.fex"), S("boot0", 40000, "env.fex")}

MCFexes == {Named(q) : q \in UNION {[1 .. n -> Sections] : n \in 0 .. 2}
                             \cup [1 .. 3 -> Sections \ Misfits]
                             \cup [1 .. 4 -> {s \in Sections : IsBootResource(s)}]}
  \cup {q \in UNION {[1 .. n -> Repeated] : n \in 1 .. 2} : q[1].name # "b"}
  \cup {q \in [1 .. 3 -> {s \in Repeated : s.name \in {"a", "b"}}] : q[1].name = "a"}

MCConfigs == {HdimageSection(f) : f \in MCFexes}
=============================================================================
