--------------------------- MODULE MCGenimageRun ---------------------------
(***************************************************************************)
(* The image graphs of MCGenimage with handlers that have a module of      *)
(* their own, and small configurations for the options, the mountpoints    *)
(* and each of the handlers that run other programs.                       *)
(***************************************************************************)
EXTENDS GenimageRun, MCGenimage

MCOptionNames == Paths \cup {"config", "includepath"}
MCDefault ==
  [n \in MCOptionNames |->
     CASE n = "rootpath" -> "root" [] n = "tmppath" -> "tmp" [] n = "inputpath" -> "input"
       [] n = "outputpath" -> "images" [] n = "config" -> "genimage.cfg" [] n = "includepath" -> Unset]

\* a and b become one name when their slashes are replaced: "r-1" and "r/1".
MCSpelling == ("a" :> <<<<"r", "1">>>>) @@ ("b" :> <<<<"r">>, <<"1">>>>)
              @@ ("c" :> <<<<"c">>>>) @@ ("x" :> <<<<"x">>>>)

\* d/, d/e/, d/e/k, d/j, d-e/, d-e/m and d/.h.
MCDot == <<".h">>
MCDotNames == {MCDot}
d == <<"d">>
e == <<"e">>
MCRoots ==
  "root" :> {<<d>>, <<d, e>>, <<d, e, <<"k">>>>, <<d, <<"j">>>>, <<<<"d", "e">>>>, <<<<"d", "e">>, <<"m">>>>, <<d, MCDot>>}
  @@ "other" :> {<<d>>, <<d, <<"n">>>>}
  @@ "bare" :> {}

-----------------------------------------------------------------------------
NoValues == [n \in MCOptionNames |-> Unset]
NoOptions == [env |-> NoValues, file |-> NoValues, args |-> << >>]
Plain == [type |-> "plain", size |-> TRUE, empty |-> FALSE, special |-> NoFile, has |-> {}]
AllPlain == [f \in MCFiles |-> Plain]
NoMounts == [f \in {} |-> << >>]

Scenario(c, g, m, h, o) == [cfg |-> c, given |-> g, mount |-> m, handler |-> h, old |-> o]

GraphScenarios == {Scenario(c, NoOptions, NoMounts, AllPlain, {}) : c \in MCConfigs}

\* A tar of the root file system, and the options from everywhere.
One(ps, fl) == <<S("a", ps, fl, FALSE, FALSE, 1)>>
With(h) == [AllPlain EXCEPT !["a"] = h]
Tar == [Plain EXCEPT !.type = "tar"]
Arg(n, v) == [name |-> n, value |-> v]

ArgLists ==
  {<< >>, <<Arg("rootpath", "other"), Arg("outputpath", "out")>>,
   <<Arg("rootpath", "bare"), Arg("rootpath", "other")>>,
   <<Arg(Unknown, Unset), Arg("rootpath", "other")>>, <<Arg("tmppath", "t1"), Arg(Unknown, Unset)>>,
   <<Arg("inputpath", "i1"), Arg(Help, Unset)>>, <<Arg("includepath", "inc")>>}

OptionScenarios ==
  {Scenario(One(ps, NoFlash),
            [env |-> [NoValues EXCEPT !["rootpath"] = er, !["outputpath"] = eo, !["config"] = "e.cfg"],
             file |-> [NoValues EXCEPT !["rootpath"] = fr, !["outputpath"] = fo, !["tmppath"] = "t2"],
             args |-> as], NoMounts, With(Tar), {}) :
     ps \in {<<Holds("x")>>}, er, fr \in {Unset, "bare"}, eo \in {Unset, "o1"}, fo \in {Unset, "o2"},
     as \in ArgLists}

-----------------------------------------------------------------------------
\* Mountpoints: the root itself, nested in both orders, a directory with a slash
\* more, one whose name another one's becomes, one that is not there.
MountPaths == {<< >>, <<d>>, <<d, e>>, <<d, EmptyName>>, <<<<"d", "e">>>>, <<<<"z">>>>}

Three == <<S("a", << >>, NoFlash, FALSE, FALSE, 1), S("b", << >>, NoFlash, FALSE, FALSE, 1),
           S("c", << >>, NoFlash, FALSE, FALSE, 1)>>

MountScenarios ==
  {Scenario(Three, NoOptions, ("a" :> p) @@ ("b" :> q), [AllPlain EXCEPT !["a"] = Tar, !["b"] = Tar, !["c"] = Tar], {}) :
     p, q \in MountPaths}
  \cup {Scenario(Three, [NoOptions EXCEPT !.args = <<Arg("rootpath", "nowhere")>>], "a" :> <<d>>, AllPlain, {})}
  \cup {Scenario(Three, NoOptions, ("a" :> <<d, e>>) @@ ("b" :> <<d>>) @@ ("c" :> p), AllPlain, {}) : p \in MountPaths}

-----------------------------------------------------------------------------
\* Each handler alone, over an output of an earlier run or not.
H(type, size, empty, special, has) ==
  [type |-> type, size |-> size, empty |-> empty, special |-> special, has |-> has]

ExtSettings == {{}, {"features", "label", "time"}, {"mke2fs", "features", "label", "time"}, {"mke2fs", "conf"},
                {"conf"}, {"usage type"}, {"mke2fs", "conf missing"}, {"conf missing"}}

TreeHandlers ==
  {H("ext", z, k, NoFile, h) : z, k \in BOOLEAN, h \in ExtSettings}
  \cup {H("vfat", z, k, NoFile, h) : z, k \in BOOLEAN, h \in {{}, {"label"}, {"label", "long label"}}}
  \cup {H("squashfs", TRUE, k, NoFile, h) : k \in BOOLEAN, h \in {{}, {"too large"}}}
  \cup {H("ubifs", TRUE, k, NoFile, h) : k \in BOOLEAN, h \in {{}, {"no lebsize"}}}
  \cup {H(t, TRUE, k, NoFile, {}) : t \in {"jffs2", "iso", "cramfs", "cpio", "tar"}, k \in BOOLEAN}

PartHandlers ==
  {H("ubi", TRUE, FALSE, NoFile, h) : h \in {{}, {"two autoresize"}, {"unsized"}}}
  \cup {H("qemu", TRUE, FALSE, NoFile, {})}
  \cup {H("vfat", TRUE, k, NoFile, {"label"}) : k \in BOOLEAN}
  \cup {H("fit", TRUE, FALSE, "b", h) : h \in {{}, {"relative keydir"}}}
  \cup {H("rauc", TRUE, FALSE, s, h) : s \in {"x", NoFile}, h \in {{}, {"no key"}, {"no manifest"}}}

Two == <<Holds("b"), Holds("x")>>

HandlerScenarios ==
  {Scenario(One(<< >>, fl), NoOptions, m, With(h), o) :
     h \in TreeHandlers, fl \in {"nand"}, m \in {"a" :> <<d>>}, o \in {{"a"}}}
  \cup {Scenario(One(<< >>, NoFlash), NoOptions, "a" :> <<d, e, <<"k">>>>, With(h), {}) : h \in TreeHandlers}
  \cup {Scenario(One(Two, fl), NoOptions, NoMounts, With(h), {"a"}) : h \in PartHandlers, fl \in {NoFlash, "nand"}}
  \cup {Scenario(One(<< >>, "nand"), NoOptions, NoMounts, With(h), {}) :
          h \in {g \in PartHandlers : g.special = NoFile}}

\* Two that share temporary files: a and b or a and c, one inside the other or
\* side by side.
Sharing == {H("ubi", TRUE, FALSE, NoFile, {}), H("fit", TRUE, FALSE, "x", {}), H("rauc", TRUE, FALSE, "x", {}),
            H("rauc", TRUE, FALSE, NoFile, {}), H("squashfs", TRUE, FALSE, NoFile, {})}

Pair(f, ps) == <<S("a", ps, "nand", TRUE, FALSE, 1), S(f, <<Holds("x")>>, "nand", FALSE, TRUE, 1)>>

PairScenarios ==
  {Scenario(Pair(f, ps), NoOptions, NoMounts, [AllPlain EXCEPT !["a"] = h, ![f] = k], o) :
     f \in {"b", "c"}, ps \in {<<Holds("x")>>, <<Holds("x"), Holds("b")>>}, h, k \in Sharing, o \in {{}, {"a"}}}

MCScenarios ==
  GraphScenarios \cup OptionScenarios \cup MountScenarios \cup HandlerScenarios \cup PairScenarios

AllConfigs == {s.cfg : s \in MCScenarios}
=============================================================================
