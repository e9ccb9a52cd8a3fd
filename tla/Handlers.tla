------------------------------ MODULE Handlers ------------------------------
(***************************************************************************)
(* The handlers that have their work done by other programs                *)
(* (genimage-src/image-*.c): what their parse and setup functions refuse,  *)
(* and generate as the sequence of commands it runs.  A place is a file or *)
(* directory the commands write, an output or one in tmppath; its content  *)
(* is the set of what was put into it.                                     *)
(***************************************************************************)
EXTENDS Genimage, Mountpoints

CONSTANTS
  Spelling,    \* the file name of each image, as a path (see Mountpoints)
  DotNames     \* names that begin with a dot

ASSUME SpellingAssumption == DOMAIN Spelling = Files

\* "plain" stands for the handlers that have a module of their own.
Filled == {"ext", "vfat", "squashfs", "ubifs", "jffs2", "iso", "cramfs", "cpio", "tar"}
CanBeEmpty == {"ext", "vfat", "ubifs", "jffs2"}
Types == Filled \cup {"ubi", "qemu", "fit", "rauc", "plain"}

Settings == {"mke2fs", "features", "label", "time", "conf", "conf missing", "usage type",
            "long label", "too large", "no lebsize", "two autoresize", "unsized",
            "relative keydir", "no key", "no manifest"}

\* What an image section says to its handler.  special is the image of a
\* partition a handler treats differently: the its of a FIT image, the key of a
\* RAUC bundle.
Handler == [type: Types, size: BOOLEAN, empty: BOOLEAN, special: Files \cup {NoFile},
            has: SUBSET Settings]

VARIABLES
  handler,     \* the handler's part of each section (never changes)
  places,      \* what the commands have written: content by place
  todo,        \* the commands of the running handler still to run
  hpc,         \* "idle", "running" or "failed"
  wrote,       \* the running handler's output was written
  disturbed    \* some command did not do its work and no one noticed

handling == <<places, todo, hpc, wrote, disturbed>>

HandlersInit ==
  /\ todo = << >> /\ hpc = "idle" /\ wrote = FALSE /\ disturbed = FALSE

TypeOf(f) == handler[f].type
Has(f, x) == x \in handler[f].has
ContentOf(f) == SelectSeq(ChildList(f), LAMBDA g : g # handler[f].special)

-----------------------------------------------------------------------------
\* rauc_parse: key and cert are mandatory.
ParseRefuses(f) == TypeOf(f) = "rauc" /\ Has(f, "no key")

\* The setup functions.
NoFlashType(f) == flash[f] = NoFlash

ExtRefused(f) ==
  /\ TypeOf(f) = "ext"
  /\ \/ ~handler[f].size
     \/ Has(f, "mke2fs") /\ Has(f, "conf missing")
     \/ ~Has(f, "mke2fs") /\ (Has(f, "conf") \/ Has(f, "conf missing") \/ Has(f, "usage type"))

VfatRefused(f)  == TypeOf(f) = "vfat" /\ (~handler[f].size \/ Has(f, "long label"))
UbiRefused(f)   == TypeOf(f) = "ubi" /\ (NoFlashType(f) \/ Has(f, "two autoresize"))
UbifsRefused(f) == TypeOf(f) = "ubifs" /\ (NoFlashType(f) \/ Has(f, "no lebsize"))
Jffs2Refused(f) == TypeOf(f) = "jffs2" /\ NoFlashType(f)
QemuRefused(f)  == TypeOf(f) = "qemu" /\ ChildList(f) = << >>
RaucRefused(f)  == TypeOf(f) = "rauc" /\ Has(f, "no manifest")

SetupRefuses(f) ==
  \/ ExtRefused(f) \/ VfatRefused(f) \/ UbiRefused(f) \/ UbifsRefused(f)
  \/ Jffs2Refused(f) \/ QemuRefused(f) \/ RaucRefused(f)

-----------------------------------------------------------------------------
(***************************************************************************)
(* Commands.  Each puts "what", and what is in the place "from", into the  *)
(* place "to"; how much of the old content stays is up to the tool.        *)
(***************************************************************************)
Out(f) == <<"out", f>>
UbiIni == <<"ubi.ini">>
FitIts == <<"fit.its">>

\* Mistaken variant: all bundles are put together in one directory.
RaucDirShared(f) == <<"rauc">>
RaucDir(f) == <<"rauc", Sanitized(Spelling[f])>>

Command(tool, to, what) ==
  [tool |-> tool, to |-> to, what |-> what, from |-> << >>, child |-> TRUE, ignored |-> FALSE]

New(to, what)        == Command("new", to, what)           \* a new file, over an old one
Add(to, what)        == Command("add", to, what)           \* into one that must be there
Look(at)             == Command("look", at, {})            \* at one that must be there
From(command, place) == [command EXCEPT !.from = place]
Itself(command)      == [command EXCEPT !.child = FALSE]   \* done by genimage, no command
Refuse               == Itself(Command("refuse", << >>, {}))

ImageItem(f) == <<"image", f>>
Images(fs) == {ImageItem(g) : g \in Range(fs)}
TreeItem(f) == <<"tree", TreeOf(f)>>

\* Nothing, if the section says empty and the handler looks at it.
Filling(f) == IF handler[f].empty /\ TypeOf(f) \in CanBeEmpty THEN {} ELSE {TreeItem(f)}
WithItems(f, settings) == {<<"with", x>> : x \in handler[f].has \cap settings}
Optional(condition, commands) == IF condition THEN commands ELSE << >>

-----------------------------------------------------------------------------
\* ext2_generate: mke2fs formats a prepared file, with all options at once;
\* after genext2fs tune2fs sets them one by one.  e2fsck must find the file.
ExtCommands(f) ==
  (IF Has(f, "mke2fs")
   THEN <<Itself(New(Out(f), {})), New(Out(f), Filling(f) \cup WithItems(f, {"features", "label"}))>>
   ELSE <<New(Out(f), Filling(f))>>
        \o Optional(Has(f, "features"), <<Add(Out(f), WithItems(f, {"features"}))>>)
        \o Optional(Has(f, "label"), <<Add(Out(f), WithItems(f, {"label"}))>>))
  \o <<Add(Out(f), {})>>
  \o Optional(Has(f, "time"), <<Add(Out(f), WithItems(f, {"time"}))>>)

\* vfat_generate: the files listed, or else what the shell finds for "*" at the
\* mountpoint: nothing that begins with a dot; without any other it leaves the
\* pattern to mcopy, which fails.
Globbed(tree) == {q \in tree : q[1] \notin DotNames}

VfatCommands(f) ==
  <<Itself(New(Out(f), {})), New(Out(f), WithItems(f, {"label"}))>>
  \o [i \in DOMAIN ChildList(f) |-> Add(Out(f), {ImageItem(ChildList(f)[i])})]
  \o Optional(ChildList(f) = << >> /\ ~handler[f].empty,
       IF Globbed(TreeOf(f)) = {} THEN <<Refuse>>
       ELSE <<Add(Out(f), {<<"tree", Globbed(TreeOf(f))>>})>>)

\* squash_generate: -noappend, so that mksquashfs does not add to what is there.
\* Then the size of the file is looked at.
SquashCommands(f) ==
  <<New(Out(f), Filling(f)), Itself(Look(Out(f)))>>
  \o Optional(Has(f, "too large"), <<Refuse>>)

\* ubi_generate: the list of volumes is written to one file for all images.
UbiCommands(f) ==
  <<Itself(New(UbiIni, Images(ChildList(f))))>>
  \o Optional(Has(f, "unsized"), <<Refuse>>)
  \o <<From(New(Out(f), {}), UbiIni)>>

\* fit_generate: so is the its, as a copy that is appended to.
FitCommands(f) ==
  <<New(FitIts, {ImageItem(handler[f].special)}), Itself(Add(FitIts, Images(ContentOf(f))))>>
  \o Optional(Has(f, "relative keydir"), <<Refuse>>)
  \o <<From(New(Out(f), {}), FitIts)>>

\* rauc_generate: a directory for each bundle; rauc does not write over an old
\* output, which is removed first.
Key(f) == IF handler[f].special = NoFile THEN {} ELSE {<<"key", handler[f].special>>}

RaucCommands(f) ==
  <<Command("make", RaucDir(f), {}), Itself(Add(RaucDir(f), {<<"manifest", f>>}))>>
  \o [i \in DOMAIN ContentOf(f) |-> Add(RaucDir(f), {ImageItem(ContentOf(f)[i])})]
  \o <<[Command("remove", Out(f), {}) EXCEPT !.ignored = TRUE],
       From(Command("bundle", Out(f), Key(f)), RaucDir(f))>>

\* One command each, over an old output.
QemuCommands(f)  == <<New(Out(f), Images(ChildList(f)))>>
UbifsCommands(f) == <<New(Out(f), Filling(f))>>
Jffs2Commands(f) == <<New(Out(f), Filling(f))>>
IsoCommands(f)   == <<New(Out(f), Filling(f))>>
CramCommands(f)  == <<New(Out(f), Filling(f))>>
CpioCommands(f)  == <<New(Out(f), Filling(f))>>
TarCommands(f)   == <<New(Out(f), Filling(f))>>

Commands(f) ==
  CASE TypeOf(f) = "ext" -> ExtCommands(f)
    [] TypeOf(f) = "vfat" -> VfatCommands(f)
    [] TypeOf(f) = "squashfs" -> SquashCommands(f)
    [] TypeOf(f) = "ubi" -> UbiCommands(f)
    [] TypeOf(f) = "ubifs" -> UbifsCommands(f)
    [] TypeOf(f) = "jffs2" -> Jffs2Commands(f)
    [] TypeOf(f) = "iso" -> IsoCommands(f)
    [] TypeOf(f) = "cramfs" -> CramCommands(f)
    [] TypeOf(f) = "cpio" -> CpioCommands(f)
    [] TypeOf(f) = "tar" -> TarCommands(f)
    [] TypeOf(f) = "qemu" -> QemuCommands(f)
    [] TypeOf(f) = "fit" -> FitCommands(f)
    [] TypeOf(f) = "rauc" -> RaucCommands(f)

-----------------------------------------------------------------------------
\* What a command needs, and what it leaves.
Contents(place) == IF place \in DOMAIN places THEN places[place] ELSE {}

CanRun(c) ==
  /\ c.tool # "refuse"
  /\ c.tool \in {"add", "look"} => c.to \in DOMAIN places
  /\ c.tool = "bundle" => c.to \notin DOMAIN places
  /\ c.from # << >> => c.from \in DOMAIN places

Put(c) ==
  c.what \cup Contents(c.from) \cup IF c.tool \in {"add", "make"} THEN Contents(c.to) ELSE {}

After(c) ==
  CASE c.tool = "look" -> places
    [] c.tool = "remove" -> Restrict(places, DOMAIN places \ {c.to})
    [] OTHER -> (c.to :> Put(c)) @@ places

\* Half of what should be there.
Torn == {<<"torn">>}

Writes(c) == c.tool \notin {"look", "make", "remove"}

Running == hpc = "running" /\ todo # << >>
NextCommand == todo' = Tail(todo)

StartHandler(f) ==
  /\ hpc = "idle" /\ hpc' = "running"
  /\ todo' = Commands(f) /\ wrote' = FALSE
  /\ UNCHANGED <<places, disturbed>>

CommandSucceeds ==
  /\ Running /\ CanRun(Head(todo))
  /\ places' = After(Head(todo))
  /\ wrote' = (wrote \/ (Head(todo).to[1] = "out" /\ Writes(Head(todo))))
  /\ NextCommand
  /\ UNCHANGED <<hpc, disturbed>>

\* It cannot, or some system call does not, and the handler looks at the result.
CommandFails ==
  /\ Running
  /\ IF Head(todo).ignored THEN NextCommand /\ hpc' = hpc ELSE todo' = << >> /\ hpc' = "failed"
  /\ UNCHANGED <<places, wrote, disturbed>>

\* systemp counts a killed command as done, with what it wrote by then; and of
\* the pipe cpio is in only the last program is asked.
CommandUnnoticed ==
  /\ Running /\ Head(todo).child
  /\ \/ places' = places /\ wrote' = wrote
     \/ Writes(Head(todo)) /\ places' = (Head(todo).to :> Torn) @@ places
        /\ wrote' = (wrote \/ Head(todo).to[1] = "out")
  /\ disturbed' = TRUE /\ NextCommand
  /\ hpc' = hpc

HandlerStep == CommandSucceeds \/ CommandFails \/ CommandUnnoticed

\* image_generate removes the output of a handler that failed.
HandlerOver == hpc = "failed" \/ (hpc = "running" /\ todo = << >>)

EndHandler(f) ==
  /\ HandlerOver
  /\ hpc' = "idle" /\ todo' = << >>
  /\ places' = IF hpc = "failed" THEN Restrict(places, DOMAIN places \ {Out(f)}) ELSE places
  /\ UNCHANGED <<wrote, disturbed>>
=============================================================================
