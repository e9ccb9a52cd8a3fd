------------------------------ MODULE Genimage ------------------------------
(***************************************************************************)
(* GenimageWrapper (GenimageWrapper.c): from the parsed configuration to   *)
(* the generated images.  The images form a graph, an image containing     *)
(* the images of its partitions; image_setup and image_generate walk it    *)
(* depth first, and their recursion is the variable calls.  What the       *)
(* handlers and the shell commands do is outside: they succeed or fail.    *)
(***************************************************************************)
EXTENDS Integers, Sequences, FiniteSets, SequencesExt

CONSTANTS
  Files,       \* names of images
  NoFile,      \* a partition without an image
  Flashes,     \* names of flash types
  NoFlash,     \* an image without one
  Configs      \* the configuration files

-----------------------------------------------------------------------------
\* A partition section; inTable is in-partition-table, true unless switched off.
Part == [image: Files \cup {NoFile}, inTable: BOOLEAN, holes: BOOLEAN]

\* An image section; types counts the image types it names.
Section == [file: Files, types: 0 .. 2, parts: Seq(Part), flash: Flashes \cup {NoFlash},
            pre: BOOLEAN, post: BOOLEAN]

\* The sections have distinct titles: libconfuse merges equal ones.
ASSUME ConfigsAssumption ==
  \A c \in Configs :
    /\ c \in Seq(Section)
    /\ \A i, j \in DOMAIN c : c[i].file = c[j].file => i = j

ASSUME NamesAssumption == NoFile \notin Files /\ NoFlash \notin Flashes

VARIABLES
  cfg,        \* the image sections of the configuration file (never changes)
  phase,      \* where GenimageWrapper is
  ret,        \* its return value so far: "ok", or what went wrong
  images,     \* the list of images: the declared ones, then the implicit ones
  done,       \* image->done: 0, -1 once set up, 1 once generated
  seen,       \* image->seen: 0, -1 once setup entered it, 1 once generation did
  flash,      \* image->flash_type
  holes,      \* the images with holes
  top,        \* the position of the loops over the list of images
  part,       \* the position of the inner loops over an image's partitions
  calls,      \* the active calls of image_setup or image_generate, innermost last
  outputs,    \* the images whose output file was written in this run
  made,       \* the images whose handler generated them, in order
  tmp,        \* the temporary directory: "missing", "empty" or "used"
  tmpFound    \* tmppath_generated: set when the directory was there and empty

control == <<phase, ret>>
graph   == <<images, done, seen, flash, holes>>
walk    == <<top, part, calls, outputs, made>>
tmpdir  == <<tmp, tmpFound>>
vars    == <<cfg, control, graph, walk, tmpdir>>

-----------------------------------------------------------------------------
\* The partitions of an image; an implicit file image has none.
Declared == {cfg[i].file : i \in DOMAIN cfg}
SectionOf(f) == CHOOSE s \in Range(cfg) : s.file = f
PartsOf(f) == IF f \in Declared THEN SectionOf(f).parts ELSE << >>
Children(f) == {p.image : p \in Range(PartsOf(f))} \ {NoFile}
ChildList(f) == SelectSeq([i \in DOMAIN PartsOf(f) |-> PartsOf(f)[i].image], LAMBDA g : g # NoFile)
HasPre(f)  == f \in Declared /\ SectionOf(f).pre
HasPost(f) == f \in Declared /\ SectionOf(f).post

\* goto cleanup with an error, and exit(1), which skips the cleanup.
Abandon(r) == phase' = "cleanup" /\ ret' = r
Exit == phase' = "over" /\ ret' = "exit"

-----------------------------------------------------------------------------
\* The two loops before the images are set up go through the partitions of all
\* images of the list; implicit images join its end while the first one runs.
Inner == top <= Len(images) /\ part <= Len(PartsOf(images[top]))
This == PartsOf(images[top])[part]
NextPart == part' = part + 1 /\ top' = top
NextImage == part' = 1 /\ top' = top + 1

-----------------------------------------------------------------------------
Init ==
  /\ cfg \in Configs
  /\ phase = "config" /\ ret = "ok"
  /\ images = << >>
  /\ done = [f \in Files |-> 0]
  /\ seen = [f \in Files |-> 0]
  /\ flash = [f \in Files |-> NoFlash]
  /\ holes = {}
  /\ top = 1 /\ part = 1 /\ calls = << >>
  /\ outputs = {}
  /\ made = << >>
  /\ tmp \in {"missing", "empty", "used"} /\ tmpFound = FALSE

\* --help or --version: set_config_opts ends the program.
ShowUsage ==
  /\ phase = "config"
  /\ Exit
  /\ UNCHANGED <<cfg, graph, walk, tmpdir>>

\* The includepath or the configuration file cannot be read.
ConfigError ==
  /\ phase = "config"
  /\ Abandon("config")
  /\ UNCHANGED <<cfg, graph, walk, tmpdir>>

\* check_tmp_path: a directory with anything in it ends the program; a missing
\* one is created, and then not remembered as one to clean.
CheckTmpPath ==
  /\ phase = "config"
  /\ \/ tmp = "used" /\ Exit /\ UNCHANGED tmpdir
     \/ tmp = "missing" /\ Exit /\ UNCHANGED tmpdir            \* mkdir fails
     \/ tmp = "missing" /\ phase' = "parse" /\ tmp' = "empty" /\ UNCHANGED <<ret, tmpFound>>
     \/ tmp = "empty" /\ phase' = "parse" /\ tmpFound' = TRUE /\ UNCHANGED <<ret, tmp>>
  /\ UNCHANGED <<cfg, graph, walk>>

\* One image section: its handler, its partitions, the handler's own parser.
ParseImage ==
  /\ phase = "parse" /\ Len(images) < Len(cfg)
  /\ LET s == cfg[Len(images) + 1]
     IN  /\ images' = Append(images, s.file)
         /\ flash' = [flash EXCEPT ![s.file] = s.flash]
         /\ \/ s.types # 1 /\ Exit
            \/ s.types = 1 /\ UNCHANGED control
            \/ s.types = 1 /\ Abandon("parse")
  /\ UNCHANGED <<cfg, done, seen, holes, walk, tmpdir>>

SectionsParsed ==
  /\ phase = "parse" /\ Len(images) = Len(cfg)
  /\ phase' = "implicit" /\ ret' = ret
  /\ UNCHANGED <<cfg, graph, walk, tmpdir>>

\* Mistaken variant: a partition need not name an image.
ImplicitImagesUnguarded ==
  /\ phase = "implicit" /\ Inner
  /\ \/ This.image \in Range(images) /\ UNCHANGED images
     \/ This.image \notin Range(images) /\ images' = Append(images, This.image)
  /\ NextPart
  /\ UNCHANGED <<cfg, control, done, seen, flash, holes, calls, outputs, made, tmpdir>>

\* Each partition has an image, declared or implicit; else it is a mere entry of
\* the partition table.
ImplicitImages ==
  /\ phase = "implicit" /\ Inner
  /\ \/ /\ This.image = NoFile /\ This.inTable
        /\ NextPart /\ UNCHANGED <<control, images, holes>>
     \/ /\ This.image = NoFile /\ ~This.inTable
        /\ Abandon("no input file") /\ UNCHANGED <<images, holes, top, part>>
     \/ /\ This.image \in Range(images) /\ ~This.holes
        /\ NextPart /\ UNCHANGED <<control, images, holes>>
     \/ /\ This.image \in Range(images) /\ This.holes
        /\ Abandon("holes") /\ UNCHANGED <<images, holes, top, part>>
     \/ /\ This.image \notin Range(images) \cup {NoFile}
        /\ images' = Append(images, This.image)
        /\ holes' = IF This.holes THEN holes \cup {This.image} ELSE holes
        /\ NextPart /\ UNCHANGED control
  /\ UNCHANGED <<cfg, done, seen, flash, calls, outputs, made, tmpdir>>

\* set_flash_type: an image with a flash type gives it to its partitions' images.
SetFlashTypes ==
  /\ phase = "flash" /\ Inner
  /\ LET f == images[top]
         g == This.image
     IN  \/ /\ flash[f] = NoFlash
            /\ NextImage /\ UNCHANGED <<control, flash>>
         \/ /\ flash[f] # NoFlash /\ g = NoFile
            /\ NextPart /\ UNCHANGED <<control, flash>>
         \/ /\ flash[f] # NoFlash /\ g # NoFile /\ flash[g] \in {NoFlash, flash[f]}
            /\ flash' = [flash EXCEPT ![g] = flash[f]]
            /\ NextPart /\ UNCHANGED control
         \/ /\ flash[f] # NoFlash /\ g # NoFile /\ flash[g] \notin {NoFlash, flash[f]}
            /\ Abandon("flash type") /\ UNCHANGED <<flash, top, part>>
  /\ UNCHANGED <<cfg, images, done, seen, holes, calls, outputs, made, tmpdir>>

\* The ends of the inner and of the outer loop, in either of the two.
PartsDone ==
  /\ phase \in {"implicit", "flash"} /\ top <= Len(images) /\ ~Inner
  /\ NextImage
  /\ UNCHANGED <<cfg, control, graph, calls, outputs, made, tmpdir>>

ListDone ==
  /\ phase \in {"implicit", "flash"} /\ top > Len(images)
  /\ phase' = IF phase = "implicit" THEN "flash" ELSE "mount"
  /\ top' = 1
  /\ UNCHANGED <<cfg, ret, graph, part, calls, outputs, made, tmpdir>>

\* collect_mountpoints copies the root file system into the temporary directory.
CollectMountpoints ==
  /\ phase = "mount"
  /\ tmp' = "used"
  /\ \/ phase' = "setup" /\ ret' = ret
     \/ Abandon("mount")
  /\ UNCHANGED <<cfg, graph, walk, tmpFound>>

-----------------------------------------------------------------------------
\* The recursion.  A call that returns 0 goes back to the loop over the list or
\* to the next partition of its caller.
Frame(f) == [image |-> f, at |-> 1, stage |-> "children"]
Current == calls[Len(calls)]
AtPart == calls # << >> /\ Current.at <= Len(PartsOf(Current.image))
PartAt == PartsOf(Current.image)[Current.at]
\* Mistaken variant: one child too few.
ChildrenDoneEarly == calls # << >> /\ Current.at >= Len(PartsOf(Current.image))

ChildrenDone == calls # << >> /\ Current.at > Len(PartsOf(Current.image))

\* Mistaken variant: the caller does not move on.
ReturnToSame(callers) ==
  calls' = callers /\ top' = IF callers = << >> THEN top + 1 ELSE top

ReturnTo(callers) ==
  IF callers = << >>
  THEN calls' = callers /\ top' = top + 1
  ELSE calls' = [callers EXCEPT ![Len(callers)].at = @ + 1] /\ top' = top

\* Mistaken variants: a finished image is taken for one in progress; there are
\* no marks at all.
CallSeenFirst(f, mark) ==
  IF seen[f] = mark THEN Abandon("recursive") /\ UNCHANGED <<seen, calls, top>>
  ELSE /\ seen' = [seen EXCEPT ![f] = mark]
       /\ calls' = Append(calls, Frame(f))
       /\ UNCHANGED <<control, top>>

CallUnmarked(f, mark) ==
  calls' = Append(calls, Frame(f)) /\ UNCHANGED <<control, seen, top>>

\* The start of image_setup (mark -1) and image_generate (mark 1) for image f.
Call(f, mark) ==
  \/ /\ done[f] = mark
     /\ ReturnTo(calls) /\ UNCHANGED <<control, seen>>
  \/ /\ done[f] # mark /\ seen[f] = mark
     /\ Abandon("recursive") /\ UNCHANGED <<seen, calls, top>>
  \/ /\ done[f] # mark /\ seen[f] # mark
     /\ seen' = [seen EXCEPT ![f] = mark]
     /\ calls' = Append(calls, Frame(f))
     /\ UNCHANGED <<control, top>>

\* From the loop over the list, or for the next partition of the current image.
Descend(mark) ==
  /\ \/ calls = << >> /\ top <= Len(images) /\ Call(images[top], mark)
     \/ AtPart /\ PartAt.image = NoFile /\ ReturnTo(calls) /\ UNCHANGED <<control, seen>>
     \/ AtPart /\ PartAt.image # NoFile /\ Call(PartAt.image, mark)
  /\ UNCHANGED <<cfg, images, done, flash, holes, part, outputs, made, tmpdir>>

Finished(mark) ==
  done' = [done EXCEPT ![Current.image] = mark] /\ ReturnTo(Front(calls))

\* A handler or command of the current image fails; the calls unwind.
Fails(r) == Abandon(r) /\ UNCHANGED <<cfg, graph, top, part, calls, made, tmpdir>>

-----------------------------------------------------------------------------
SetupCall == phase = "setup" /\ Descend(-1)

\* The handler's setup function, once everything the image contains is set up.
SetupHandler ==
  /\ phase = "setup" /\ ChildrenDone
  /\ \/ Finished(-1) /\ UNCHANGED <<cfg, control, images, seen, flash, holes, part, outputs, made, tmpdir>>
     \/ Fails("setup") /\ UNCHANGED outputs

\* All images are set up; the environment and the output directory are prepared.
PreparePaths ==
  /\ phase = "setup" /\ calls = << >> /\ top > Len(images)
  /\ top' = 1
  /\ \/ phase' = "generate" /\ ret' = ret
     \/ Abandon("paths")
  /\ UNCHANGED <<cfg, graph, part, calls, outputs, made, tmpdir>>

GenerateCall == phase = "generate" /\ Descend(1)

\* setenv_image fails for an image of the list.
SetenvError ==
  /\ phase = "generate" /\ calls = << >> /\ top <= Len(images)
  /\ Abandon("paths")
  /\ UNCHANGED <<cfg, graph, walk, tmpdir>>

SetStage(s) == calls' = [calls EXCEPT ![Len(calls)].stage = s]

\* The exec-pre command.
ExecPre ==
  /\ phase = "generate" /\ ChildrenDone
  /\ Current.stage = "children" /\ HasPre(Current.image)
  /\ \/ SetStage("ready") /\ UNCHANGED <<cfg, control, graph, top, part, outputs, made, tmpdir>>
     \/ Fails("exec-pre") /\ UNCHANGED outputs

\* The handler's generate function.  On failure the output is removed.  A tool
\* killed by a signal has exit status 0 for systemp: nothing new is written, and
\* all goes on.  An implicit file image stays where it is, in the input directory.
GenerateHandler ==
  /\ phase = "generate" /\ ChildrenDone
  /\ Current.stage = IF HasPre(Current.image) THEN "ready" ELSE "children"
  /\ LET f == Current.image
         written == outputs \cup (IF f \in Declared THEN {f} ELSE {})
     IN  \/ /\ outputs' \in {written, outputs}
            /\ made' = Append(made, f)
            /\ IF HasPost(f) THEN SetStage("made") /\ UNCHANGED <<done, top>> ELSE Finished(1)
            /\ UNCHANGED <<cfg, control, images, seen, flash, holes, part, tmpdir>>
         \/ /\ f \in Declared
            /\ Fails("generate") /\ outputs' = outputs \ {f}

ExecPost ==
  /\ phase = "generate" /\ ChildrenDone /\ Current.stage = "made"
  /\ \/ Finished(1) /\ UNCHANGED <<cfg, control, images, seen, flash, holes, part, outputs, made, tmpdir>>
     \/ Fails("exec-post") /\ UNCHANGED outputs

\* Mistaken variant: the loop ends one image early.
AllGeneratedEarly ==
  /\ phase = "generate" /\ calls = << >> /\ top >= Len(images)
  /\ phase' = "cleanup" /\ ret' = ret
  /\ UNCHANGED <<cfg, graph, walk, tmpdir>>

AllGenerated ==
  /\ phase = "generate" /\ calls = << >> /\ top > Len(images)
  /\ phase' = "cleanup" /\ ret' = ret
  /\ UNCHANGED <<cfg, graph, walk, tmpdir>>

\* cleanup(): only a directory that was there already is emptied.
Cleanup ==
  /\ phase = "cleanup"
  /\ phase' = "over" /\ ret' = ret
  /\ tmp' = IF tmpFound THEN "empty" ELSE tmp
  /\ UNCHANGED <<cfg, graph, walk, tmpFound>>

Step ==
  \/ ShowUsage \/ ConfigError \/ CheckTmpPath \/ ParseImage \/ SectionsParsed \/ ImplicitImages
  \/ SetFlashTypes \/ PartsDone \/ ListDone \/ CollectMountpoints
  \/ SetupCall \/ SetupHandler \/ PreparePaths
  \/ GenerateCall \/ SetenvError \/ ExecPre \/ GenerateHandler \/ ExecPost \/ AllGenerated \/ Cleanup

Over == phase = "over" /\ UNCHANGED vars

Next == Step \/ Over

\* A sequential program whose commands end: it takes its next step.
Spec == Init /\ [][Next]_vars /\ WF_vars(Step)

-----------------------------------------------------------------------------
(***************************************************************************)
(* Properties.                                                             *)
(***************************************************************************)
TypeOK ==
  /\ cfg \in Seq(Section)
  /\ phase \in {"config", "parse", "implicit", "flash", "mount", "setup", "generate",
                "cleanup", "over"}
  /\ ret \in {"ok", "exit", "config", "parse", "no input file", "holes", "flash type", "mount",
              "recursive", "setup", "paths", "exec-pre", "generate", "exec-post"}
  /\ images \in Seq(Files)
  /\ done \in [Files -> -1 .. 1] /\ seen \in [Files -> -1 .. 1]
  /\ flash \in [Files -> Flashes \cup {NoFlash}]
  /\ holes \subseteq Files
  /\ top \in Nat /\ part \in Nat
  /\ calls \in Seq([image: Files, at: Nat, stage: {"children", "ready", "made"}])
  /\ outputs \subseteq Files /\ made \in Seq(Files)
  /\ tmp \in {"missing", "empty", "used"} /\ tmpFound \in BOOLEAN

\* Nobody is set up or generated before what it contains: when a handler's
\* setup looks at the size of a child, and its generate copies the child, they
\* are there.  This is what the marks done and seen of image_setup and
\* image_generate are for.
ChildrenFirst ==
  \A f \in Files : \A g \in Children(f) :
    /\ done[f] # 0 => done[g] # 0
    /\ f \in Range(made) => done[g] = 1

\* Some images contain each other.
Cyclic == \E S \in SUBSET Declared : S # {} /\ \A f \in S : Children(f) \cap S # {}

\* "recursive dependency detected" is reported for images that do contain each
\* other, never for one image used in several places.
RecursionIsReal == ret = "recursive" => Cyclic

\* Each image is generated once, however many images contain it.
GeneratedOnce == IsInjective(made)

\* The function ends, whatever the images contain: no endless recursion.
Terminates == <>(phase = "over")

\* Success means that every image of the list was generated, and with it the
\* whole promise of BuildOrder: the order, once each, and all of them.
Order == INSTANCE BuildOrder WITH
  needs   <- [f \in Files |-> Children(f)],
  wanted  <- IF phase \in {"setup", "generate", "cleanup", "over"} /\ ret \notin {"exit"}
             THEN Range(images) ELSE {},
  built   <- Range(made),
  outcome <- IF phase # "over" THEN "running" ELSE IF ret = "ok" THEN "ok" ELSE "failed"

BuildsInOrder == Order!Spec

\* The flash type of an image is that of everything in it ("propagate flash
\* types to partitions", GenimageWrapper.c).  Not so when a flash image is
\* declared after an image it contains.
FlashTypesPropagated ==
  phase \in {"mount", "setup", "generate"} =>
    \A f \in Range(images) : flash[f] # NoFlash => \A g \in Children(f) : flash[g] = flash[f]

\* systemp is a "printf wrapper around 'system'" (util.c): a command that did
\* not succeed is noticed, so success means that every output was written.
\* Not so for a command killed by a signal.
SuccessMeansOutputs ==
  phase = "over" /\ ret = "ok" => Declared \subseteq outputs
=============================================================================
