---------------------------- MODULE GenimageRun ----------------------------
(***************************************************************************)
(* A run of genimage with what Genimage leaves open: the options are read, *)
(* the root file system is divided among the images, and their handlers    *)
(* run the commands they are made of, over the outputs of an earlier run.  *)
(* A step is one of Genimage together with what the other modules do in    *)
(* it, or one of theirs that Genimage does not see.                        *)
(***************************************************************************)
EXTENDS Options, Handlers

CONSTANTS
  Roots,       \* the directories that can be the root path, as trees
  Scenarios    \* configurations with their handlers, mountpoints and old outputs

ASSUME ScenariosAssumption ==
  /\ \A r \in DOMAIN Roots : IsTree(Roots[r])
  /\ \A s \in Scenarios :
       /\ s.cfg \in Configs /\ s.handler \in [Files -> Handler] /\ s.old \subseteq Files
       /\ \A f \in Files \ {s.cfg[i].file : i \in DOMAIN s.cfg} : s.handler[f].type = "plain"
       /\ \A i \in DOMAIN s.cfg :
            LET h == s.handler[s.cfg[i].file]
            IN  IF h.special = NoFile THEN h.type # "fit"
                ELSE \E p \in Range(s.cfg[i].parts) : p.image = h.special
       /\ DOMAIN s.mount \subseteq {s.cfg[i].file : i \in DOMAIN s.cfg}
       /\ \A f \in DOMAIN s.mount : s.mount[f] \in Path /\ (s.mount[f] = << >> \/ DirOf(s.mount[f]) # << >>)

inputs == <<given, mount, handler>>
runVars == <<vars, inputs, options, mounting, handling>>

Old(f) == {<<"old", f>>}

RunInit ==
  \E s \in Scenarios :
    /\ cfg = s.cfg /\ given = s.given /\ mount = s.mount /\ handler = s.handler
    /\ places = [p \in {Out(f) : f \in s.old} |-> Old(p[2])]
    /\ Init /\ OptionsInit /\ MountInit /\ HandlersInit

Others == UNCHANGED <<inputs, options, mounting, handling>>

-----------------------------------------------------------------------------
ReadOptions ==
  /\ phase = "config"
  /\ FirstPass \/ ParseConfig \/ SecondPass
  /\ UNCHANGED <<vars, inputs, mounting, handling>>

ShowHelp ==
  /\ opc = "first" /\ AsksForHelp
  /\ ShowUsage /\ Others

IncludeOrParseError == opc = "include" /\ ConfigError /\ Others

FirstUseOfTmppath ==
  /\ opc = "settled" /\ CheckTmpPath /\ Keep({"tmppath"})
  /\ UNCHANGED <<inputs, mounting, handling>>

\* The refusals are those of the handler, if it has no module of its own.
ParseSection ==
  /\ ParseImage
  /\ LET s == cfg[Len(images) + 1]
     IN  s.types = 1 /\ TypeOf(s.file) # "plain" => (ret' = "parse" <=> ParseRefuses(s.file))
  /\ Keep({"outputpath"})
  /\ UNCHANGED <<inputs, mounting, handling>>

-----------------------------------------------------------------------------
\* cp -a of the root path; killed, it leaves something less and counts as done.
CopyRootPath ==
  /\ phase = "mount" /\ Keep({"rootpath"})
  /\ Kept("rootpath") \in DOMAIN Roots
  /\ \E t \in {Roots[Kept("rootpath")], {}} :
       /\ CopyRoot(t, images)
       /\ disturbed' = (t # Roots[Kept("rootpath")])
  /\ UNCHANGED <<vars, inputs, places, todo, hpc, wrote>>

Mount ==
  /\ phase = "mount" /\ MoveMountpoint
  /\ UNCHANGED <<vars, inputs, options, handling>>

\* The timestamps, or any of the commands failing.
EndMounting ==
  /\ CollectMountpoints
  /\ phase' = "setup" => AllMoved
  /\ Others

\* A file's setup function looks for it in the input path.
SetupImage ==
  /\ SetupHandler
  /\ TypeOf(Current.image) # "plain" => (ret' = "setup" <=> SetupRefuses(Current.image))
  /\ Keep(IF Current.image \in Declared THEN {} ELSE {"inputpath"})
  /\ UNCHANGED <<inputs, mounting, handling>>

ExportPaths == PreparePaths /\ Keep(Paths) /\ UNCHANGED <<inputs, mounting, handling>>

-----------------------------------------------------------------------------
MayGenerate ==
  /\ phase = "generate" /\ ChildrenDone
  /\ Current.stage = IF HasPre(Current.image) THEN "ready" ELSE "children"

StartCommands ==
  /\ MayGenerate /\ TypeOf(Current.image) # "plain"
  /\ StartHandler(Current.image)
  /\ UNCHANGED <<vars, inputs, options, mounting>>

RunCommand == HandlerStep /\ UNCHANGED <<vars, inputs, options, mounting>>

EndCommands ==
  /\ hpc # "idle" /\ EndHandler(Current.image)
  /\ GenerateHandler
  /\ ret' = "generate" <=> hpc = "failed"
  /\ ret' = ret => (Current.image \in outputs' <=> wrote)
  /\ UNCHANGED <<inputs, options, mounting>>

\* Handlers with a module of their own: the output or, killed, nothing new.
GenerateOther ==
  /\ hpc = "idle" /\ GenerateHandler /\ TypeOf(Current.image) = "plain"
  /\ LET f == Current.image
     IN  /\ places' = IF ret' # ret THEN Restrict(places, DOMAIN places \ {Out(f)})
                      ELSE IF f \in outputs' THEN (Out(f) :> Images(ChildList(f))) @@ places
                      ELSE places
         /\ disturbed' = (disturbed \/ (ret' = ret /\ f \in Declared \ outputs'))
  /\ UNCHANGED <<inputs, options, mounting, todo, hpc, wrote>>

RunStep ==
  \/ ReadOptions \/ ShowHelp \/ IncludeOrParseError \/ FirstUseOfTmppath
  \/ ParseSection
  \/ CopyRootPath \/ Mount \/ EndMounting
  \/ SetupImage \/ ExportPaths
  \/ StartCommands \/ RunCommand \/ EndCommands \/ GenerateOther
  \/ (SectionsParsed \/ ImplicitImages \/ SetFlashTypes \/ PartsDone \/ ListDone
        \/ SetupCall \/ GenerateCall \/ SetenvError \/ ExecPre \/ ExecPost \/ AllGenerated \/ Cleanup) /\ Others

RunOver == phase = "over" /\ UNCHANGED runVars

RunNext == RunStep \/ RunOver

RunSpec == RunInit /\ [][RunNext]_runVars /\ WF_runVars(RunStep)

-----------------------------------------------------------------------------
(***************************************************************************)
(* Properties.                                                             *)
(***************************************************************************)
\* A path is used with the value the strongest source gives it, wherever it is
\* used first: never with one from before the configuration file was read.
PathsSettled == \A n \in Paths : cached[n] # Unset => cached[n] = Strongest(n)

Root == Roots[Strongest("rootpath")]

\* Each image gets the files of its own mountpoint, all of them and no others,
\* whichever mountpoints other images have and in whatever order.  Except for
\* mountpoints that mean the same directory in different words ("a", "a/"), or
\* whose names in tmppath are the same ("a/b", "a-b").
TreesAsMounted ==
  phase \in {"setup", "generate"} /\ ~disturbed =>
    \A f \in Declared : ~Clashes(f) => TreeOf(f) = PromisedTree(f, Root)

\* A run that ends well, with no killed command, made each output what its
\* section says, with nothing in it of an earlier run, of another image or of
\* the temporary files they share.  Except for two RAUC bundles whose names are
\* the same once their slashes are replaced, which share a directory, and for what a
\* vfat image should have from the top of its mountpoint under a name with a dot.
SharesRaucDir(f) ==
  /\ TypeOf(f) = "rauc"
  /\ \E g \in Declared \ {f} :
       TypeOf(g) = "rauc" /\ Sanitized(Spelling[g]) = Sanitized(Spelling[f])

OwnTree(f) ==
  LET tree == PromisedTree(f, Root)
  IN  IF handler[f].empty /\ TypeOf(f) \in CanBeEmpty THEN {}
      ELSE {<<"tree", IF TypeOf(f) = "vfat" THEN Globbed(tree) ELSE tree>>}

DeclaredContent(f) ==
  LET listed == Images(ChildList(f))
      own == OwnTree(f) \cup WithItems(f, {"label", "features", "time"})
  IN  CASE TypeOf(f) = "vfat" -> (IF listed = {} THEN OwnTree(f) ELSE listed) \cup WithItems(f, {"label"})
        [] TypeOf(f) \in Filled \ {"vfat"} -> own
        [] TypeOf(f) = "rauc" -> {<<"manifest", f>>} \cup Images(ContentOf(f)) \cup Key(f)
        [] TypeOf(f) \in {"ubi", "qemu", "fit", "plain"} -> listed

OutputsAsDeclared ==
  phase = "over" /\ ret = "ok" /\ ~disturbed =>
    \A f \in Declared : Clashes(f) \/ SharesRaucDir(f) \/ Contents(Out(f)) = DeclaredContent(f)
=============================================================================
