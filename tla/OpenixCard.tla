----------------------------- MODULE OpenixCard -----------------------------
(***************************************************************************)
(* The driver: OpenixCard.cpp with the parts it calls in one run of the    *)
(* program (unpack_image of OpenixIMG.c, FEX2CFG.cpp, GenIMG.cpp), over    *)
(* the files it leaves behind.  A run is a pipeline: unpack the input into *)
(* <input>.dump, derive a genimage configuration from the partition table  *)
(* found there, build the image from the unpacked files.                   *)
(*                                                                         *)
(* The directory is not emptied first, so what matters happens between     *)
(* runs: one run finds what an earlier one, which may have been killed or  *)
(* may have failed to write a file, left there.  A file is modelled by the *)
(* input image its bytes come from.                                        *)
(***************************************************************************)
EXTENDS Naturals, FiniteSets

CONSTANTS
  Images,     \* the input files the user may put at the input path
  Kind,       \* what each is: "allwinner", "unreadable", "empty" or "foreign"
  Holds,      \* the files in each image
  Table,      \* its partition table: "good", "no_start" (of [partition_start])
              \* or "ambiguous" (an option twice in a section)
  Needs,      \* the files the configuration made from its table names
  Payloads,   \* all the file names in images; "sys_partition.fex" is one
  Absent, Torn,  \* a file that is not there, and one cut short by the system
  BaseNames,  \* the input's name up to the first dot: "image", or any "other"
  MaxRuns, MaxSwaps, MaxFaults, MaxKills  \* bounds on what the environment does

Fex == "sys_partition.fex"
Modes == {"NONE", "UNPACK", "UNPACKCFG", "DUMP", "PACK", "SIZE"}

ASSUME ImagesAssumption ==
  /\ Absent \notin Images /\ Torn \notin Images /\ Absent # Torn
  /\ Fex \in Payloads
  /\ Kind \in [Images -> {"allwinner", "unreadable", "empty", "foreign"}]
  /\ Holds \in [Images -> SUBSET Payloads]
  /\ Needs \in [Images -> SUBSET Payloads]
  /\ Table \in [Images -> {"good", "no_start", "ambiguous"}]

\* Where bytes come from, and a .cfg file.
Sources == Images \cup {Torn}
Cfg == [is: {"list", "table"}, of: Sources]

ASSUME AbsentAssumption == Absent \notin Cfg /\ \A s \in SUBSET Sources : s # Absent
ASSUME BaseNamesAssumption == BaseNames \subseteq {"image", "other"}
ASSUME BoundsAssumption ==
  {MaxRuns, MaxSwaps, MaxFaults, MaxKills} \subseteq Nat

\* unpack_image writes image.cfg; FEX2CFG::save_file writes one
\* named after the input.
CfgOf == [image |-> "image.cfg", other |-> "other.cfg"]
CfgNames == {"image.cfg", "other.cfg"}

VARIABLES
  base,       \* base name of the input file (never changes)
  input,      \* what is at the input path
  dumpDir,    \* <input>.dump exists
  files,      \* its payload files
  cfgs,       \* its .cfg files: a list of files or a partition table, and of which image
  converted,  \* the image in <input>.dump.out: Absent, or where its bytes come from
  packed,     \* the image that packing leaves in <input>.dump
  tmpDirs,    \* directories made by mktemp -d
  pc, mode,
  loaded,     \* the image unpack_image read into memory
  todo,       \* the files it has still to write
  list,       \* it has opened image.cfg
  config,     \* target_cfg_path
  exit,       \* how the last run ended
  faulted,    \* the system failed a call of this run
  runs, swaps, faults, kills  \* counts for the bounds

disk    == <<dumpDir, files, cfgs, converted, packed, tmpDirs>>
process == <<mode, loaded, todo, list, config>>
world   == <<base, input, runs, swaps, kills>>
vars    == <<disk, process, world, pc, exit, faulted, faults>>

CfgName == CfgOf[base]

NoFiles == [f \in Payloads |-> Absent]
NoCfgs  == [n \in CfgNames |-> Absent]

-----------------------------------------------------------------------------
Init ==
  /\ base \in BaseNames
  /\ input \in Images
  /\ dumpDir = FALSE /\ files = NoFiles /\ cfgs = NoCfgs
  /\ converted = Absent /\ packed = Absent /\ tmpDirs = 0
  /\ pc = "idle" /\ mode = "NONE" /\ loaded = Absent /\ todo = {} /\ list = FALSE
  /\ config = "none" /\ exit = "none" /\ faulted = FALSE
  /\ runs = 0 /\ swaps = 0 /\ faults = 0 /\ kills = 0

\* The run ends: 0 from main, -1 for an exception main catches, std::exit, a signal.
End(status) == pc' = "idle" /\ exit' = status

\* The system fails a call.
Fault == faults < MaxFaults /\ faults' = faults + 1 /\ faulted' = TRUE
NoFault == UNCHANGED <<faults, faulted>>

\* A run that ends with an error before it touched the disk again.
Give(status) == End(status) /\ UNCHANGED <<disk, process, world>>

-----------------------------------------------------------------------------
\* The user runs the program; the constructor reads the arguments.  Without any
\* it shows its usage and returns; wrong ones, or no operator, are an error.
Start(m) ==
  /\ pc = "idle" /\ runs < MaxRuns
  /\ runs' = runs + 1 /\ mode' = m /\ faulted' = FALSE
  /\ loaded' = Absent /\ todo' = {} /\ list' = FALSE /\ config' = "none"
  /\ IF m = "NONE" THEN End("usage") \/ End("error")
     ELSE pc' = (IF m = "PACK" THEN "pack" ELSE "check") /\ exit' = "none"
  /\ UNCHANGED <<disk, base, input, swaps, kills, faults>>

\* check_file and create_directories.
CheckFile ==
  /\ pc = "check"
  /\ \/ input = Absent /\ NoFault /\ Give("error")
     \/ input # Absent /\ Fault /\ Give("error")
     \/ /\ input # Absent /\ NoFault
        /\ dumpDir' = TRUE /\ pc' = "unpack"
        /\ UNCHANGED <<files, cfgs, converted, packed, tmpDirs, process, world, exit>>

\* Files that open, are not empty and have a known header version.
Readable == {i \in Images : Kind[i] = "allwinner"}

\* unpack_image up to the list of files: the whole input is read into memory.
\* Every error it returns becomes an exception.
ReadImage ==
  /\ pc = "unpack"
  /\ \/ input \notin Readable /\ NoFault /\ Give("error")
     \/ input # Absent /\ Fault /\ Give("error")           \* malloc
     \/ /\ input \in Readable
        /\ loaded' = input /\ todo' = Holds[input] /\ pc' = "files"
        /\ \/ /\ list' = TRUE /\ NoFault
              /\ cfgs' = [cfgs EXCEPT !["image.cfg"] = [is |-> "list", of |-> input]]
           \/ list' = FALSE /\ Fault /\ cfgs' = cfgs
        /\ UNCHANGED <<dumpDir, files, converted, packed, tmpDirs, mode, config, world, exit>>

\* Mistaken variant: a file that is already there is kept.
WriteFileOnce ==
  /\ pc = "files"
  /\ \E f \in todo :
       /\ todo' = todo \ {f}
       /\ files' = [files EXCEPT ![f] = IF @ = Absent THEN loaded ELSE @]
       /\ NoFault
       /\ IF list THEN pc' = pc /\ exit' = exit ELSE End("crashed")
  /\ UNCHANGED <<dumpDir, cfgs, converted, packed, tmpDirs, mode, loaded, list, config, world>>

\* Mistaken variant: the loop index does not advance.
WriteFileAgain ==
  /\ pc = "files"
  /\ \E f \in todo : files' = [files EXCEPT ![f] = loaded]
  /\ NoFault /\ UNCHANGED <<todo, pc, exit>>
  /\ UNCHANGED <<dumpDir, cfgs, converted, packed, tmpDirs, mode, loaded, list, config, world>>

\* One file: it is skipped when it cannot be opened, cut short when the write
\* fails, and neither is noticed.  Then its line goes to image.cfg, through a
\* null pointer if that could not be opened.
WriteFile ==
  /\ pc = "files"
  /\ \E f \in todo :
       /\ todo' = todo \ {f}
       /\ \/ files' = [files EXCEPT ![f] = loaded] /\ NoFault
          \/ files' \in {files, [files EXCEPT ![f] = Torn]} /\ Fault
       /\ IF list THEN pc' = pc /\ exit' = exit ELSE End("crashed")
  /\ UNCHANGED <<dumpDir, cfgs, converted, packed, tmpDirs, mode, loaded, list, config, world>>

\* Mistaken variant: the last file is forgotten.
UnpackedEarly ==
  /\ pc = "files" /\ Cardinality(todo) <= 1
  /\ IF mode = "UNPACK" THEN End("ok") ELSE pc' = "fex" /\ exit' = exit
  /\ NoFault /\ UNCHANGED <<disk, process, world>>

\* unpack_image returns 0 and the constructor goes on by mode.
Unpacked ==
  /\ pc = "files" /\ todo = {}
  /\ IF mode = "UNPACK" THEN End("ok") ELSE pc' = "fex" /\ exit' = exit
  /\ NoFault /\ UNCHANGED <<disk, process, world>>

\* What parsing the table file may find; a torn one may be anything.
TableFound(t) ==
  IF files[Fex] = Torn THEN t \in {"good", "no_start", "ambiguous"}
  ELSE t = Table[files[Fex]]

\* The constructor of FEX2CFG.  A table without [partition_start] makes substr
\* throw std::out_of_range, which main does not catch.
ParseFex ==
  /\ pc = "fex" /\ NoFault
  /\ \/ files[Fex] = Absent /\ Give("error")
     \/ files[Fex] # Absent /\ TableFound("no_start") /\ Give("aborted")
     \/ files[Fex] # Absent /\ TableFound("ambiguous") /\ Give("error")
     \/ /\ files[Fex] # Absent /\ TableFound("good")
        /\ pc' = (IF mode = "SIZE" THEN "size" ELSE "save")
        /\ UNCHANGED <<disk, process, world, exit>>

\* remove_all stopped half way.
RemoveSome ==
  /\ \E gone \in SUBSET Payloads :
       files' = [f \in Payloads |-> IF f \in gone THEN Absent ELSE files[f]]
  /\ UNCHANGED <<dumpDir, cfgs, converted, packed, tmpDirs>>

\* get_real_size prints the size and removes the directory and all in it.
GetRealSize ==
  /\ pc = "size"
  /\ \/ /\ dumpDir' = FALSE /\ files' = NoFiles /\ cfgs' = NoCfgs /\ packed' = Absent
        /\ End("ok") /\ NoFault /\ UNCHANGED <<converted, tmpDirs>>
     \/ RemoveSome /\ End("error") /\ Fault
  /\ UNCHANGED <<process, world>>

WithTable(source) == [cfgs EXCEPT ![CfgName] = [is |-> "table", of |-> source]]

\* FEX2CFG::save_file.
SaveFile ==
  /\ pc = "save"
  /\ \/ Fault /\ Give("error")                             \* it cannot be opened
     \/ /\ \/ NoFault /\ cfgs' = WithTable(files[Fex])
           \/ Fault /\ cfgs' = WithTable(Torn)             \* the write fails, unnoticed
        /\ IF mode = "UNPACKCFG" THEN End("ok") /\ config' = config
           ELSE pc' = "genimage" /\ exit' = exit /\ config' = CfgName
        /\ UNCHANGED <<dumpDir, files, converted, packed, tmpDirs, mode, loaded, todo, list, world>>

\* Mistaken variant: the name alone decides.
PackAnyName == CfgNames \ {"image.cfg"}

\* The files pack takes for the partition table configuration.
PackCandidates == {n \in CfgNames \ {"image.cfg"} : cfgs[n] # Absent}

\* pack: the last candidate of a directory in no particular order.
Pack ==
  /\ pc = "pack" /\ NoFault
  /\ \/ ~dumpDir /\ Give("error")
     \/ dumpDir /\ PackCandidates = {} /\ Give("ok")       \* logged, and returns
     \/ /\ dumpDir
        /\ config' \in PackCandidates /\ pc' = "genimage"
        /\ UNCHANGED <<disk, mode, loaded, todo, list, world, exit>>

\* The files a configuration may name.
FilesNeeded(c) == IF c.of = Torn THEN SUBSET Payloads ELSE {Needs[c.of]}

\* The image in the output directory of the mode.
Produce(image) ==
  IF mode = "DUMP" THEN converted' = image /\ packed' = packed
  ELSE packed' = image /\ converted' = converted

\* GenIMG: blank.fex, two temporary directories that nobody removes, and
\* genimage, which stops before it writes anything when a file is missing or
\* the layout is refused, and removes an image it could not finish.
RunGenimage ==
  /\ pc = "genimage"
  /\ \/ Fault /\ Give("error")                             \* blank.fex, mktemp
     \/ /\ tmpDirs' = tmpDirs + 2
        /\ \/ NoFault /\ End("failed") /\ UNCHANGED <<converted, packed>>
           \/ Fault /\ End("failed") /\ (Produce(Absent) \/ Produce({Torn}))
           \/ \E need \in FilesNeeded(cfgs[config]) :
                /\ \A f \in need : files[f] # Absent
                /\ Produce({cfgs[config].of} \cup {files[f] : f \in need})
                /\ End("ok") /\ NoFault
        /\ UNCHANGED <<dumpDir, files, cfgs, process, world>>

-----------------------------------------------------------------------------
\* What a step leaves that is interrupted.  image.cfg is buffered until it is
\* closed, after the last file.
ListLost == IF list THEN [cfgs EXCEPT !["image.cfg"].of = Torn] ELSE cfgs

HalfDone ==
  \/ pc # "files" /\ UNCHANGED disk
  \/ /\ pc = "files" /\ cfgs' = ListLost
     /\ files' \in {files} \cup {[files EXCEPT ![f] = Torn] : f \in todo}
     /\ UNCHANGED <<dumpDir, converted, packed, tmpDirs>>
  \/ pc = "size" /\ RemoveSome
  \/ /\ pc = "save" /\ cfgs' = WithTable(Torn)
     /\ UNCHANGED <<dumpDir, files, converted, packed, tmpDirs>>
  \/ /\ pc = "genimage" /\ Produce({Torn}) /\ tmpDirs' = tmpDirs + 2
     /\ UNCHANGED <<dumpDir, files, cfgs>>

\* The user interrupts the program, or puts another image at the input path.
Kill ==
  /\ pc # "idle" /\ kills < MaxKills
  /\ kills' = kills + 1 /\ End("killed") /\ NoFault
  /\ HalfDone
  /\ UNCHANGED <<process, base, input, runs, swaps>>

Swap ==
  /\ swaps < MaxSwaps
  /\ swaps' = swaps + 1 /\ input' \in (Images \cup {Absent}) \ {input}
  /\ UNCHANGED <<disk, process, pc, exit, faulted, faults, base, runs, kills>>

Step ==
  \/ CheckFile \/ ReadImage \/ WriteFile \/ Unpacked \/ ParseFex
  \/ GetRealSize \/ SaveFile \/ Pack \/ RunGenimage

Next == Step \/ (\E m \in Modes : Start(m)) \/ Kill \/ Swap

Spec == Init /\ [][Next]_vars /\ WF_vars(Step)

-----------------------------------------------------------------------------
\* Every variable has its type, the process is somewhere in its pipeline, and
\* only a known configuration is given to genimage.
TypeOK ==
  /\ input \in Images \cup {Absent} /\ dumpDir \in BOOLEAN
  /\ files \in [Payloads -> Sources \cup {Absent}]
  /\ cfgs \in [CfgNames -> Cfg \cup {Absent}]
  /\ converted = Absent \/ converted \in SUBSET Sources
  /\ packed = Absent \/ packed \in SUBSET Sources
  /\ tmpDirs \in Nat /\ mode \in Modes
  /\ pc \in {"idle", "check", "unpack", "files", "fex", "size", "save", "pack", "genimage"}
  /\ exit \in {"none", "ok", "usage", "failed", "error", "aborted", "crashed", "killed"}
  /\ pc = "genimage" => config \in CfgNames /\ cfgs[config] # Absent

Succeeded == exit = "ok" /\ ~faulted

\* An exit status of 0, when no call to the system failed, means that what the
\* mode promises is on the disk, whatever earlier runs left there.  (pack is
\* the exception: it returns 0 as well when it finds no configuration.)
ExitZeroMeansDone ==
  Succeeded =>
    /\ mode \in {"UNPACK", "UNPACKCFG", "DUMP"} =>
         \A f \in Holds[loaded] : files[f] = loaded
    /\ mode = "UNPACK" => cfgs["image.cfg"] = [is |-> "list", of |-> loaded]
    /\ mode \in {"UNPACKCFG", "DUMP"} => cfgs[CfgName].is = "table"
    /\ mode = "DUMP" => converted # Absent
    /\ mode = "PACK" => PackCandidates = {} \/ packed # Absent
    /\ mode = "SIZE" => ~dumpDir /\ PackCandidates = {}

\* A conversion that succeeds takes nothing from earlier runs, provided the
\* input holds every file its partition table names: then all the bytes of the
\* new image come from the input, also after a run that was killed half way
\* through unpacking, that could not write some files, or of another image.
FreshConversion ==
  Succeeded /\ mode = "DUMP" /\ Needs[loaded] \cup {Fex} \subseteq Holds[loaded]
    => converted = {loaded}

\* A run that is left alone ends.
Terminates == (pc # "idle") ~> (pc = "idle")

\* What the usage text promises of "-uc" and "-p": after the partition table
\* configuration of an image was generated, pack finds it.
PackAfterUnpackCfg ==
  Succeeded /\ mode = "UNPACKCFG" => PackCandidates # {}
=============================================================================
