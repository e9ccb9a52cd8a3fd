------------------------- MODULE OpenixCard_proofs -------------------------
(***************************************************************************)
(* The driver, for every set of input images, any number of runs, and      *)
(* whatever the user and the system do between and during them.            *)
(***************************************************************************)
EXTENDS OpenixCard, TLAPS

\* The stages of a run that unpacked its input, and those it comes to later.
Unpacking == {"files", "fex", "size", "save", "genimage"}
Statuses == {"none", "ok", "usage", "failed", "error", "aborted", "crashed", "killed"}
Stages == {"idle", "check", "unpack", "files", "fex", "size", "save", "pack", "genimage"}

\* Types, with those of the variables TypeOK says nothing of.
TypeInv ==
  /\ TypeOK
  /\ base \in {"image", "other"}
  /\ loaded \in Images \cup {Absent} /\ todo \subseteq Payloads
  /\ list \in BOOLEAN /\ faulted \in BOOLEAN

\* Which mode a stage belongs to.
ModeInv ==
  /\ pc \in {"check", "unpack", "files"} => mode \in {"UNPACK", "UNPACKCFG", "DUMP", "SIZE"}
  /\ pc = "fex" => mode \in {"UNPACKCFG", "DUMP", "SIZE"}
  /\ pc = "size" => mode = "SIZE"
  /\ pc = "save" => mode \in {"UNPACKCFG", "DUMP"} /\ files[Fex] # Absent
  /\ pc = "pack" => mode = "PACK"
  /\ pc = "genimage" => mode \in {"DUMP", "PACK"}
  /\ pc # "idle" => exit = "none"

\* What is unpacked by now is what was read, if no call of this run has failed:
\* the files an earlier run left behind count only until they are written.
UnpackInv ==
  /\ pc \in Unpacking /\ mode # "PACK" => loaded \in Images
  /\ pc \in Unpacking /\ mode # "PACK" /\ ~faulted =>
       \A f \in Holds[loaded] : files[f] = loaded \/ (pc = "files" /\ f \in todo)
  /\ pc = "files" /\ list => cfgs["image.cfg"] = [is |-> "list", of |-> loaded]
  /\ pc = "files" /\ ~faulted => list

\* The configuration a conversion gives to genimage is that of the table unpacked.
ConfigInv ==
  pc = "genimage" /\ mode = "DUMP" =>
    /\ config = CfgName /\ cfgs[CfgName].is = "table"
    /\ ~faulted => cfgs[CfgName].of = files[Fex]

DriverInv ==
  /\ TypeInv /\ ModeInv /\ UnpackInv /\ ConfigInv
  /\ ExitZeroMeansDone /\ FreshConversion

-----------------------------------------------------------------------------
(***************************************************************************)
(* Types.                                                                  *)
(***************************************************************************)
DiskType ==
  /\ dumpDir \in BOOLEAN /\ tmpDirs \in Nat
  /\ files \in [Payloads -> Sources \cup {Absent}]
  /\ cfgs \in [CfgNames -> Cfg \cup {Absent}]
  /\ converted = Absent \/ converted \in SUBSET Sources
  /\ packed = Absent \/ packed \in SUBSET Sources
ProcessType ==
  mode \in Modes /\ loaded \in Images \cup {Absent} /\ todo \subseteq Payloads /\ list \in BOOLEAN
WorldType == base \in {"image", "other"} /\ input \in Images \cup {Absent}
PointType == pc \in Stages /\ exit \in Statuses /\ faulted \in BOOLEAN
ConfigType == pc = "genimage" => config \in CfgNames /\ cfgs[config] # Absent

\* The type invariant is the types of the parts.
LEMMA TypeParts == TypeInv <=> DiskType /\ ProcessType /\ WorldType /\ PointType /\ ConfigType
BY DEF TypeInv, TypeOK, DiskType, ProcessType, WorldType, PointType, ConfigType, Stages, Statuses

\* The same of the state after a step.
LEMMA TypePartsNext ==
  TypeInv' <=> DiskType' /\ ProcessType' /\ WorldType' /\ PointType' /\ ConfigType'
BY DEF TypeInv, TypeOK, DiskType, ProcessType, WorldType, PointType, ConfigType, Stages, Statuses

\* What a step leaves alone keeps its type.
LEMMA TypesStay ==
  /\ DiskType /\ UNCHANGED disk => DiskType'
  /\ ProcessType /\ UNCHANGED <<mode, loaded, todo, list>> => ProcessType'
  /\ WorldType /\ UNCHANGED <<base, input>> => WorldType'
  /\ PointType /\ UNCHANGED <<pc, exit, faulted>> => PointType'
BY DEF DiskType, ProcessType, WorldType, PointType, disk

\* A call of the system fails, or none does.
LEMMA FaultType ==
  ASSUME faulted \in BOOLEAN, Fault \/ NoFault
  PROVE  faulted' \in BOOLEAN /\ (faulted => faulted') /\ (~faulted' => NoFault)
BY DEF Fault, NoFault

\* A run that ends leaves everything else as it is.
LEMMA GiveTypes ==
  ASSUME TypeInv, NEW s \in Statuses, Give(s), Fault \/ NoFault
  PROVE  TypeInv'
<1>1. DiskType /\ ProcessType /\ WorldType /\ PointType
  BY TypeParts
<1>2. DiskType' /\ ProcessType' /\ WorldType'
  BY <1>1, TypesStay DEF Give, process, world
<1>3. PointType' /\ ConfigType'
  BY <1>1, FaultType DEF Give, End, PointType, ConfigType, Stages
<1>. QED  BY <1>2, <1>3, TypePartsNext

\* The name of the configuration file made from the table.
LEMMA CfgNameType ==
  ASSUME WorldType
  PROVE  CfgName \in CfgNames
BY DEF WorldType, CfgName, CfgOf, CfgNames

\* A table's configuration is put among the .cfg files.
LEMMA WithTableType ==
  ASSUME WorldType, cfgs \in [CfgNames -> Cfg \cup {Absent}], NEW s \in Sources
  PROVE  /\ WithTable(s) \in [CfgNames -> Cfg \cup {Absent}]
         /\ WithTable(s)[CfgName] = [is |-> "table", of |-> s] /\ WithTable(s)[CfgName] # Absent
         /\ \A n \in CfgNames \ {CfgName} : WithTable(s)[n] = cfgs[n]
<1>1. CfgName \in CfgNames
  BY CfgNameType
<1>2. [is |-> "table", of |-> s] \in Cfg
  BY DEF Cfg
<1>. QED  BY <1>1, <1>2, AbsentAssumption DEF WithTable

\* A killed run leaves the disk well typed.
LEMMA HalfDoneType ==
  ASSUME TypeInv, UnpackInv, HalfDone
  PROVE  DiskType'
<1>0. DiskType /\ ProcessType /\ WorldType
  BY TypeParts
<1>1. CASE UNCHANGED disk
  BY <1>0, <1>1, TypesStay
<1>2. CASE /\ pc = "files" /\ cfgs' = ListLost
           /\ files' \in {files} \cup {[files EXCEPT ![f] = Torn] : f \in todo}
           /\ UNCHANGED <<dumpDir, converted, packed, tmpDirs>>
  <2>1. files' \in [Payloads -> Sources \cup {Absent}]
    BY <1>0, <1>2 DEF DiskType, ProcessType, Sources
  <2>2. cfgs' \in [CfgNames -> Cfg \cup {Absent}]
    <3>1. CASE ~list
      BY <1>0, <1>2, <3>1 DEF ListLost, DiskType
    <3>2. CASE list
      <4>1. cfgs["image.cfg"] = [is |-> "list", of |-> loaded] /\ "image.cfg" \in CfgNames
        BY <1>2, <3>2 DEF UnpackInv, CfgNames
      <4>2. cfgs' = [cfgs EXCEPT !["image.cfg"] = [is |-> "list", of |-> Torn]]
        <5>1. cfgs' = [cfgs EXCEPT !["image.cfg"] = [cfgs["image.cfg"] EXCEPT !.of = Torn]]
          BY <1>2, <3>2, Zenon DEF ListLost
        <5>2. [cfgs["image.cfg"] EXCEPT !.of = Torn] = [is |-> "list", of |-> Torn]
          BY <4>1
        <5>. QED  BY <5>1, <5>2
      <4>3. [is |-> "list", of |-> Torn] \in Cfg
        BY DEF Cfg, Sources
      <4>. QED  BY <1>0, <4>2, <4>3 DEF DiskType
    <3>. QED  BY <1>0, <3>1, <3>2 DEF ProcessType
  <2>. QED  BY <1>0, <1>2, <2>1, <2>2 DEF DiskType
<1>3. CASE RemoveSome
  BY <1>0, <1>3 DEF RemoveSome, DiskType
<1>4. CASE /\ pc = "save" /\ cfgs' = WithTable(Torn)
           /\ UNCHANGED <<dumpDir, files, converted, packed, tmpDirs>>
  BY <1>0, <1>4, WithTableType DEF DiskType, Sources
<1>5. CASE /\ pc = "genimage" /\ Produce({Torn}) /\ tmpDirs' = tmpDirs + 2
           /\ UNCHANGED <<dumpDir, files, cfgs>>
  BY <1>0, <1>5 DEF DiskType, Produce, Sources
<1>. QED  BY <1>1, <1>2, <1>3, <1>4, <1>5 DEF HalfDone

\* What genimage is given, and where the bytes of what it makes come from.
LEMMA ImageMade ==
  ASSUME TypeInv, pc = "genimage", NEW need \in FilesNeeded(cfgs[config]),
         \A f \in need : files[f] # Absent
  PROVE  {cfgs[config].of} \cup {files[f] : f \in need} \in SUBSET Sources
<1>1. cfgs[config] \in Cfg
  BY TypeParts DEF DiskType, ConfigType
<1>2. cfgs[config].of \in Sources
  BY <1>1 DEF Cfg
<1>3. need \subseteq Payloads
  BY <1>2, ImagesAssumption DEF FilesNeeded, Sources
<1>4. \A f \in need : files[f] \in Sources
  BY <1>3, TypeParts DEF DiskType
<1>. QED  BY <1>2, <1>4

\* The initial state is well typed.
LEMMA InitTypes == Init => TypeInv
<1> SUFFICES ASSUME Init PROVE TypeInv
  OBVIOUS
<1>1. DiskType /\ ProcessType /\ WorldType
  BY BaseNamesAssumption DEF Init, DiskType, ProcessType, WorldType, NoFiles, NoCfgs, Modes
<1>2. PointType /\ ConfigType
  BY DEF Init, PointType, ConfigType, Stages, Statuses
<1>. QED  BY <1>1, <1>2, TypeParts

\* Every step keeps types.
LEMMA TypeStep == TypeInv /\ ModeInv /\ UnpackInv /\ [Next]_vars => TypeInv'
<1> SUFFICES ASSUME TypeInv, ModeInv, UnpackInv, [Next]_vars PROVE TypeInv'
  OBVIOUS
<1>0. DiskType /\ ProcessType /\ WorldType /\ PointType /\ ConfigType
  BY TypeParts
<1>1. ASSUME NEW m \in Modes, Start(m) PROVE TypeInv'
  <2>1. DiskType' /\ WorldType'
    BY <1>0, <1>1, TypesStay DEF Start
  <2>2. ProcessType'
    BY <1>1 DEF Start, ProcessType
  <2>3. PointType' /\ ConfigType'
    BY <1>1 DEF Start, End, PointType, ConfigType, Stages, Statuses
  <2>. QED  BY <2>1, <2>2, <2>3, TypePartsNext
<1>2. CASE CheckFile
  <2>1. CASE Give("error") /\ (Fault \/ NoFault)
    BY <2>1, GiveTypes DEF Statuses
  <2>2. CASE /\ NoFault /\ dumpDir' = TRUE /\ pc' = "unpack"
             /\ UNCHANGED <<files, cfgs, converted, packed, tmpDirs, process, world, exit>>
    <3>1. DiskType'
      BY <1>0, <2>2 DEF DiskType
    <3>2. PointType' /\ ConfigType'
      BY <1>0, <2>2 DEF PointType, ConfigType, Stages, NoFault
    <3>. QED  BY <1>0, <2>2, <3>1, <3>2, TypesStay, TypePartsNext DEF process, world
  <2>. QED  BY <1>2, <2>1, <2>2 DEF CheckFile
<1>3. CASE ReadImage
  <2>1. CASE Give("error") /\ (Fault \/ NoFault)
    BY <2>1, GiveTypes DEF Statuses
  <2>2. CASE /\ input \in Readable /\ loaded' = input /\ todo' = Holds[input] /\ pc' = "files"
             /\ \/ /\ list' = TRUE /\ NoFault
                   /\ cfgs' = [cfgs EXCEPT !["image.cfg"] = [is |-> "list", of |-> input]]
                \/ list' = FALSE /\ Fault /\ cfgs' = cfgs
             /\ UNCHANGED <<dumpDir, files, converted, packed, tmpDirs, mode, config, world, exit>>
    <3>1. input \in Images
      BY <2>2 DEF Readable
    <3>2. [is |-> "list", of |-> input] \in Cfg
      BY <3>1 DEF Cfg, Sources
    <3>3. DiskType'
      BY <1>0, <2>2, <3>2 DEF DiskType
    <3>4. ProcessType'
      BY <1>0, <2>2, <3>1, ImagesAssumption DEF ProcessType
    <3>5. PointType' /\ ConfigType'
      BY <1>0, <2>2, FaultType DEF PointType, ConfigType, Stages
    <3>. QED  BY <1>0, <2>2, <3>3, <3>4, <3>5, TypesStay, TypePartsNext DEF world
  <2>. QED  BY <1>3, <2>1, <2>2 DEF ReadImage
<1>4. CASE WriteFile
  <2>1. PICK f \in todo :
          /\ todo' = todo \ {f}
          /\ \/ files' = [files EXCEPT ![f] = loaded] /\ NoFault
             \/ files' \in {files, [files EXCEPT ![f] = Torn]} /\ Fault
    BY <1>4 DEF WriteFile
  <2>2. /\ pc = "files" /\ IF list THEN pc' = pc /\ exit' = exit ELSE End("crashed")
        /\ UNCHANGED <<dumpDir, cfgs, converted, packed, tmpDirs, mode, loaded, list, config, world>>
    BY <1>4 DEF WriteFile
  <2>3. DiskType'
    BY <1>0, <2>1, <2>2 DEF DiskType, ProcessType, Sources
  <2>4. ProcessType'
    BY <1>0, <2>1, <2>2 DEF ProcessType
  <2>5. PointType' /\ ConfigType'
    BY <1>0, <2>1, <2>2, FaultType DEF PointType, ConfigType, Stages, Statuses, End
  <2>. QED  BY <1>0, <2>2, <2>3, <2>4, <2>5, TypesStay, TypePartsNext DEF world
<1>5. CASE Unpacked
  <2>1. PointType' /\ ConfigType'
    BY <1>0, <1>5 DEF Unpacked, End, NoFault, PointType, ConfigType, Stages, Statuses
  <2>. QED  BY <1>0, <1>5, <2>1, TypesStay, TypePartsNext DEF Unpacked, process, world
<1>6. CASE ParseFex
  <2>1. CASE Give("error") \/ Give("aborted")
    BY <1>6, <2>1, GiveTypes DEF ParseFex, Statuses
  <2>2. CASE pc' = (IF mode = "SIZE" THEN "size" ELSE "save") /\ UNCHANGED <<disk, process, world, exit>>
    <3>1. PointType' /\ ConfigType'
      BY <1>0, <1>6, <2>2 DEF ParseFex, NoFault, PointType, ConfigType, Stages
    <3>. QED  BY <1>0, <2>2, <3>1, TypesStay, TypePartsNext DEF process, world
  <2>. QED  BY <1>6, <2>1, <2>2 DEF ParseFex
<1>7. CASE GetRealSize
  <2>1. DiskType'
    BY <1>0, <1>7 DEF GetRealSize, RemoveSome, DiskType, NoFiles, NoCfgs
  <2>2. PointType' /\ ConfigType'
    BY <1>0, <1>7, FaultType DEF GetRealSize, End, PointType, ConfigType, Stages, Statuses
  <2>. QED  BY <1>0, <1>7, <2>1, <2>2, TypesStay, TypePartsNext DEF GetRealSize, process, world
<1>8. CASE SaveFile
  <2>1. CASE Fault /\ Give("error")
    BY <2>1, GiveTypes DEF Statuses
  <2>2. CASE /\ \/ NoFault /\ cfgs' = WithTable(files[Fex])
                \/ Fault /\ cfgs' = WithTable(Torn)
             /\ IF mode = "UNPACKCFG" THEN End("ok") /\ config' = config
                ELSE pc' = "genimage" /\ exit' = exit /\ config' = CfgName
             /\ UNCHANGED <<dumpDir, files, converted, packed, tmpDirs, mode, loaded, todo, list, world>>
    <3>1. files[Fex] \in Sources /\ Torn \in Sources
      BY <1>0, <1>8, ImagesAssumption DEF SaveFile, ModeInv, DiskType, Sources
    <3>2. cfgs' \in [CfgNames -> Cfg \cup {Absent}] /\ cfgs'[CfgName] # Absent /\ CfgName \in CfgNames
      <4>1. PICK s \in Sources : cfgs' = WithTable(s)
        BY <2>2, <3>1
      <4>2. cfgs \in [CfgNames -> Cfg \cup {Absent}]
        BY <1>0 DEF DiskType
      <4>. QED  BY <1>0, <4>1, <4>2, WithTableType, CfgNameType
    <3>3. DiskType'
      BY <1>0, <2>2, <3>2 DEF DiskType
    <3>4. PointType' /\ ConfigType'
      BY <1>0, <2>2, <3>2, FaultType DEF End, PointType, ConfigType, Stages, Statuses
    <3>. QED  BY <1>0, <2>2, <3>3, <3>4, TypesStay, TypePartsNext DEF world
  <2>. QED  BY <1>8, <2>1, <2>2 DEF SaveFile
<1>9. CASE Pack
  <2>1. CASE Give("error") \/ Give("ok")
    BY <1>9, <2>1, GiveTypes DEF Pack, Statuses
  <2>2. CASE config' \in PackCandidates /\ pc' = "genimage" /\ UNCHANGED <<disk, mode, loaded, todo, list, world, exit>>
    <3>1. PointType' /\ ConfigType'
      BY <1>0, <1>9, <2>2 DEF Pack, NoFault, PointType, ConfigType, Stages, PackCandidates, disk
    <3>. QED  BY <1>0, <2>2, <3>1, TypesStay, TypePartsNext DEF world
  <2>. QED  BY <1>9, <2>1, <2>2 DEF Pack
<1>10. CASE RunGenimage
  <2>1. CASE Fault /\ Give("error")
    BY <2>1, GiveTypes DEF Statuses
  <2>2. CASE /\ tmpDirs' = tmpDirs + 2
             /\ \/ NoFault /\ End("failed") /\ UNCHANGED <<converted, packed>>
                \/ Fault /\ End("failed") /\ (Produce(Absent) \/ Produce({Torn}))
                \/ \E need \in FilesNeeded(cfgs[config]) :
                     /\ \A f \in need : files[f] # Absent
                     /\ Produce({cfgs[config].of} \cup {files[f] : f \in need})
                     /\ End("ok") /\ NoFault
             /\ UNCHANGED <<dumpDir, files, cfgs, process, world>>
    <3>1. pc = "genimage"
      BY <1>10 DEF RunGenimage
    <3>2. \/ UNCHANGED <<converted, packed>>
          \/ \E s : (s = Absent \/ s \in SUBSET Sources) /\ Produce(s)
      <4>1. {Torn} \in SUBSET Sources
        BY DEF Sources
      <4>. QED  BY <2>2, <3>1, <4>1, ImageMade
    <3>3. DiskType'
      BY <1>0, <2>2, <3>2 DEF DiskType, Produce
    <3>4. PointType' /\ ConfigType'
      BY <1>0, <2>2, FaultType DEF End, PointType, ConfigType, Stages, Statuses
    <3>. QED  BY <1>0, <2>2, <3>3, <3>4, TypesStay, TypePartsNext DEF process, world
  <2>. QED  BY <1>10, <2>1, <2>2 DEF RunGenimage
<1>11. CASE Kill
  <2>1. DiskType'
    BY <1>11, HalfDoneType DEF Kill
  <2>2. PointType' /\ ConfigType'
    BY <1>0, <1>11 DEF Kill, End, NoFault, PointType, ConfigType, Stages, Statuses
  <2>. QED  BY <1>0, <1>11, <2>1, <2>2, TypesStay, TypePartsNext DEF Kill, process
<1>12. CASE Swap
  <2>1. WorldType' /\ ConfigType'
    BY <1>0, <1>12 DEF Swap, WorldType, ConfigType, process, disk
  <2>. QED  BY <1>0, <1>12, <2>1, TypesStay, TypePartsNext DEF Swap, process
<1>13. CASE UNCHANGED vars
  <2>1. ConfigType'
    BY <1>0, <1>13 DEF vars, process, disk, ConfigType
  <2>. QED  BY <1>0, <1>13, <2>1, TypesStay, TypePartsNext DEF vars, process, world
<1>. QED  BY <1>1, <1>2, <1>3, <1>4, <1>5, <1>6, <1>7, <1>8, <1>9, <1>10, <1>11, <1>12, <1>13 DEF Next, Step

-----------------------------------------------------------------------------
(***************************************************************************)
(* The invariant, step by step.                                            *)
(***************************************************************************)
\* No run is under way at the start.
LEMMA InitIdle == Init => ModeInv /\ UnpackInv /\ ConfigInv /\ ExitZeroMeansDone /\ FreshConversion
BY DEF Init, ModeInv, UnpackInv, ConfigInv, ExitZeroMeansDone, FreshConversion, Succeeded, Unpacking

\* Every step keeps to the stages of its mode.
LEMMA ModeStep == TypeInv /\ ModeInv /\ [Next]_vars => ModeInv'
<1> SUFFICES ASSUME TypeInv, ModeInv, [Next]_vars PROVE ModeInv'
  OBVIOUS
<1>1. ASSUME NEW s, End(s) PROVE ModeInv'
  BY <1>1 DEF End, ModeInv
<1>2. ASSUME NEW m \in Modes, Start(m) PROVE ModeInv'
  <2>1. CASE m = "NONE"
    BY <1>1, <1>2, <2>1 DEF Start
  <2>2. CASE m # "NONE"
    BY <1>2, <2>2 DEF Start, ModeInv, Modes
  <2>. QED  BY <2>1, <2>2
<1>3. CASE CheckFile
  BY <1>1, <1>3 DEF CheckFile, Give, ModeInv, process
<1>4. CASE ReadImage
  BY <1>1, <1>4 DEF ReadImage, Give, ModeInv
<1>5. CASE WriteFile
  BY <1>1, <1>5 DEF WriteFile, ModeInv
<1>6. CASE Unpacked
  BY <1>1, <1>6 DEF Unpacked, ModeInv, process
<1>7. CASE ParseFex
  BY <1>1, <1>7 DEF ParseFex, Give, ModeInv, process, disk
<1>8. CASE GetRealSize
  BY <1>1, <1>8 DEF GetRealSize
<1>9. CASE SaveFile
  BY <1>1, <1>9 DEF SaveFile, Give, ModeInv
<1>10. CASE Pack
  BY <1>1, <1>10 DEF Pack, Give, ModeInv
<1>11. CASE RunGenimage
  BY <1>1, <1>11 DEF RunGenimage, Give
<1>12. CASE Kill
  BY <1>1, <1>12 DEF Kill
<1>13. CASE Swap
  BY <1>13 DEF Swap, ModeInv, process, disk
<1>14. CASE UNCHANGED vars
  BY <1>14 DEF vars, process, disk, ModeInv
<1>. QED  BY <1>2, <1>3, <1>4, <1>5, <1>6, <1>7, <1>8, <1>9, <1>10, <1>11, <1>12, <1>13, <1>14 DEF Next, Step

\* Every step keeps what is known of the unpacked files.
LEMMA UnpackStep == TypeInv /\ ModeInv /\ UnpackInv /\ [Next]_vars => UnpackInv'
<1> SUFFICES ASSUME TypeInv, ModeInv, UnpackInv, [Next]_vars PROVE UnpackInv'
  OBVIOUS
<1>0. DiskType /\ ProcessType /\ WorldType /\ PointType
  BY TypeParts
<1>1. ASSUME pc' \notin Unpacking PROVE UnpackInv'
  BY <1>1 DEF UnpackInv, Unpacking
<1>2. ASSUME NEW s, End(s) PROVE UnpackInv'
  BY <1>1, <1>2 DEF End, Unpacking
<1>3. ASSUME NEW m \in Modes, Start(m) PROVE UnpackInv'
  BY <1>1, <1>2, <1>3 DEF Start, Unpacking
<1>4. CASE CheckFile
  BY <1>1, <1>2, <1>4 DEF CheckFile, Give, Unpacking
<1>5. CASE ReadImage
  <2>1. CASE Give("error")
    BY <1>2, <2>1 DEF Give
  <2>2. CASE /\ input \in Readable /\ loaded' = input /\ todo' = Holds[input] /\ pc' = "files"
             /\ \/ /\ list' = TRUE /\ NoFault
                   /\ cfgs' = [cfgs EXCEPT !["image.cfg"] = [is |-> "list", of |-> input]]
                \/ list' = FALSE /\ Fault /\ cfgs' = cfgs
    <3>1. input \in Images /\ "image.cfg" \in CfgNames
      BY <2>2 DEF Readable, CfgNames
    <3>2. list' => cfgs'["image.cfg"] = [is |-> "list", of |-> loaded']
      BY <1>0, <2>2, <3>1 DEF DiskType
    <3>3. ~faulted' => list'
      BY <2>2 DEF Fault
    <3>. QED  BY <2>2, <3>1, <3>2, <3>3 DEF UnpackInv
  <2>. QED  BY <1>5, <2>1, <2>2 DEF ReadImage
<1>6. CASE WriteFile
  <2>1. PICK f \in todo :
          /\ todo' = todo \ {f}
          /\ \/ files' = [files EXCEPT ![f] = loaded] /\ NoFault
             \/ files' \in {files, [files EXCEPT ![f] = Torn]} /\ Fault
    BY <1>6 DEF WriteFile
  <2>2. /\ pc = "files" /\ IF list THEN pc' = pc /\ exit' = exit ELSE End("crashed")
        /\ UNCHANGED <<dumpDir, cfgs, converted, packed, tmpDirs, mode, loaded, list, config, world>>
    BY <1>6 DEF WriteFile
  <2>3. CASE pc' = "files"
    <3>1. mode # "PACK" /\ loaded \in Images /\ f \in Payloads
      BY <1>0, <2>1, <2>2 DEF ModeInv, UnpackInv, Unpacking, ProcessType
    <3>2. ASSUME ~faulted', NEW g \in Holds[loaded] PROVE files'[g] = loaded \/ g \in todo'
      <4>1. ~faulted /\ files' = [files EXCEPT ![f] = loaded]
        BY <2>1, <3>2 DEF Fault, NoFault
      <4>2. files[g] = loaded \/ g \in todo
        BY <2>2, <3>1, <3>2, <4>1 DEF UnpackInv, Unpacking
      <4>3. files'[g] = IF g = f THEN loaded ELSE files[g]
        BY <1>0, <3>1, <3>2, <4>1, ImagesAssumption DEF DiskType
      <4>. QED  BY <2>1, <4>2, <4>3
    <3>3. ~faulted' => ~faulted
      BY <2>1 DEF Fault, NoFault
    <3>. QED  BY <2>2, <2>3, <3>1, <3>2, <3>3 DEF UnpackInv
  <2>. QED  BY <1>2, <2>2, <2>3
<1>7. CASE Unpacked
  <2>1. CASE pc' = "fex" /\ exit' = exit
    <3>1. pc = "files" /\ todo = {} /\ UNCHANGED <<faulted, files, loaded, mode, todo>>
      BY <1>7 DEF Unpacked, NoFault, disk, process
    <3>. QED  BY <2>1, <3>1 DEF UnpackInv, Unpacking
  <2>. QED  BY <1>2, <1>7, <2>1 DEF Unpacked
<1>8. CASE ParseFex
  BY <1>2, <1>8 DEF ParseFex, Give, NoFault, UnpackInv, Unpacking, disk, process
<1>9. CASE GetRealSize
  BY <1>2, <1>9 DEF GetRealSize
<1>10. CASE SaveFile
  <2>1. CASE pc' = "genimage" /\ exit' = exit
    <3>1. pc = "save" /\ UNCHANGED <<files, loaded, mode, todo>>
      BY <1>10, <2>1 DEF SaveFile, Give, End
    <3>2. ~faulted' => ~faulted
      BY <1>10 DEF SaveFile, Fault, NoFault
    <3>. QED  BY <2>1, <3>1, <3>2 DEF UnpackInv, Unpacking
  <2>. QED  BY <1>2, <1>10, <2>1 DEF SaveFile, Give
<1>11. CASE Pack
  <2>1. CASE pc' = "genimage" /\ mode' = mode
    BY <1>11, <2>1 DEF Pack, ModeInv, UnpackInv
  <2>. QED  BY <1>2, <1>11, <2>1 DEF Pack, Give
<1>12. CASE RunGenimage
  BY <1>2, <1>12 DEF RunGenimage, Give
<1>13. CASE Kill
  BY <1>2, <1>13 DEF Kill
<1>14. CASE Swap
  BY <1>14 DEF Swap, UnpackInv, process, disk
<1>15. CASE UNCHANGED vars
  BY <1>15 DEF vars, process, disk, UnpackInv
<1>. QED  BY <1>3, <1>4, <1>5, <1>6, <1>7, <1>8, <1>9, <1>10, <1>11, <1>12, <1>13, <1>14, <1>15 DEF Next, Step

\* Only saving a table and pack lead to genimage.
LEMMA ConfigStep == TypeInv /\ ModeInv /\ ConfigInv /\ [Next]_vars => ConfigInv'
<1> SUFFICES ASSUME TypeInv, ModeInv, ConfigInv, [Next]_vars, pc' = "genimage", mode' = "DUMP"
             PROVE  ConfigInv'
  BY DEF ConfigInv
<1>1. CASE SaveFile
  <2>1. /\ \/ NoFault /\ cfgs' = WithTable(files[Fex])
           \/ Fault /\ cfgs' = WithTable(Torn)
        /\ config' = CfgName /\ base' = base /\ files' = files /\ pc = "save"
    BY <1>1 DEF SaveFile, Give, End, world
  <2>2. files[Fex] \in Sources /\ Torn \in Sources
    BY <2>1, TypeParts, ImagesAssumption DEF ModeInv, DiskType, Sources
  <2>3. PICK s \in Sources : cfgs' = WithTable(s) /\ (~faulted' => s = files[Fex])
    BY <2>1, <2>2 DEF Fault
  <2>4. cfgs'[CfgName] = [is |-> "table", of |-> s]
    BY <2>3, TypeParts, WithTableType DEF DiskType
  <2>5. CfgName' = CfgName
    BY <2>1 DEF CfgName
  <2>. QED  BY <2>1, <2>3, <2>4, <2>5 DEF ConfigInv
<1>2. CASE Pack
  BY <1>2 DEF Pack, Give, End, ModeInv
<1>3. CASE UNCHANGED vars \/ Swap
  <2>1. UNCHANGED <<pc, mode, config, cfgs, files, faulted>>
    BY <1>3 DEF vars, Swap, process, disk
  <2>2. CfgName' = CfgName
    BY <1>3 DEF vars, Swap, world, CfgName
  <2>. QED  BY <2>1, <2>2 DEF ConfigInv
<1>4. SaveFile \/ Pack \/ Swap \/ UNCHANGED vars
  BY DEF Next, Step, Start, End, CheckFile, Give, ReadImage, WriteFile, Unpacked, ParseFex, GetRealSize, RunGenimage, Kill
<1>. QED  BY <1>1, <1>2, <1>3, <1>4

\* The steps a run ends with successfully, with its mode.
LEMMA WhoSucceeds ==
  ASSUME ModeInv, [Next]_vars, exit' = "ok"
  PROVE  \/ UNCHANGED <<disk, process, base, exit, faulted>>
         \/ Unpacked /\ mode = "UNPACK"
         \/ GetRealSize /\ mode = "SIZE"
         \/ SaveFile /\ mode = "UNPACKCFG"
         \/ Pack /\ mode = "PACK"
         \/ RunGenimage /\ mode \in {"DUMP", "PACK"}
<1>1. CASE \E m \in Modes : Start(m)
  BY <1>1 DEF Start, End
<1>2. CASE CheckFile \/ ReadImage \/ WriteFile \/ ParseFex \/ Kill
  BY <1>2 DEF CheckFile, ReadImage, WriteFile, ParseFex, Kill, Give, End, ModeInv
<1>3. CASE Unpacked
  BY <1>3 DEF Unpacked, End, ModeInv
<1>4. CASE GetRealSize
  BY <1>4 DEF GetRealSize, ModeInv
<1>5. CASE SaveFile
  BY <1>5 DEF SaveFile, Give, End, ModeInv
<1>6. CASE Pack
  BY <1>6 DEF Pack, ModeInv
<1>7. CASE RunGenimage
  BY <1>7 DEF RunGenimage, ModeInv
<1>8. CASE Swap \/ UNCHANGED vars
  BY <1>8 DEF Swap, vars, world
<1>. QED  BY <1>1, <1>2, <1>3, <1>4, <1>5, <1>6, <1>7, <1>8 DEF Next, Step

\* What a step that changes none of this leaves of the promises.
LEMMA PromisesStay ==
  ASSUME UNCHANGED <<disk, process, base, exit, faulted>>
  PROVE  (ExitZeroMeansDone => ExitZeroMeansDone') /\ (FreshConversion => FreshConversion')
<1>1. CfgName' = CfgName
  BY DEF CfgName
<1>2. UNCHANGED <<dumpDir, files, cfgs, converted, packed, mode, loaded, exit, faulted>>
  BY DEF disk, process
<1>3. PackCandidates' = PackCandidates
  BY <1>2 DEF PackCandidates
<1>. QED  BY <1>1, <1>2, <1>3 DEF ExitZeroMeansDone, FreshConversion, Succeeded

\* An image that was made is one, and is where the mode wants it.
LEMMA SomethingMade ==
  ASSUME TypeInv, ModeInv, RunGenimage, exit' = "ok", ~faulted'
  PROVE  \E need \in FilesNeeded(cfgs[config]) :
           LET made == {cfgs[config].of} \cup {files[f] : f \in need}
           IN  /\ made \in SUBSET Sources /\ \A f \in need : files[f] # Absent
               /\ mode = "DUMP" => converted' = made
               /\ mode = "PACK" => packed' = made
<1>1. pc = "genimage" /\ mode \in {"DUMP", "PACK"}
  BY DEF RunGenimage, ModeInv
<1>2. PICK need \in FilesNeeded(cfgs[config]) :
        /\ \A f \in need : files[f] # Absent
        /\ Produce({cfgs[config].of} \cup {files[f] : f \in need})
  BY DEF RunGenimage, Give, End, Fault, NoFault
<1>3. {cfgs[config].of} \cup {files[f] : f \in need} \in SUBSET Sources
  BY <1>1, <1>2, ImageMade
<1>. QED  BY <1>1, <1>2, <1>3 DEF Produce

\* genimage changes none of the files it reads, nor what the driver remembers.
LEMMA GenimageKeeps ==
  RunGenimage => pc = "genimage" /\ UNCHANGED <<dumpDir, files, cfgs, process, world>>
<1>1. CASE Fault /\ Give("error") /\ pc = "genimage"
  BY <1>1 DEF Give, disk
<1>2. CASE pc = "genimage" /\ UNCHANGED <<dumpDir, files, cfgs, process, world>>
  BY <1>2
<1>. QED  BY <1>1, <1>2 DEF RunGenimage

\* Without a fault in this step there was none in the run.
LEMMA GenimageSound == RunGenimage /\ ~faulted' => ~faulted
  BY DEF RunGenimage, Fault, NoFault

\* A run that ends with 0 has done what its mode promises.
LEMMA ExitStep ==
  TypeInv /\ ModeInv /\ UnpackInv /\ ConfigInv /\ ExitZeroMeansDone /\ [Next]_vars => ExitZeroMeansDone'
<1> SUFFICES ASSUME TypeInv, ModeInv, UnpackInv, ConfigInv, ExitZeroMeansDone, [Next]_vars,
                    exit' = "ok", ~faulted'
             PROVE  ExitZeroMeansDone'
  BY DEF ExitZeroMeansDone, Succeeded
<1>0. DiskType /\ ProcessType /\ WorldType /\ PointType
  BY TypeParts
<1>1. CASE UNCHANGED <<disk, process, base, exit, faulted>>
  BY <1>1, PromisesStay
<1>2. CASE Unpacked /\ mode = "UNPACK"
  <2>1. /\ pc = "files" /\ todo = {} /\ ~faulted
        /\ UNCHANGED <<files, cfgs, loaded, mode>>
    BY <1>2 DEF Unpacked, NoFault, disk, process
  <2>2. list /\ cfgs["image.cfg"] = [is |-> "list", of |-> loaded]
    BY <1>0, <2>1 DEF UnpackInv
  <2>3. \A f \in Holds[loaded] : files[f] = loaded
    BY <1>2, <2>1 DEF UnpackInv, Unpacking
  <2>. QED  BY <1>2, <2>1, <2>2, <2>3 DEF ExitZeroMeansDone
<1>3. CASE GetRealSize /\ mode = "SIZE"
  <2>1. dumpDir' = FALSE /\ cfgs' = NoCfgs /\ mode' = mode
    BY <1>3 DEF GetRealSize, End, Fault, process
  <2>2. PackCandidates' = {}
    BY <2>1 DEF PackCandidates, NoCfgs
  <2>. QED  BY <1>3, <2>1, <2>2 DEF ExitZeroMeansDone
<1>4. CASE SaveFile /\ mode = "UNPACKCFG"
  <2>1. pc = "save" /\ cfgs' = WithTable(files[Fex]) /\ ~faulted /\ UNCHANGED <<files, loaded, mode, base>>
    BY <1>4 DEF SaveFile, Give, End, Fault, NoFault, world
  <2>2. \A f \in Holds[loaded] : files[f] = loaded
    BY <1>4, <2>1 DEF UnpackInv, Unpacking
  <2>3. files[Fex] \in Sources
    BY <1>0, <2>1, ImagesAssumption DEF ModeInv, DiskType
  <2>4. cfgs'[CfgName] = [is |-> "table", of |-> files[Fex]]
    BY <1>0, <2>1, <2>3, WithTableType DEF DiskType
  <2>5. CfgName' = CfgName
    BY <2>1 DEF CfgName
  <2>. QED  BY <1>4, <2>1, <2>2, <2>4, <2>5 DEF ExitZeroMeansDone
<1>5. CASE Pack /\ mode = "PACK"
  <2>1. PackCandidates = {} /\ UNCHANGED <<cfgs, mode>>
    BY <1>5 DEF Pack, Give, End, ModeInv, disk, process
  <2>2. PackCandidates' = {}
    BY <2>1 DEF PackCandidates
  <2>. QED  BY <1>5, <2>1, <2>2 DEF ExitZeroMeansDone
<1>6. CASE RunGenimage /\ mode \in {"DUMP", "PACK"}
  <2>1. /\ pc = "genimage" /\ ~faulted
        /\ UNCHANGED <<files, cfgs, loaded, mode, base>>
    BY <1>6, GenimageKeeps, GenimageSound DEF process, world
  <2>2. /\ mode = "DUMP" => converted' # Absent
        /\ mode = "PACK" => packed' # Absent
    BY <1>6, SomethingMade, AbsentAssumption
  <2>3. CASE mode = "PACK"
    BY <2>1, <2>2, <2>3 DEF ExitZeroMeansDone
  <2>4. CASE mode = "DUMP"
    <3>1. \A f \in Holds[loaded] : files[f] = loaded
      BY <2>1, <2>4 DEF UnpackInv, Unpacking
    <3>2. cfgs[CfgName].is = "table" /\ CfgName' = CfgName
      BY <2>1, <2>4 DEF ConfigInv, CfgName
    <3>. QED  BY <2>1, <2>2, <2>4, <3>1, <3>2 DEF ExitZeroMeansDone
  <2>. QED  BY <1>6, <2>3, <2>4
<1>. QED  BY <1>1, <1>2, <1>3, <1>4, <1>5, <1>6, WhoSucceeds

\* The bytes of an image converted without a fault are those of the input.
LEMMA FreshStep ==
  TypeInv /\ ModeInv /\ UnpackInv /\ ConfigInv /\ FreshConversion /\ [Next]_vars => FreshConversion'
<1> SUFFICES ASSUME TypeInv, ModeInv, UnpackInv, ConfigInv, FreshConversion, [Next]_vars,
                    exit' = "ok", ~faulted', mode' = "DUMP",
                    Needs[loaded'] \cup {Fex} \subseteq Holds[loaded']
             PROVE  converted' = {loaded'}
  BY DEF FreshConversion, Succeeded
<1>1. CASE UNCHANGED <<disk, process, base, exit, faulted>>
  BY <1>1, PromisesStay DEF FreshConversion, Succeeded
<1>2. CASE RunGenimage /\ mode = "DUMP"
  <2>1. /\ pc = "genimage" /\ ~faulted /\ loaded' = loaded
    BY <1>2, GenimageKeeps, GenimageSound DEF process
  <2>2. loaded \in Images /\ \A f \in Holds[loaded] : files[f] = loaded
    BY <1>2, <2>1 DEF UnpackInv, Unpacking
  <2>3. cfgs[config].of = loaded
    BY <1>2, <2>1, <2>2 DEF ConfigInv
  <2>4. FilesNeeded(cfgs[config]) = {Needs[loaded]}
    BY <2>2, <2>3, ImagesAssumption DEF FilesNeeded
  <2>5. converted' = {loaded} \cup {files[f] : f \in Needs[loaded]}
    BY <1>2, <2>3, <2>4, SomethingMade
  <2>. QED  BY <2>1, <2>2, <2>5
<1>3. mode' = mode \/ \E m \in Modes : Start(m)
  BY DEF Next, Step, CheckFile, ReadImage, WriteFile, Unpacked, ParseFex, GetRealSize, SaveFile, Pack, RunGenimage,
     Kill, Swap, Give, process, vars
<1>4. mode' = mode
  BY <1>3 DEF Start, End
<1>. QED  BY <1>1, <1>2, <1>4, WhoSucceeds

-----------------------------------------------------------------------------
(***************************************************************************)
(* The theorems.                                                           *)
(***************************************************************************)
\* The invariant, in every execution.
LEMMA DriverInvariant == Spec => []DriverInv
<1>1. Init => DriverInv
  BY InitTypes, InitIdle DEF DriverInv
<1>2. DriverInv /\ [Next]_vars => DriverInv'
  BY TypeStep, ModeStep, UnpackStep, ConfigStep, ExitStep, FreshStep DEF DriverInv
<1>. QED  BY <1>1, <1>2, PTL DEF Spec

\* Over any number of runs, kills, faults and exchanged inputs the driver and
\* the files it leaves stay what OpenixCard.cpp takes them for; in particular
\* only a configuration that is there is given to genimage.
THEOREM DriverTypes == Spec => []TypeOK
<1>1. DriverInv => TypeOK
  BY DEF DriverInv, TypeInv
<1>. QED  BY <1>1, DriverInvariant, PTL

\* An exit status of 0 means what the mode promises, if no call to the system
\* failed, whatever earlier runs left on the disk.
THEOREM ZeroMeansDone == Spec => []ExitZeroMeansDone
<1>1. DriverInv => ExitZeroMeansDone
  BY DEF DriverInv
<1>. QED  BY <1>1, DriverInvariant, PTL

\* A conversion that succeeds holds bytes of its input only, although nothing
\* that earlier runs left is removed first.
THEOREM ConversionFresh == Spec => []FreshConversion
<1>1. DriverInv => FreshConversion
  BY DEF DriverInv
<1>. QED  BY <1>1, DriverInvariant, PTL
=============================================================================
