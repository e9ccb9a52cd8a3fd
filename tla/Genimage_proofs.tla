-------------------------- MODULE Genimage_proofs --------------------------
(***************************************************************************)
(* The walk of image_setup and image_generate over the images, for every   *)
(* number of images and every way they contain each other.  What the two   *)
(* functions know of each other is a mark per image: the invariant says    *)
(* what the marks mean, in terms of the calls under way.                   *)
(***************************************************************************)
EXTENDS Genimage, SequenceTheorems, TLAPS

\* The mark of the walk under way, and the phases before the first one.
Mark == IF phase = "setup" THEN -1 ELSE 1
Walking == phase \in {"setup", "generate"}
EarlyPhases == {"config", "parse", "implicit", "flash", "mount"}
Early == phase \in EarlyPhases

TypeInv ==
  /\ TypeOK
  /\ cfg \in Configs
  /\ top >= 1 /\ part >= 1
  /\ \A k \in DOMAIN calls : calls[k].at >= 1

\* The list contains what its images contain: those the first loop has passed,
\* and from its end on all of them.
InList(f, n) == PartsOf(f)[n].image \in Range(images) \cup {NoFile}
AllInList(f) == \A n \in DOMAIN PartsOf(f) : InList(f, n)
Passed(f) == \E i \in DOMAIN images : i < top /\ images[i] = f
AtImage(f) == top \in DOMAIN images /\ images[top] = f

ListInv ==
  /\ phase \in {"config", "parse"} => top = 1 /\ part = 1
  /\ phase = "implicit" => \A f \in Files :
       /\ Passed(f) => AllInList(f)
       /\ AtImage(f) => \A n \in DOMAIN PartsOf(f) : n < part => InList(f, n)
  /\ phase \in {"flash", "mount", "setup", "generate"} => \A f \in Range(images) : AllInList(f)
  /\ phase = "mount" => top = 1

\* An image on the stack is marked as seen and not as done; the partitions it
\* has been through hold images that are done.
Settled(f, n) == \A g \in Files : PartsOf(f)[n].image = g => done[g] = Mark

FrameInv(k, f) ==
  /\ f \in Range(images)
  /\ seen[f] = Mark /\ done[f] # Mark
  /\ \A n \in DOMAIN PartsOf(f) : n < calls[k].at => Settled(f, n)
  /\ calls[k].stage # "children" => calls[k].at > Len(PartsOf(f))
  /\ calls[k].stage = "made" => f \in Range(made)

\* A caller is at the partition it called for.
Link(k, f, g) == calls[k].at \in DOMAIN PartsOf(f) /\ PartsOf(f)[calls[k].at].image = g

OnStack(f) == \E k \in DOMAIN calls : calls[k].image = f

WalkInv ==
  Walking =>
    /\ calls # << >> => top <= Len(images) /\ calls[1].image = images[top]
    /\ \A k \in DOMAIN calls : \A f \in Files : calls[k].image = f => FrameInv(k, f)
    /\ \A k \in DOMAIN calls : \A f, g \in Files :
         k < Len(calls) /\ calls[k].image = f /\ calls[k + 1].image = g => Link(k, f, g)
    /\ \A j, k \in DOMAIN calls : calls[j].image = calls[k].image => j = k
    /\ \A f \in Files : seen[f] = Mark => done[f] = Mark \/ OnStack(f)
    /\ \A f \in Files : Passed(f) => done[f] = Mark

\* Before a walk no image has its mark, and nothing is under way.
FreshInv ==
  /\ Early => calls = << >> /\ \A f \in Files : done[f] = 0 /\ seen[f] = 0
  /\ Early \/ phase = "setup" => made = << >> /\ \A f \in Files : done[f] # 1 /\ seen[f] # 1

\* What has been made, and how the run has gone.
BeingMade(f) == \E k \in DOMAIN calls : calls[k].image = f /\ calls[k].stage = "made"

MadeInv ==
  /\ phase = "generate" => \A f \in Range(made) : done[f] = 1 \/ BeingMade(f)
  /\ \A f \in Files : done[f] = 1 => f \in Range(made)
  /\ Range(made) \subseteq Range(images)

RetInv ==
  /\ phase \notin {"cleanup", "over"} => ret = "ok"
  /\ phase = "cleanup" => ret # "exit"
  /\ phase \in {"cleanup", "over"} /\ ret = "ok" => Range(images) \subseteq Range(made)

GenInv ==
  /\ TypeInv /\ ListInv /\ FreshInv /\ WalkInv /\ MadeInv /\ RetInv
  /\ ChildrenFirst /\ GeneratedOnce /\ RecursionIsReal

-----------------------------------------------------------------------------
(***************************************************************************)
(* Partitions, children and calls.                                         *)
(***************************************************************************)
\* A call under way.
ActiveCall == [image: Files, at: Nat, stage: {"children", "ready", "made"}]

\* The partitions of an image are partitions.
LEMMA PartsType ==
  ASSUME cfg \in Seq(Section), NEW f
  PROVE  PartsOf(f) \in Seq(Part)
<1>1. CASE f \in Declared
  <2>1. \E i \in DOMAIN cfg : cfg[i].file = f
    BY <1>1 DEF Declared
  <2>2. \E s \in Range(cfg) : s.file = f
    BY <2>1 DEF Range
  <2>3. SectionOf(f) \in Range(cfg)
    BY <2>2 DEF SectionOf
  <2>4. PICK i \in DOMAIN cfg : SectionOf(f) = cfg[i]
    BY <2>3 DEF Range
  <2>5. SectionOf(f) \in Section
    BY <2>4
  <2>. QED  BY <1>1, <2>5 DEF PartsOf, Section
<1>2. CASE f \notin Declared
  BY <1>2 DEF PartsOf
<1>. QED  BY <1>1, <1>2

\* A partition of an image, and what it holds.
LEMMA PartType ==
  ASSUME cfg \in Seq(Section), NEW f, NEW n \in DOMAIN PartsOf(f)
  PROVE  PartsOf(f)[n].image \in Files \cup {NoFile}
<1>1. PartsOf(f) \in Seq(Part)
  BY PartsType
<1>2. PartsOf(f)[n] \in Part
  BY <1>1
<1>. QED  BY <1>2 DEF Part

\* The children of an image are what its partitions hold.
LEMMA ChildrenAre ==
  ASSUME NEW f
  PROVE  \A g : g \in Children(f) <=>
                  g # NoFile /\ \E n \in DOMAIN PartsOf(f) : PartsOf(f)[n].image = g
BY DEF Children, Range

\* So they are images.
LEMMA ChildrenType ==
  ASSUME cfg \in Seq(Section), NEW f
  PROVE  Children(f) \subseteq Files
BY ChildrenAre, PartType

\* The configuration never changes, so neither does the graph.
LEMMA GraphStays ==
  ASSUME cfg' = cfg
  PROVE  \A f : PartsOf(f)' = PartsOf(f) /\ Children(f)' = Children(f)
BY DEF PartsOf, SectionOf, Declared, Children

\* A return to a caller moves it to its next partition and nothing else.
Moved(c, d) == d.image = c.image /\ d.stage = c.stage /\ d.at = c.at + 1

\* The frame of the caller after a return.
LEMMA CallerMoves ==
  ASSUME NEW s \in Seq(ActiveCall), s # << >>, NEW t, t = [s EXCEPT ![Len(s)].at = @ + 1]
  PROVE  /\ t \in Seq(ActiveCall) /\ Len(t) = Len(s)
         /\ Moved(s[Len(s)], t[Len(s)])
         /\ \A k \in 1 .. Len(s) - 1 : t[k] = s[k]
<1>1. Len(s) \in Nat /\ Len(s) \in DOMAIN s /\ s[Len(s)] \in ActiveCall
  OBVIOUS
<1>2. t = [s EXCEPT ![Len(s)] = [s[Len(s)] EXCEPT !.at = @ + 1]]
  OBVIOUS
<1>3. [s[Len(s)] EXCEPT !.at = @ + 1] \in ActiveCall
  BY <1>1, SMTT(30) DEF ActiveCall
<1>4. Moved(s[Len(s)], [s[Len(s)] EXCEPT !.at = @ + 1])
  BY <1>1 DEF Moved, ActiveCall
<1>. QED  BY <1>1, <1>2, <1>3, <1>4

-----------------------------------------------------------------------------
(***************************************************************************)
(* Types.                                                                  *)
(***************************************************************************)
\* The types of the parts of the state: the fields of control, and the rest.
Phases == {"config", "parse", "implicit", "flash", "mount", "setup", "generate", "cleanup", "over"}
Returns == {"ok", "exit", "config", "parse", "no input file", "holes", "flash type", "mount",
            "recursive", "setup", "paths", "exec-pre", "generate", "exec-post"}

ControlType == phase \in Phases /\ ret \in Returns
CfgType == cfg \in Seq(Section) /\ cfg \in Configs
ListType == images \in Seq(Files) /\ holes \subseteq Files /\ flash \in [Files -> Flashes \cup {NoFlash}]
MarkType == done \in [Files -> -1 .. 1] /\ seen \in [Files -> -1 .. 1]
LoopType == top \in Nat /\ part \in Nat /\ top >= 1 /\ part >= 1
StackType == calls \in Seq(ActiveCall) /\ \A k \in DOMAIN calls : calls[k].at >= 1
OutType == outputs \subseteq Files /\ made \in Seq(Files)
TmpType == tmp \in {"missing", "empty", "used"} /\ tmpFound \in BOOLEAN

\* The type invariant is the types of the parts.
LEMMA TypeParts ==
  TypeInv <=> ControlType /\ CfgType /\ ListType /\ MarkType /\ LoopType /\ StackType /\ OutType /\ TmpType
BY DEF TypeInv, TypeOK, ControlType, CfgType, ListType, MarkType, LoopType, StackType, OutType, TmpType,
       ActiveCall, Phases, Returns

\* The same of the state after a step.
LEMMA TypePartsNext ==
  TypeInv' <=> /\ ControlType' /\ CfgType' /\ ListType' /\ MarkType'
               /\ LoopType' /\ StackType' /\ OutType' /\ TmpType'
BY DEF TypeInv, TypeOK, ControlType, CfgType, ListType, MarkType, LoopType, StackType, OutType, TmpType,
       ActiveCall, Phases, Returns

\* The initial state is well typed.
LEMMA InitTypes == Init => TypeInv
<1> SUFFICES ASSUME Init PROVE TypeInv
  OBVIOUS
<1>1. ControlType /\ TmpType
  BY DEF Init, ControlType, TmpType, Phases, Returns
<1>6. OutType
  BY DEF Init, OutType
<1>7. LoopType
  BY DEF Init, LoopType
<1>2. CfgType
  BY ConfigsAssumption DEF Init, CfgType
<1>3. ListType
  BY DEF Init, ListType
<1>4. MarkType
  BY DEF Init, MarkType
<1>5. StackType
  BY DEF Init, StackType
<1>. QED  BY <1>1, <1>2, <1>3, <1>4, <1>5, <1>6, <1>7, TypeParts

\* What a step leaves alone keeps its type.
LEMMA TypesStay ==
  /\ ControlType /\ UNCHANGED control => ControlType'
  /\ CfgType /\ cfg' = cfg => CfgType'
  /\ ListType /\ UNCHANGED <<images, flash, holes>> => ListType'
  /\ MarkType /\ UNCHANGED <<done, seen>> => MarkType'
  /\ LoopType /\ UNCHANGED <<top, part>> => LoopType'
  /\ StackType /\ calls' = calls => StackType'
  /\ OutType /\ UNCHANGED <<outputs, made>> => OutType'
  /\ TmpType /\ UNCHANGED tmpdir => TmpType'
BY DEF ControlType, CfgType, ListType, MarkType, LoopType, StackType, OutType, TmpType, control, tmpdir

\* An error is one of the known ones.
LEMMA AbandonType == \A r \in Returns : Abandon(r) => ControlType'
BY DEF Abandon, ControlType, Phases

\* exit(1) keeps the type of control.
LEMMA ExitType == Exit => ControlType'
BY DEF Exit, ControlType, Phases, Returns

\* The image at the position of the loops, and its partition there.
LEMMA LoopImage ==
  ASSUME TypeInv, top <= Len(images)
  PROVE  top \in DOMAIN images /\ images[top] \in Files /\ images[top] \in Range(images)
<1>1. images \in Seq(Files) /\ top \in Nat /\ top >= 1
  BY DEF TypeInv, TypeOK
<1>2. top \in DOMAIN images /\ images[top] \in Files
  BY <1>1
<1>. QED  BY <1>2 DEF Range

\* The loops' image and partition, inside the inner loop.
LEMMA InnerPart ==
  ASSUME TypeInv, Inner
  PROVE  /\ top \in DOMAIN images /\ images[top] \in Files /\ images[top] \in Range(images)
         /\ part \in DOMAIN PartsOf(images[top]) /\ This \in Part
         /\ This.image \in Files \cup {NoFile}
<1>1. top \in DOMAIN images /\ images[top] \in Files /\ images[top] \in Range(images)
  BY LoopImage DEF Inner
<1>2. PartsOf(images[top]) \in Seq(Part)
  BY PartsType DEF TypeInv, TypeOK
<1>3. part \in DOMAIN PartsOf(images[top])
  <2>1. part \in Nat /\ part >= 1 /\ part <= Len(PartsOf(images[top]))
    BY DEF Inner, TypeInv, TypeOK
  <2>. QED  BY <1>2, <2>1
<1>4. This \in Part
  BY <1>2, <1>3 DEF This
<1>. QED  BY <1>1, <1>3, <1>4 DEF Part

\* The steps of the recursion keep types: a call, a return, the end of a call.
LEMMA PushType ==
  ASSUME StackType, NEW f \in Files, calls' = Append(calls, Frame(f))
  PROVE  StackType'
<1>1. Frame(f) \in ActiveCall /\ Frame(f).at = 1
  BY DEF Frame, ActiveCall
<1>2. calls' \in Seq(ActiveCall) /\ Len(calls') = Len(calls) + 1
      /\ \A k \in DOMAIN calls' : calls'[k] = IF k \in DOMAIN calls THEN calls[k] ELSE Frame(f)
  BY <1>1 DEF StackType
<1>3. \A k \in DOMAIN calls' : calls'[k].at >= 1
  BY <1>1, <1>2 DEF StackType
<1>. QED  BY <1>2, <1>3 DEF StackType

\* A return keeps the types of the stack and of the loop.
LEMMA ReturnType ==
  ASSUME NEW callers \in Seq(ActiveCall), \A k \in DOMAIN callers : callers[k].at >= 1,
         LoopType, part' = part, ReturnTo(callers)
  PROVE  StackType' /\ LoopType'
<1>1. CASE callers = << >>
  BY <1>1 DEF ReturnTo, StackType, LoopType
<1>2. CASE callers # << >>
  <2>1. calls' = [callers EXCEPT ![Len(callers)].at = @ + 1] /\ top' = top
    BY <1>2 DEF ReturnTo
  <2>2. /\ calls' \in Seq(ActiveCall) /\ Len(calls') = Len(callers)
        /\ Moved(callers[Len(callers)], calls'[Len(callers)])
        /\ \A k \in 1 .. Len(callers) - 1 : calls'[k] = callers[k]
    BY <1>2, <2>1, CallerMoves, SMTT(30)
  <2>3. Len(callers) \in DOMAIN callers /\ callers[Len(callers)].at \in Nat
    <3>1. Len(callers) \in DOMAIN callers /\ callers[Len(callers)] \in ActiveCall
      BY <1>2
    <3>. QED  BY <3>1 DEF ActiveCall
  <2>4. calls'[Len(callers)].at >= 1
    BY <2>2, <2>3 DEF Moved
  <2>5. \A k \in DOMAIN calls' : calls'[k].at >= 1
    BY <2>2, <2>4
  <2>. QED  BY <2>1, <2>2, <2>5 DEF StackType, LoopType
<1>. QED  BY <1>1, <1>2

\* The innermost call, its image, and the callers without it.
LEMMA Innermost ==
  ASSUME StackType, calls # << >>
  PROVE  /\ Len(calls) \in DOMAIN calls /\ Current = calls[Len(calls)] /\ Current \in ActiveCall
         /\ Current.image \in Files /\ Current.at \in Nat /\ Current.at >= 1
         /\ Front(calls) \in Seq(ActiveCall) /\ Len(Front(calls)) = Len(calls) - 1
         /\ \A k \in 1 .. Len(calls) - 1 : Front(calls)[k] = calls[k]
         /\ \A k \in DOMAIN Front(calls) : Front(calls)[k].at >= 1
<1>1. calls \in Seq(ActiveCall) /\ Len(calls) \in Nat /\ Len(calls) >= 1 /\ Len(calls) \in DOMAIN calls
  BY DEF StackType
<1>2. Current = calls[Len(calls)] /\ Current \in ActiveCall
  BY <1>1 DEF Current
<1>3. Current.image \in Files /\ Current.at \in Nat
  BY <1>2 DEF ActiveCall
<1>4. Current.at >= 1
  BY <1>1, <1>2 DEF StackType
<1>5. Front(calls) \in Seq(ActiveCall) /\ Len(Front(calls)) = Len(calls) - 1
      /\ \A k \in 1 .. Len(calls) - 1 : Front(calls)[k] = calls[k]
  <2>1. PICK n \in Nat : n = Len(calls) - 1
    BY <1>1
  <2>2. PICK s \in Seq(ActiveCall) : s = calls
    BY <1>1
  <2>3. 1 \in 1 .. Len(s) + 1 /\ n \in 1 - 1 .. Len(s)
    BY <1>1, <2>1, <2>2
  <2>4. /\ SubSeq(s, 1, n) \in Seq(ActiveCall)
        /\ Len(SubSeq(s, 1, n)) = IF 1 <= n THEN n - 1 + 1 ELSE 0
        /\ \A i \in 1 .. n - 1 + 1 : SubSeq(s, 1, n)[i] = s[1 + i - 1]
    BY <2>3, SubSeqProperties
  <2>5. /\ n - 1 + 1 = n
        /\ (IF 1 <= n THEN n - 1 + 1 ELSE 0) = n
        /\ \A i \in 1 .. n : 1 + i - 1 = i
    OBVIOUS
  <2>6. Front(calls) = SubSeq(s, 1, n)
    BY <2>1, <2>2 DEF Front
  <2>7. Len(SubSeq(s, 1, n)) = n /\ \A i \in 1 .. n : SubSeq(s, 1, n)[i] = s[i]
    BY <2>4, <2>5
  <2>. QED  BY <2>1, <2>2, <2>4, <2>6, <2>7
<1>6. \A k \in DOMAIN Front(calls) : Front(calls)[k].at >= 1
  BY <1>1, <1>5 DEF StackType
<1>. QED  BY <1>1, <1>2, <1>3, <1>4, <1>5, <1>6

\* The partition the innermost call is at.
LEMMA InnermostPart ==
  ASSUME TypeInv, StackType, AtPart
  PROVE  /\ Current.at \in DOMAIN PartsOf(Current.image)
         /\ PartAt.image \in Files \cup {NoFile}
<1>1. Current.at \in Nat /\ Current.at >= 1 /\ Current.at <= Len(PartsOf(Current.image))
  BY Innermost DEF AtPart
<1>2. PartsOf(Current.image) \in Seq(Part)
  BY PartsType DEF TypeInv, TypeOK
<1>3. Current.at \in DOMAIN PartsOf(Current.image)
  BY <1>1, <1>2
<1>. QED  BY <1>3, PartType DEF TypeInv, TypeOK, PartAt

\* A call, whether it is made, returns at once or reports a recursion, keeps types.
LEMMA CallTypes ==
  ASSUME ControlType, MarkType, LoopType, StackType, part' = part, done' = done,
         NEW m \in {-1, 1}, NEW f \in Files, Call(f, m)
  PROVE  ControlType' /\ MarkType' /\ LoopType' /\ StackType'
<1>1. CASE ReturnTo(calls) /\ UNCHANGED <<control, seen>>
  <2>1. StackType' /\ LoopType'
    BY <1>1, ReturnType DEF StackType
  <2>. QED  BY <1>1, <2>1, TypesStay
<1>2. CASE Abandon("recursive") /\ UNCHANGED <<seen, calls, top>>
  BY <1>2, AbandonType, TypesStay DEF Returns
<1>3. CASE /\ seen' = [seen EXCEPT ![f] = m] /\ calls' = Append(calls, Frame(f))
           /\ UNCHANGED <<control, top>>
  <2>1. StackType'
    BY <1>3, PushType
  <2>2. MarkType'
    BY <1>3 DEF MarkType
  <2>. QED  BY <1>3, <2>1, <2>2, TypesStay
<1>. QED  BY <1>1, <1>2, <1>3 DEF Call

\* So does the walk to the next image.
LEMMA DescendTypes ==
  ASSUME TypeInv, NEW m \in {-1, 1}, Descend(m)
  PROVE  TypeInv'
<1>1. ControlType /\ CfgType /\ ListType /\ MarkType /\ LoopType /\ StackType /\ OutType /\ TmpType
  BY TypeParts
<1>2. UNCHANGED <<cfg, images, done, flash, holes, part, outputs, made, tmpdir>>
  BY DEF Descend
<1>3. ControlType' /\ MarkType' /\ LoopType' /\ StackType'
  <2>1. CASE calls = << >> /\ top <= Len(images) /\ Call(images[top], m)
    BY <1>1, <1>2, <2>1, LoopImage, CallTypes
  <2>2. CASE AtPart /\ PartAt.image = NoFile /\ ReturnTo(calls) /\ UNCHANGED <<control, seen>>
    <3>1. StackType' /\ LoopType'
      BY <1>1, <1>2, <2>2, ReturnType DEF StackType
    <3>. QED  BY <1>1, <1>2, <2>2, <3>1, TypesStay
  <2>3. CASE AtPart /\ PartAt.image # NoFile /\ Call(PartAt.image, m)
    BY <1>1, <1>2, <2>3, InnermostPart, CallTypes
  <2>. QED  BY <2>1, <2>2, <2>3 DEF Descend
<1>4. CfgType' /\ ListType' /\ OutType' /\ TmpType'
  BY <1>1, <1>2, TypesStay
<1>. QED  BY <1>3, <1>4, TypePartsNext

\* The end of a call keeps types.
LEMMA FinishTypes ==
  ASSUME MarkType, LoopType, StackType, part' = part, seen' = seen, calls # << >>,
         NEW m \in {-1, 1}, Finished(m)
  PROVE  MarkType' /\ LoopType' /\ StackType'
<1>1. StackType' /\ LoopType'
  BY Innermost, ReturnType DEF Finished
<1>2. MarkType'
  BY Innermost DEF Finished, MarkType
<1>. QED  BY <1>1, <1>2

\* A change of stage keeps the type of the stack.
LEMMA StageType ==
  ASSUME StackType, calls # << >>, NEW s \in {"ready", "made"}, SetStage(s)
  PROVE  StackType'
<1>1. calls \in Seq(ActiveCall) /\ Len(calls) \in DOMAIN calls /\ calls[Len(calls)] \in ActiveCall
  BY Innermost DEF StackType
<1>2. calls' = [calls EXCEPT ![Len(calls)] = [calls[Len(calls)] EXCEPT !.stage = s]]
  BY <1>1 DEF SetStage
<1>3. [calls[Len(calls)] EXCEPT !.stage = s] \in ActiveCall
      /\ [calls[Len(calls)] EXCEPT !.stage = s].at = calls[Len(calls)].at
  BY <1>1 DEF ActiveCall
<1>4. calls' \in Seq(ActiveCall)
  BY <1>1, <1>2, <1>3
<1>5. \A k \in DOMAIN calls' : calls'[k].at >= 1
  BY <1>1, <1>2, <1>3 DEF StackType
<1>. QED  BY <1>4, <1>5 DEF StackType

-----------------------------------------------------------------------------
\* The section read next.
LEMMA SectionType ==
  ASSUME TypeInv, Len(images) < Len(cfg)
  PROVE  /\ cfg[Len(images) + 1].file \in Files
         /\ cfg[Len(images) + 1].flash \in Flashes \cup {NoFlash}
<1>1. cfg \in Seq(Section) /\ Len(images) \in Nat
  BY TypeParts, SMTT(30) DEF CfgType, ListType
<1>2. Len(images) + 1 \in DOMAIN cfg
  BY <1>1
<1>3. cfg[Len(images) + 1] \in Section
  BY <1>1, <1>2
<1>. QED  BY <1>3 DEF Section

\* Every step keeps the types.
LEMMA TypeStep == TypeInv /\ [Next]_vars => TypeInv'
<1> SUFFICES ASSUME TypeInv, [Next]_vars PROVE TypeInv'
  OBVIOUS
<1> DEFINE Rest == CfgType' /\ ListType' /\ MarkType' /\ LoopType' /\ StackType' /\ OutType'
<1>0. ControlType /\ CfgType /\ ListType /\ MarkType /\ LoopType /\ StackType /\ OutType /\ TmpType
  BY TypeParts
<1>1. UNCHANGED <<cfg, graph, walk>> => Rest
  BY <1>0, TypesStay DEF graph, walk
<1>2. CASE ShowUsage \/ ConfigError
  BY <1>0, <1>1, <1>2, AbandonType, ExitType, TypesStay, TypePartsNext DEF ShowUsage, ConfigError, Returns
<1>3. CASE CheckTmpPath
  <2>1. Rest
    BY <1>1, <1>3 DEF CheckTmpPath
  <2>2. TmpType'
    BY <1>0, <1>3 DEF CheckTmpPath, TmpType, tmpdir
  <2>3. ControlType'
    <3>1. CASE phase' = "parse" /\ ret' = ret
      BY <1>0, <3>1 DEF ControlType, Phases
    <3>. QED  BY <1>3, <3>1, ExitType DEF CheckTmpPath
  <2>. QED  BY <2>1, <2>2, <2>3, TypePartsNext
<1>4. CASE ParseImage
  <2>1. CfgType' /\ MarkType' /\ LoopType' /\ StackType' /\ OutType' /\ TmpType'
    BY <1>0, <1>4, TypesStay DEF ParseImage, walk
  <2>2. ControlType'
    BY <1>0, <1>4, AbandonType, ExitType, TypesStay DEF ParseImage, Returns
  <2>3. ListType'
    BY <1>0, <1>4, SectionType DEF ParseImage, ListType
  <2>. QED  BY <2>1, <2>2, <2>3, TypePartsNext
<1>5. CASE SectionsParsed
  <2>1. ControlType'
    BY <1>0, <1>5 DEF SectionsParsed, ControlType, Phases
  <2>. QED  BY <1>0, <1>1, <1>5, <2>1, TypesStay, TypePartsNext DEF SectionsParsed
<1>6. CASE ImplicitImages
  <2>1. CfgType' /\ MarkType' /\ StackType' /\ OutType' /\ TmpType'
    BY <1>0, <1>6, TypesStay DEF ImplicitImages
  <2>2. ControlType'
    BY <1>0, <1>6, AbandonType, TypesStay DEF ImplicitImages, Returns
  <2>3. LoopType'
    <3>1. NextPart \/ UNCHANGED <<top, part>>
      BY <1>6 DEF ImplicitImages
    <3>. QED  BY <1>0, <3>1 DEF LoopType, NextPart
  <2>4. ListType'
    <3>1. This.image \in Files \cup {NoFile}
      BY <1>6, InnerPart DEF ImplicitImages
    <3>2. CASE UNCHANGED <<images, holes>>
      BY <1>0, <1>6, <3>2, TypesStay DEF ImplicitImages
    <3>3. CASE /\ This.image \notin Range(images) \cup {NoFile}
               /\ images' = Append(images, This.image)
               /\ holes' = IF This.holes THEN holes \cup {This.image} ELSE holes
      <4>1. This.image \in Files
        BY <3>1, <3>3
      <4>2. images' \in Seq(Files)
        BY <1>0, <3>3, <4>1 DEF ListType
      <4>3. holes' \subseteq Files
        BY <1>0, <3>3, <4>1 DEF ListType
      <4>4. flash' = flash
        BY <1>6 DEF ImplicitImages
      <4>. QED  BY <1>0, <4>2, <4>3, <4>4 DEF ListType
    <3>. QED  BY <1>6, <3>2, <3>3 DEF ImplicitImages
  <2>. QED  BY <2>1, <2>2, <2>3, <2>4, TypePartsNext
<1>7. CASE SetFlashTypes
  <2>1. CfgType' /\ MarkType' /\ StackType' /\ OutType' /\ TmpType'
    BY <1>0, <1>7, TypesStay DEF SetFlashTypes
  <2>2. ControlType'
    BY <1>0, <1>7, AbandonType, TypesStay DEF SetFlashTypes, Returns
  <2>3. LoopType'
    <3>1. NextPart \/ NextImage \/ UNCHANGED <<top, part>>
      BY <1>7 DEF SetFlashTypes
    <3>. QED  BY <1>0, <3>1 DEF LoopType, NextPart, NextImage
  <2>4. ListType'
    <3>1. images[top] \in Files
      BY <1>7, InnerPart DEF SetFlashTypes
    <3>. QED  BY <1>0, <1>7, <3>1 DEF SetFlashTypes, ListType
  <2>. QED  BY <2>1, <2>2, <2>3, <2>4, TypePartsNext
<1>8. CASE PartsDone
  <2>1. LoopType'
    BY <1>0, <1>8 DEF PartsDone, LoopType, NextImage
  <2>. QED  BY <1>0, <1>8, <2>1, TypesStay, TypePartsNext DEF PartsDone, graph
<1>9. CASE ListDone
  <2>1. LoopType'
    BY <1>0, <1>9 DEF ListDone, LoopType
  <2>2. ControlType'
    BY <1>0, <1>9 DEF ListDone, ControlType, Phases
  <2>. QED  BY <1>0, <1>9, <2>1, <2>2, TypesStay, TypePartsNext DEF ListDone, graph
<1>10. CASE CollectMountpoints
  <2>1. ControlType'
    <3>1. CASE phase' = "setup" /\ ret' = ret
      BY <1>0, <3>1 DEF ControlType, Phases
    <3>. QED  BY <1>10, <3>1, AbandonType DEF CollectMountpoints, Returns
  <2>2. TmpType'
    BY <1>0, <1>10 DEF CollectMountpoints, TmpType
  <2>. QED  BY <1>1, <1>10, <2>1, <2>2, TypePartsNext DEF CollectMountpoints
<1>11. CASE SetupCall \/ GenerateCall
  BY <1>11, DescendTypes DEF SetupCall, GenerateCall
<1>12. ASSUME NEW r \in Returns, Fails(r), outputs' \subseteq Files
       PROVE  TypeInv'
  <2>1. OutType'
    BY <1>0, <1>12 DEF Fails, OutType
  <2>2. ControlType'
    BY <1>12, AbandonType DEF Fails
  <2>. QED  BY <1>0, <1>12, <2>1, <2>2, TypesStay, TypePartsNext DEF Fails, graph
<1>13. CASE SetupHandler
  <2>1. CASE Finished(-1) /\ UNCHANGED <<cfg, control, images, seen, flash, holes, part, outputs, made, tmpdir>>
    <3>1. MarkType' /\ LoopType' /\ StackType'
      BY <1>0, <1>13, <2>1, FinishTypes DEF SetupHandler, ChildrenDone
    <3>. QED  BY <1>0, <2>1, <3>1, TypesStay, TypePartsNext
  <2>2. CASE Fails("setup") /\ UNCHANGED outputs
    BY <1>0, <1>12, <2>2 DEF Returns, OutType
  <2>. QED  BY <1>13, <2>1, <2>2 DEF SetupHandler
<1>14. CASE PreparePaths
  <2>1. ControlType'
    <3>1. CASE phase' = "generate" /\ ret' = ret
      BY <1>0, <3>1 DEF ControlType, Phases
    <3>. QED  BY <1>14, <3>1, AbandonType DEF PreparePaths, Returns
  <2>2. LoopType'
    BY <1>0, <1>14 DEF PreparePaths, LoopType
  <2>. QED  BY <1>0, <1>14, <2>1, <2>2, TypesStay, TypePartsNext DEF PreparePaths, graph
<1>15. CASE SetenvError
  BY <1>0, <1>1, <1>15, AbandonType, TypesStay, TypePartsNext DEF SetenvError, Returns
<1>16. CASE ExecPre
  <2>1. CASE SetStage("ready") /\ UNCHANGED <<cfg, control, graph, top, part, outputs, made, tmpdir>>
    <3>1. StackType'
      BY <1>0, <1>16, <2>1, StageType DEF ExecPre, ChildrenDone
    <3>. QED  BY <1>0, <2>1, <3>1, TypesStay, TypePartsNext DEF graph
  <2>2. CASE Fails("exec-pre") /\ UNCHANGED outputs
    BY <1>0, <1>12, <2>2 DEF Returns, OutType
  <2>. QED  BY <1>16, <2>1, <2>2 DEF ExecPre
<1>17. CASE GenerateHandler
  <2>1. calls # << >> /\ Current.image \in Files
    BY <1>0, <1>17, Innermost DEF GenerateHandler, ChildrenDone
  <2>2. CASE Fails("generate") /\ outputs' = outputs \ {Current.image}
    BY <1>0, <1>12, <2>2 DEF Returns, OutType
  <2>3. CASE /\ outputs' \in {outputs \cup (IF Current.image \in Declared THEN {Current.image} ELSE {}), outputs}
             /\ made' = Append(made, Current.image)
             /\ IF HasPost(Current.image) THEN SetStage("made") /\ UNCHANGED <<done, top>> ELSE Finished(1)
             /\ UNCHANGED <<cfg, control, images, seen, flash, holes, part, tmpdir>>
    <3>1. OutType'
      BY <1>0, <2>1, <2>3 DEF OutType
    <3>2. CASE SetStage("made") /\ UNCHANGED <<done, top>>
      <4>1. StackType'
        BY <1>0, <2>1, <3>2, StageType
      <4>. QED  BY <1>0, <2>3, <3>1, <3>2, <4>1, TypesStay, TypePartsNext
    <3>3. CASE Finished(1)
      <4>1. MarkType' /\ LoopType' /\ StackType'
        BY <1>0, <2>1, <2>3, <3>3, FinishTypes
      <4>. QED  BY <1>0, <2>3, <3>1, <3>3, <4>1, TypesStay, TypePartsNext
    <3>. QED  BY <2>3, <3>2, <3>3
  <2>. QED  BY <1>17, <2>2, <2>3 DEF GenerateHandler
<1>18. CASE ExecPost
  <2>1. CASE Finished(1) /\ UNCHANGED <<cfg, control, images, seen, flash, holes, part, outputs, made, tmpdir>>
    <3>1. MarkType' /\ LoopType' /\ StackType'
      BY <1>0, <1>18, <2>1, FinishTypes DEF ExecPost, ChildrenDone
    <3>. QED  BY <1>0, <2>1, <3>1, TypesStay, TypePartsNext
  <2>2. CASE Fails("exec-post") /\ UNCHANGED outputs
    BY <1>0, <1>12, <2>2 DEF Returns, OutType
  <2>. QED  BY <1>18, <2>1, <2>2 DEF ExecPost
<1>19. CASE AllGenerated
  <2>1. ControlType'
    BY <1>0, <1>19 DEF AllGenerated, ControlType, Phases
  <2>. QED  BY <1>0, <1>1, <1>19, <2>1, TypesStay, TypePartsNext DEF AllGenerated
<1>20. CASE Cleanup
  <2>1. ControlType'
    BY <1>0, <1>20 DEF Cleanup, ControlType, Phases
  <2>2. TmpType'
    BY <1>0, <1>20 DEF Cleanup, TmpType
  <2>. QED  BY <1>1, <1>20, <2>1, <2>2, TypePartsNext DEF Cleanup
<1>21. CASE UNCHANGED vars
  BY <1>0, <1>1, <1>21, TypesStay, TypePartsNext DEF vars
<1>. QED  BY <1>2, <1>3, <1>4, <1>5, <1>6, <1>7, <1>8, <1>9, <1>10, <1>11, <1>13, <1>14, <1>15,
             <1>16, <1>17, <1>18, <1>19, <1>20, <1>21 DEF Next, Step, Over

\* In every execution, whatever the configuration: marks, list, stack and loop
\* positions are what image_setup and image_generate take them for.
THEOREM GenimageTypes == Spec => []TypeOK
<1>1. TypeInv => TypeOK
  BY DEF TypeInv
<1>. QED  BY <1>1, InitTypes, TypeStep, PTL DEF Spec

-----------------------------------------------------------------------------
(***************************************************************************)
(* The list of images.                                                     *)
(***************************************************************************)
\* No step changes the configuration.  Before the walks a step leaves the marks,
\* the stack and what was made alone; from then on it leaves the list alone.
EarlySteps ==
  ShowUsage \/ ConfigError \/ CheckTmpPath \/ ParseImage \/ SectionsParsed \/ ImplicitImages
  \/ SetFlashTypes \/ PartsDone \/ ListDone \/ CollectMountpoints

LateSteps ==
  \/ SetupCall \/ SetupHandler \/ PreparePaths \/ GenerateCall \/ SetenvError
  \/ ExecPre \/ GenerateHandler \/ ExecPost \/ AllGenerated \/ Cleanup

\* Every step is early, late, or none.
LEMMA StepKinds == [Next]_vars <=> EarlySteps \/ LateSteps \/ UNCHANGED vars
BY DEF Next, Step, Over, EarlySteps, LateSteps

\* A step before the walks leaves the marks, the stack and what was made alone.
LEMMA EarlyStep ==
  ASSUME EarlySteps
  PROVE  /\ cfg' = cfg /\ UNCHANGED <<done, seen, calls, outputs, made>>
         /\ Early /\ phase' \in EarlyPhases \cup {"setup", "cleanup", "over"}
         /\ phase' = "setup" => phase = "mount" /\ UNCHANGED <<images, top>>
<1>1. CASE ShowUsage \/ ConfigError \/ CheckTmpPath
  BY <1>1 DEF ShowUsage, ConfigError, CheckTmpPath, graph, walk, Early, EarlyPhases, Abandon, Exit
<1>2. CASE ParseImage
  BY <1>2 DEF ParseImage, walk, control, Early, EarlyPhases, Abandon, Exit
<1>3. CASE SectionsParsed
  BY <1>3 DEF SectionsParsed, graph, walk, Early, EarlyPhases
<1>4. CASE ImplicitImages
  BY <1>4 DEF ImplicitImages, control, Early, EarlyPhases, Abandon
<1>5. CASE SetFlashTypes
  <2>1. phase = "flash" /\ cfg' = cfg /\ UNCHANGED <<done, seen, calls, outputs, made>>
    BY <1>5 DEF SetFlashTypes
  <2>2. phase' = phase \/ phase' = "cleanup"
    BY <1>5 DEF SetFlashTypes, Abandon, control
  <2>. QED  BY <2>1, <2>2 DEF Early, EarlyPhases
<1>6. CASE PartsDone
  BY <1>6 DEF PartsDone, graph, control, Early, EarlyPhases
<1>7. CASE ListDone
  BY <1>7 DEF ListDone, graph, Early, EarlyPhases
<1>8. CASE CollectMountpoints
  BY <1>8 DEF CollectMountpoints, graph, walk, Early, EarlyPhases, Abandon
<1>. QED  BY <1>1, <1>2, <1>3, <1>4, <1>5, <1>6, <1>7, <1>8 DEF EarlySteps

\* A call goes on or reports a recursion.
LEMMA CallControl ==
  ASSUME NEW f, NEW m, Call(f, m)
  PROVE  \/ UNCHANGED control \/ Abandon("recursive")
BY DEF Call

\* And so does the walk.
LEMMA DescendControl ==
  ASSUME NEW m, Descend(m)
  PROVE  \/ UNCHANGED control \/ Abandon("recursive")
BY CallControl DEF Descend

\* From the first walk on the list stays, and the phases come in their order.
LEMMA LateStep ==
  ASSUME LateSteps
  PROVE  /\ cfg' = cfg /\ images' = images
         /\ phase \in {"setup", "generate", "cleanup"}
         /\ phase' \in {"setup", "generate", "cleanup", "over"}
         /\ phase' = "setup" => phase = "setup"
         /\ phase' = "generate" => phase \in {"setup", "generate"}
<1>1. CASE SetupCall
  <2>1. phase = "setup" /\ Descend(-1)
    BY <1>1 DEF SetupCall
  <2>2. phase' = phase \/ phase' = "cleanup"
    BY <2>1, DescendControl DEF control, Abandon
  <2>. QED  BY <2>1, <2>2 DEF Descend
<1>2. CASE GenerateCall
  <2>1. phase = "generate" /\ Descend(1)
    BY <1>2 DEF GenerateCall
  <2>2. phase' = phase \/ phase' = "cleanup"
    BY <2>1, DescendControl DEF control, Abandon
  <2>. QED  BY <2>1, <2>2 DEF Descend
<1>3. CASE SetupHandler
  BY <1>3 DEF SetupHandler, Fails, Abandon, control, graph
<1>4. CASE PreparePaths
  BY <1>4 DEF PreparePaths, Abandon, graph
<1>5. CASE SetenvError
  BY <1>5 DEF SetenvError, Abandon, graph
<1>6. CASE ExecPre
  BY <1>6 DEF ExecPre, Fails, Abandon, control, graph
<1>7. CASE GenerateHandler
  BY <1>7 DEF GenerateHandler, Fails, Abandon, control, graph
<1>8. CASE ExecPost
  BY <1>8 DEF ExecPost, Fails, Abandon, control, graph
<1>9. CASE AllGenerated
  BY <1>9 DEF AllGenerated, graph
<1>10. CASE Cleanup
  BY <1>10 DEF Cleanup, graph
<1>. QED  BY <1>1, <1>2, <1>3, <1>4, <1>5, <1>6, <1>7, <1>8, <1>9, <1>10 DEF LateSteps

\* No step changes the configuration.
LEMMA CfgStays == [Next]_vars => cfg' = cfg
BY StepKinds, EarlyStep, LateStep DEF vars

\* What is in the list stays in it.
LEMMA InListStays ==
  ASSUME cfg' = cfg, Range(images) \subseteq Range(images')
  PROVE  /\ \A f, n : InList(f, n) => InList(f, n)'
         /\ \A f : AllInList(f) => AllInList(f)'
BY GraphStays DEF InList, AllInList

\* What a longer list holds.
LEMMA AppendRange ==
  ASSUME NEW s \in Seq(Files), NEW f \in Files
  PROVE  /\ Append(s, f) \in Seq(Files) /\ Len(Append(s, f)) = Len(s) + 1
         /\ \A i \in DOMAIN s : i \in DOMAIN Append(s, f) /\ Append(s, f)[i] = s[i]
         /\ Range(Append(s, f)) = Range(s) \cup {f}
<1>1. PICK n \in Nat : n = Len(s)
  OBVIOUS
<1>2. PICK t \in Seq(Files) : t = Append(s, f)
  BY AppendProperties
<1>3. /\ Len(t) = n + 1 /\ DOMAIN s = 1 .. n /\ DOMAIN t = 1 .. n + 1
      /\ t[n + 1] = f /\ \A i \in 1 .. n : t[i] = s[i]
  BY <1>1, <1>2
<1>4. \A i \in 1 .. n + 1 : i \in 1 .. n \/ i = n + 1
  OBVIOUS
<1>5. \A i \in 1 .. n : i \in 1 .. n + 1
  OBVIOUS
<1>6. n + 1 \in 1 .. n + 1
  OBVIOUS
<1>7. Range(t) = Range(s) \cup {f}
  BY <1>3, <1>4, <1>5, <1>6, Zenon DEF Range
<1>. QED  BY <1>1, <1>2, <1>3, <1>5, <1>7

\* An empty list contains what its images contain.
LEMMA InitList == Init => ListInv
BY DEF Init, ListInv

\* Every step keeps the list as ListInv says.
LEMMA ListStep == TypeInv /\ ListInv /\ [Next]_vars => ListInv'
<1> SUFFICES ASSUME TypeInv, ListInv, [Next]_vars PROVE ListInv'
  OBVIOUS
<1>0. cfg' = cfg /\ images \in Seq(Files) /\ top \in Nat /\ top >= 1 /\ part \in Nat /\ part >= 1
  BY CfgStays DEF TypeInv, TypeOK
<1>1. images' \in Seq(Files) /\ DOMAIN images = 1 .. Len(images) /\ DOMAIN images' = 1 .. Len(images')
  <2>1. images' \in Seq(Files)
    BY TypeStep DEF TypeInv, TypeOK
  <2>. QED  BY <1>0, <2>1
<1>2. \A f \in Range(images) : \E i \in DOMAIN images : images[i] = f
  BY DEF Range
<1>3. \A f : PartsOf(f)' = PartsOf(f) /\ PartsOf(f) \in Seq(Part)
  BY <1>0, GraphStays, PartsType DEF TypeInv, TypeOK
<1>4. \A f : DOMAIN PartsOf(f) = 1 .. Len(PartsOf(f)) /\ Len(PartsOf(f)) \in Nat
  BY <1>3
<1>5. ASSUME UNCHANGED images, \A f \in Range(images) : AllInList(f), phase' # "implicit",
             phase' \notin {"config", "parse"}, phase' = "mount" => top' = 1
      PROVE  ListInv'
  BY <1>0, <1>5, InListStays DEF ListInv
<1>6. ASSUME phase' \in {"cleanup", "over"} PROVE ListInv'
  BY <1>6 DEF ListInv
<1>7. CASE phase \in {"config", "parse"} /\ EarlySteps
  <2>1. top = 1 /\ part = 1
    BY <1>7 DEF ListInv
  <2>2. top' = 1 /\ part' = 1 /\ phase' \in {"parse", "implicit", "cleanup", "over"}
    <3>1. CASE ShowUsage \/ ConfigError \/ CheckTmpPath
      BY <2>1, <3>1 DEF ShowUsage, ConfigError, CheckTmpPath, walk, Abandon, Exit
    <3>2. CASE ParseImage
      BY <2>1, <3>2 DEF ParseImage, walk, control, Abandon, Exit
    <3>3. CASE SectionsParsed
      BY <2>1, <3>3 DEF SectionsParsed, walk
    <3>. QED  BY <1>7, <3>1, <3>2, <3>3 DEF EarlySteps, ImplicitImages, SetFlashTypes, PartsDone, ListDone,
                 CollectMountpoints
  <2>3. \A f \in Files : ~ Passed(f)'
    BY <1>1, <2>2 DEF Passed
  <2>4. \A f \in Files : \A n \in DOMAIN PartsOf(f)' : ~ (n < part')
    BY <1>3, <1>4, <2>2
  <2>. QED  BY <2>2, <2>3, <2>4 DEF ListInv
<1>8. CASE ImplicitImages
  <2>1. phase = "implicit" /\ Inner
    BY <1>8 DEF ImplicitImages
  <2>2. /\ top \in DOMAIN images /\ part \in DOMAIN PartsOf(images[top])
        /\ This.image \in Files \cup {NoFile}
    BY <2>1, InnerPart
  <2>3. CASE phase' = "cleanup"
    BY <1>6, <2>3
  <2>4. CASE phase' = "implicit" /\ NextPart
    <3>1. /\ Range(images) \subseteq Range(images') /\ This.image \in Range(images') \cup {NoFile}
          /\ \A i \in DOMAIN images : i \in DOMAIN images' /\ images'[i] = images[i]
      <4>1. CASE images' = images
        BY <1>8, <2>4, <4>1 DEF ImplicitImages, Abandon
      <4>2. CASE This.image \notin Range(images) \cup {NoFile} /\ images' = Append(images, This.image)
        BY <1>0, <2>2, <4>2, AppendRange
      <4>. QED  BY <1>8, <4>1, <4>2 DEF ImplicitImages
    <3>2. /\ \A f, n : InList(f, n) => InList(f, n)'
          /\ \A f : AllInList(f) => AllInList(f)'
      BY <1>0, <3>1, InListStays
    <3>3. top' = top /\ part' = part + 1
      BY <2>4 DEF NextPart
    <3>4. \A f \in Files : (Passed(f)' => Passed(f)) /\ (AtImage(f)' => AtImage(f))
      BY <1>0, <1>1, <2>2, <3>1, <3>3 DEF Passed, AtImage
    <3>5. ASSUME NEW f \in Files, AtImage(f)' PROVE \A n \in DOMAIN PartsOf(f)' : n < part' => InList(f, n)'
      <4>1. AtImage(f) /\ f = images[top]
        BY <3>4, <3>5 DEF AtImage
      <4>0. PICK p \in Nat : p = part
        BY <1>0
      <4>2. InList(f, p)'
        <5>1. PartsOf(f)[p].image = This.image
          BY <4>0, <4>1 DEF This
        <5>. QED  BY <1>3, <3>1, <5>1 DEF InList
      <4>3. \A n \in DOMAIN PartsOf(f) : n < part => InList(f, n)
        BY <2>1, <4>1 DEF ListInv
      <4>4. \A n \in DOMAIN PartsOf(f) : n < part' => n < part \/ n = p
        BY <1>0, <1>4, <3>3, <4>0
      <4>. QED  BY <1>3, <3>2, <4>2, <4>3, <4>4
    <3>6. \A f \in Files : Passed(f)' => AllInList(f)'
      BY <2>1, <3>2, <3>4 DEF ListInv
    <3>. QED  BY <2>4, <3>5, <3>6 DEF ListInv
  <2>. QED  BY <1>8, <2>1, <2>3, <2>4 DEF ImplicitImages, Abandon, control
<1>9. CASE PartsDone
  <2>1. /\ phase' = phase /\ phase \in {"implicit", "flash"} /\ images' = images
        /\ top' = top + 1 /\ part' = 1 /\ top <= Len(images) /\ ~Inner
    BY <1>9 DEF PartsDone, NextImage, graph, control
  <2>2. CASE phase = "flash"
    BY <1>5, <2>1, <2>2 DEF ListInv
  <2>3. CASE phase = "implicit"
    <3>1. \A f : AllInList(f) => AllInList(f)'
      BY <1>0, <2>1, InListStays
    <3>2. ASSUME NEW f \in Files, Passed(f)' PROVE AllInList(f)
      <4>1. PICK i \in DOMAIN images : i < top + 1 /\ images[i] = f
        BY <2>1, <3>2 DEF Passed
      <4>2. CASE i < top
        BY <2>3, <4>1, <4>2 DEF Passed, ListInv
      <4>3. CASE i = top
        <5>1. AtImage(f) /\ ~ (part <= Len(PartsOf(f)))
          BY <2>1, <4>1, <4>3 DEF AtImage, Inner
        <5>2. \A n \in DOMAIN PartsOf(f) : n < part
          BY <1>0, <1>4, <5>1
        <5>. QED  BY <2>3, <5>1, <5>2 DEF ListInv, AllInList
      <4>4. i < top \/ i = top
        BY <1>0, <1>1, <4>1
      <4>. QED  BY <4>2, <4>3, <4>4
    <3>3. \A f \in Files : \A n \in DOMAIN PartsOf(f)' : ~ (n < part')
      BY <1>3, <1>4, <2>1
    <3>4. phase' = "implicit"
      BY <2>1, <2>3
    <3>. QED  BY <3>1, <3>2, <3>3, <3>4 DEF ListInv
  <2>. QED  BY <2>1, <2>2, <2>3
<1>10. CASE ListDone
  <2>1. /\ phase \in {"implicit", "flash"} /\ images' = images /\ top > Len(images) /\ top' = 1
        /\ phase' \in {"flash", "mount"}
    BY <1>10 DEF ListDone, graph
  <2>2. \A f \in Range(images) : AllInList(f)
    <3>1. CASE phase = "implicit"
      <4>1. \A i \in DOMAIN images : i < top
        BY <1>0, <1>1, <2>1
      <4>2. \A f \in Range(images) : Passed(f) /\ f \in Files
        BY <1>0, <1>2, <4>1 DEF Passed
      <4>. QED  BY <3>1, <4>2 DEF ListInv
    <3>. QED  BY <2>1, <3>1 DEF ListInv
  <2>. QED  BY <1>5, <2>1, <2>2
<1>11. CASE SetFlashTypes
  BY <1>5, <1>6, <1>11 DEF SetFlashTypes, control, Abandon, ListInv
<1>12. CASE CollectMountpoints
  BY <1>5, <1>6, <1>12 DEF CollectMountpoints, Abandon, graph, ListInv
<1>13. CASE LateSteps
  <2>1. images' = images /\ phase' \in {"setup", "generate", "cleanup", "over"}
        /\ phase \in {"setup", "generate", "cleanup"}
    BY <1>13, LateStep
  <2>2. phase' \in {"setup", "generate"} => phase \in {"setup", "generate"}
    BY <1>13, LateStep
  <2>. QED  BY <1>5, <1>6, <2>1, <2>2 DEF ListInv
<1>14. CASE UNCHANGED vars
  <2>1. UNCHANGED <<images, phase, top, part>>
    BY <1>14 DEF vars, graph, control, walk
  <2>2. /\ \A f, n : InList(f, n) => InList(f, n)'
        /\ \A f : AllInList(f) => AllInList(f)'
    BY <1>0, <2>1, InListStays
  <2>3. \A f \in Files : (Passed(f)' <=> Passed(f)) /\ (AtImage(f)' <=> AtImage(f))
    BY <2>1 DEF Passed, AtImage
  <2>. QED  BY <1>3, <2>1, <2>2, <2>3 DEF ListInv
<1>15. EarlySteps => phase \in {"config", "parse"} \/ ImplicitImages \/ PartsDone \/ ListDone
                     \/ SetFlashTypes \/ CollectMountpoints
  BY DEF EarlySteps, ShowUsage, ConfigError, CheckTmpPath, ParseImage, SectionsParsed
<1>. QED  BY <1>7, <1>8, <1>9, <1>10, <1>11, <1>12, <1>13, <1>14, <1>15, StepKinds

-----------------------------------------------------------------------------
(***************************************************************************)
(* The walk.                                                               *)
(***************************************************************************)
\* After a return n calls are left: the innermost is at its next partition, or
\* the loop over the list at its next image.
Returned(n) ==
  /\ calls' \in Seq(ActiveCall) /\ Len(calls') = n
  /\ \A k \in 1 .. n - 1 : calls'[k] = calls[k]
  /\ n > 0 => Moved(calls[n], calls'[n]) /\ top' = top
  /\ n = 0 => top' = top + 1

\* Both returns are of this shape.
LEMMA ReturnShape ==
  ASSUME StackType,
         \/ ReturnTo(calls)
         \/ calls # << >> /\ ReturnTo(Front(calls))
  PROVE  \/ ReturnTo(calls) /\ Returned(Len(calls))
         \/ calls # << >> /\ ReturnTo(Front(calls)) /\ Returned(Len(calls) - 1)
<1>1. ASSUME NEW s \in Seq(ActiveCall), ReturnTo(s) , Len(s) <= Len(calls),
             \A k \in 1 .. Len(s) : s[k] = calls[k]
      PROVE  Returned(Len(s))
  <2>1. CASE s = << >>
    BY <1>1, <2>1 DEF ReturnTo, Returned
  <2>2. CASE s # << >>
    <3>1. calls' = [s EXCEPT ![Len(s)].at = @ + 1] /\ top' = top /\ Len(s) \in Nat /\ Len(s) > 0
      BY <1>1, <2>2 DEF ReturnTo
    <3>2. /\ calls' \in Seq(ActiveCall) /\ Len(calls') = Len(s)
          /\ Moved(s[Len(s)], calls'[Len(s)])
          /\ \A k \in 1 .. Len(s) - 1 : calls'[k] = s[k]
      BY <2>2, <3>1, CallerMoves
    <3>. QED  BY <1>1, <3>1, <3>2 DEF Returned
  <2>. QED  BY <2>1, <2>2
<1>2. CASE ReturnTo(calls)
  BY <1>1, <1>2 DEF StackType
<1>3. CASE calls # << >> /\ ReturnTo(Front(calls))
  <2>1. /\ Front(calls) \in Seq(ActiveCall) /\ Len(Front(calls)) = Len(calls) - 1
        /\ \A k \in 1 .. Len(calls) - 1 : Front(calls)[k] = calls[k]
    BY <1>3, Innermost
  <2>2. Len(calls) \in Nat /\ Len(calls) - 1 <= Len(calls)
    BY DEF StackType
  <2>3. Returned(Len(Front(calls)))
    BY <1>1, <1>3, <2>1, <2>2
  <2>. QED  BY <1>3, <2>1, <2>3
<1>. QED  BY <1>2, <1>3

\* A return keeps the invariant, if what the caller waited for is done, and so is
\* the image of a call that has ended.
Awaited(n) ==
  /\ n > 0 => \A f \in Files : calls[n].image = f =>
       /\ calls[n].at \in DOMAIN PartsOf(f)
       /\ \A g \in Files : PartsOf(f)[calls[n].at].image = g => done'[g] = Mark
  /\ n = 0 => top \in DOMAIN images /\ done'[images[top]] = Mark

EndedAt(n) ==
  /\ \A f \in Files : done[f] = Mark => done'[f] = Mark
  /\ \A f \in Files : done'[f] = Mark /\ done[f] # Mark =>
       n < Len(calls) /\ calls[Len(calls)].image = f
  /\ n < Len(calls) => n = Len(calls) - 1 /\ done'[calls[Len(calls)].image] = Mark

\* Under these conditions a return keeps the invariant.
LEMMA ReturnWalk ==
  ASSUME TypeInv, WalkInv, Walking, UNCHANGED <<cfg, phase, images, seen>>,
         Range(made) \subseteq Range(made'),
         NEW n \in 0 .. Len(calls), Returned(n), Awaited(n), EndedAt(n)
  PROVE  WalkInv'
<1>0. calls \in Seq(ActiveCall) /\ top \in Nat /\ images \in Seq(Files)
  BY TypeParts DEF StackType, LoopType, ListType
<1>1. /\ DOMAIN calls = 1 .. Len(calls) /\ Len(calls) \in Nat /\ n \in Nat
      /\ calls' \in Seq(ActiveCall) /\ DOMAIN calls' = 1 .. n /\ Len(calls') = n
  BY <1>0 DEF Returned
<1>14. PICK L \in Nat : L = Len(calls) /\ n <= L
  <2>1. Len(calls) \in Nat /\ n \in 0 .. Len(calls)
    BY <1>1
  <2>. QED  BY <2>1
<1>2. \A k \in 1 .. Len(calls) : calls[k].image \in Files /\ calls[k].at \in Nat
  <2>1. \A k \in 1 .. Len(calls) : calls[k] \in ActiveCall
    BY <1>0
  <2>. QED  BY <2>1 DEF ActiveCall
<1>3. \A k \in 1 .. n : /\ k \in 1 .. Len(calls)
                        /\ calls'[k].image = calls[k].image /\ calls'[k].stage = calls[k].stage
                        /\ k < n => calls'[k].at = calls[k].at
                        /\ k = n => calls'[k].at = calls[k].at + 1
  BY <1>1 DEF Returned, Moved
<1>4. Mark' = Mark /\ \A f : PartsOf(f)' = PartsOf(f)
  BY GraphStays DEF Mark
<1>5. /\ calls # << >> => top <= Len(images) /\ calls[1].image = images[top]
      /\ \A k \in DOMAIN calls : \A f \in Files : calls[k].image = f => FrameInv(k, f)
      /\ \A k \in DOMAIN calls : \A f, g \in Files :
           k < Len(calls) /\ calls[k].image = f /\ calls[k + 1].image = g => Link(k, f, g)
      /\ \A j, k \in DOMAIN calls : calls[j].image = calls[k].image => j = k
      /\ \A f \in Files : seen[f] = Mark => done[f] = Mark \/ OnStack(f)
      /\ \A f \in Files : Passed(f) => done[f] = Mark
  BY DEF WalkInv
<1>6. calls' # << >> => top' <= Len(images') /\ calls'[1].image = images'[top']
  <2>1. ASSUME calls' # << >> PROVE n > 0 /\ calls # << >>
    BY <1>1, <2>1
  <2>2. ASSUME n > 0 PROVE top' = top /\ calls'[1].image = calls[1].image
    BY <1>1, <1>3, <2>2 DEF Returned
  <2>. QED  BY <1>5, <2>1, <2>2
<1>7. ASSUME NEW k \in 1 .. n, NEW f \in Files, calls[k].image = f
      PROVE  FrameInv(k, f)'
  <2>1. FrameInv(k, f) /\ k \in DOMAIN calls
    BY <1>1, <1>3, <1>5, <1>7
  <2>2. done'[f] # Mark
    <3>1. ASSUME done'[f] = Mark PROVE FALSE
      <4>1. n < Len(calls) /\ calls[Len(calls)].image = f
        BY <2>1, <3>1 DEF EndedAt, FrameInv
      <4>2. L \in 1 .. L /\ L # k
        <5>1. n < L /\ n \in Nat
          BY <1>1, <1>14, <4>1
        <5>. QED  BY <5>1
      <4>3. Len(calls) \in DOMAIN calls /\ Len(calls) # k
        BY <1>1, <1>14, <4>2, Zenon
      <4>. QED  BY <1>5, <1>7, <2>1, <4>1, <4>3
    <3>. QED  BY <3>1
  <2>3. ASSUME NEW j \in DOMAIN PartsOf(f), NEW g \in Files, j < calls'[k].at, PartsOf(f)[j].image = g
        PROVE  done'[g] = Mark
    <3>1. CASE j < calls[k].at
      BY <2>1, <2>3, <3>1 DEF FrameInv, Settled, EndedAt
    <3>2. CASE j = calls[k].at /\ k = n
      BY <1>1, <1>7, <2>3, <3>2 DEF Awaited
    <3>3. j \in Nat
      <4>1. PartsOf(f) \in Seq(Part)
        BY PartsType DEF TypeInv, TypeOK
      <4>. QED  BY <2>3, <4>1
    <3>. QED  BY <1>1, <1>2, <1>3, <2>3, <3>1, <3>2, <3>3
  <2>4. calls'[k].stage # "children" => calls'[k].at > Len(PartsOf(f))
    <3>1. CASE k < n
      BY <1>3, <2>1, <3>1 DEF FrameInv
    <3>2. CASE k = n
      <4>1. calls[k].at \in DOMAIN PartsOf(f)
        BY <1>1, <1>7, <3>2 DEF Awaited
      <4>2. PartsOf(f) \in Seq(Part)
        BY PartsType DEF TypeInv, TypeOK
      <4>3. ~ (calls[k].at > Len(PartsOf(f)))
        BY <4>1, <4>2
      <4>. QED  BY <1>3, <1>7, <2>1, <4>3 DEF FrameInv
    <3>. QED  BY <1>1, <3>1, <3>2
  <2>5. f \in Range(images) /\ seen[f] = Mark /\ (calls[k].stage = "made" => f \in Range(made))
    BY <2>1 DEF FrameInv
  <2>6. \A j \in DOMAIN PartsOf(f) : j < calls'[k].at => Settled(f, j)'
    BY <1>4, <2>3 DEF Settled
  <2>. QED  BY <1>3, <1>4, <2>2, <2>4, <2>5, <2>6 DEF FrameInv
<1>8. ASSUME NEW k \in 1 .. n, NEW f \in Files, NEW g \in Files,
             k < n, calls[k].image = f, calls[k + 1].image = g
      PROVE  Link(k, f, g)'
  <2>1. Link(k, f, g)
    <3>1. k < Len(calls) /\ k \in DOMAIN calls
      BY <1>1, <1>8
    <3>. QED  BY <1>5, <1>8, <3>1, Zenon
  <2>. QED  BY <1>3, <1>4, <1>8, <2>1 DEF Link
<1>9. \A j, k \in 1 .. n : calls'[j].image = calls'[k].image => j = k
  BY <1>1, <1>3, <1>5
<1>10. ASSUME NEW f \in Files, seen'[f] = Mark, done'[f] # Mark PROVE OnStack(f)'
  <2>1. OnStack(f)
    BY <1>5, <1>10 DEF EndedAt
  <2>2. PICK k \in 1 .. Len(calls) : calls[k].image = f
    BY <1>1, <2>1 DEF OnStack
  <2>3. k \in 1 .. n
    <3>1. ASSUME n < L PROVE n = L - 1 /\ k # L
      BY <1>10, <1>14, <2>2, <3>1 DEF EndedAt
    <3>2. k \in 1 .. L
      BY <1>14, <2>2
    <3>. QED  BY <1>14, <3>1, <3>2
  <2>. QED  BY <1>1, <1>3, <2>2, <2>3 DEF OnStack
<1>11. ASSUME NEW f \in Files, Passed(f)' PROVE done'[f] = Mark
  <2>1. PICK i \in DOMAIN images : i < top' /\ images[i] = f
    BY <1>11 DEF Passed
  <2>2. CASE i < top
    <3>1. done[f] = Mark
      BY <1>5, <2>1, <2>2 DEF Passed
    <3>. QED  BY <3>1 DEF EndedAt
  <2>3. CASE ~ (i < top)
    <3>1. n = 0 /\ top' = top + 1
      BY <1>1, <2>1, <2>3 DEF Returned
    <3>2. i = top
      BY <1>0, <2>1, <2>3, <3>1
    <3>. QED  BY <2>1, <3>1, <3>2 DEF Awaited
  <2>. QED  BY <2>2, <2>3
<1>12. \A k \in 1 .. n : \A f \in Files : calls'[k].image = f => FrameInv(k, f)'
  BY <1>3, <1>7
<1>13. \A k \in 1 .. n : \A f, g \in Files :
         k < n /\ calls'[k].image = f /\ calls'[k + 1].image = g => Link(k, f, g)'
  BY <1>1, <1>3, <1>8
<1>. QED  BY <1>1, <1>4, <1>6, <1>9, <1>10, <1>11, <1>12, <1>13 DEF WalkInv

\* A call keeps it, of an image that is neither done nor on the stack.
LEMMA PushWalk ==
  ASSUME TypeInv, WalkInv, Walking, UNCHANGED <<cfg, phase, images, done, top, made>>,
         NEW f \in Files, f \in Range(images), done[f] # Mark, seen[f] # Mark,
         seen' = [seen EXCEPT ![f] = Mark], calls' = Append(calls, Frame(f)),
         calls = << >> => top <= Len(images) /\ images[top] = f,
         calls # << >> => Link(Len(calls), Current.image, f)
  PROVE  WalkInv'
<1>0. calls \in Seq(ActiveCall) /\ seen \in [Files -> -1 .. 1]
  BY TypeParts DEF StackType, MarkType
<1>1. PICK n \in Nat : n = Len(calls)
  BY <1>0
<1>2. Frame(f) \in ActiveCall /\ Frame(f).image = f /\ Frame(f).at = 1 /\ Frame(f).stage = "children"
  BY DEF Frame, ActiveCall
<1>3. /\ DOMAIN calls = 1 .. n /\ DOMAIN calls' = 1 .. n + 1 /\ Len(calls') = n + 1
      /\ calls'[n + 1] = Frame(f) /\ \A k \in 1 .. n : calls'[k] = calls[k]
  BY <1>0, <1>1, <1>2
<1>4. Mark' = Mark /\ \A g : PartsOf(g)' = PartsOf(g)
  BY GraphStays DEF Mark
<1>5. /\ calls # << >> => top <= Len(images) /\ calls[1].image = images[top]
      /\ \A k \in DOMAIN calls : \A g \in Files : calls[k].image = g => FrameInv(k, g)
      /\ \A k \in DOMAIN calls : \A g, h \in Files :
           k < Len(calls) /\ calls[k].image = g /\ calls[k + 1].image = h => Link(k, g, h)
      /\ \A j, k \in DOMAIN calls : calls[j].image = calls[k].image => j = k
      /\ \A g \in Files : seen[g] = Mark => done[g] = Mark \/ OnStack(g)
      /\ \A g \in Files : Passed(g) => done[g] = Mark
  BY DEF WalkInv
<1>6. \A k \in 1 .. n : calls[k].image \in Files /\ calls[k].image # f
  <2>1. \A k \in 1 .. n : calls[k] \in ActiveCall
    BY <1>0, <1>1
  <2>2. \A k \in 1 .. n : calls[k].image \in Files
    BY <2>1 DEF ActiveCall
  <2>3. \A k \in 1 .. n : seen[calls[k].image] = Mark
    BY <1>3, <1>5, <2>2 DEF FrameInv
  <2>. QED  BY <2>2, <2>3
<1>7. top' <= Len(images') /\ calls'[1].image = images'[top']
  <2>1. CASE calls = << >>
    <3>1. n = 0
      BY <1>1, <2>1
    <3>2. 1 = n + 1 /\ calls'[1] = Frame(f)
      BY <1>3, <3>1
    <3>. QED  BY <1>2, <2>1, <3>2
  <2>2. CASE calls # << >>
    <3>1. 1 \in 1 .. n
      BY <1>0, <1>1, <2>2
    <3>. QED  BY <1>3, <1>5, <2>2, <3>1
  <2>. QED  BY <2>1, <2>2
<1>8. ASSUME NEW k \in 1 .. n + 1, NEW g \in Files, calls'[k].image = g PROVE FrameInv(k, g)'
  <2>1. CASE k \in 1 .. n
    <3>1. FrameInv(k, g) /\ g # f /\ calls'[k] = calls[k]
      BY <1>3, <1>5, <1>6, <1>8, <2>1
    <3>2. seen'[g] = Mark
      BY <1>0, <3>1 DEF FrameInv
    <3>. QED  BY <1>4, <3>1, <3>2 DEF FrameInv, Settled
  <2>2. CASE k = n + 1
    <3>1. g = f /\ calls'[k].at = 1 /\ calls'[k].stage = "children"
      BY <1>2, <1>3, <1>8, <2>2
    <3>2. seen'[g] = Mark
      BY <1>0, <3>1
    <3>3. \A j \in DOMAIN PartsOf(g) : ~ (j < 1)
      <4>1. PartsOf(g) \in Seq(Part)
        BY PartsType DEF TypeInv, TypeOK
      <4>. QED  BY <4>1
    <3>. QED  BY <1>4, <3>1, <3>2, <3>3 DEF FrameInv
  <2>3. k \in 1 .. n \/ k = n + 1
    BY <1>8
  <2>. QED  BY <2>1, <2>2, <2>3
<1>9. ASSUME NEW k \in 1 .. n + 1, NEW g \in Files, NEW h \in Files,
             k < n + 1, calls'[k].image = g, calls'[k + 1].image = h
      PROVE  Link(k, g, h)'
  <2>1. k \in 1 .. n /\ calls'[k] = calls[k]
    BY <1>3, <1>9
  <2>2. CASE k < n
    <3>1. k + 1 \in 1 .. n
      BY <2>1, <2>2
    <3>2. calls'[k + 1] = calls[k + 1]
      BY <1>3, <3>1
    <3>3. Link(k, g, h)
      BY <1>1, <1>3, <1>5, <1>9, <2>1, <2>2, <3>2
    <3>. QED  BY <1>4, <2>1, <3>3 DEF Link
  <2>3. CASE k = n
    <3>1. calls # << >> /\ Current.image = g /\ h = f
      <4>1. calls # << >>
        BY <1>0, <1>1, <2>1
      <4>2. Current.image = g
        BY <1>1, <1>9, <2>1, <2>3 DEF Current
      <4>3. calls'[k + 1] = Frame(f)
        BY <1>3, <2>3
      <4>. QED  BY <1>2, <1>9, <4>1, <4>2, <4>3
    <3>2. Link(k, g, f)
      BY <1>1, <2>3, <3>1
    <3>. QED  BY <1>4, <2>1, <3>1, <3>2 DEF Link
  <2>. QED  BY <2>1, <2>2, <2>3
<1>10. ASSUME NEW j \in 1 .. n + 1, NEW k \in 1 .. n + 1, calls'[j].image = calls'[k].image
       PROVE  j = k
  <2>1. \A i \in 1 .. n + 1 : i \in 1 .. n \/ i = n + 1
    OBVIOUS
  <2>2. \A i \in 1 .. n : calls'[i].image # f /\ calls'[i].image = calls[i].image
    BY <1>3, <1>6
  <2>3. calls'[n + 1].image = f
    BY <1>2, <1>3
  <2>. QED  BY <1>3, <1>5, <1>10, <2>1, <2>2, <2>3
<1>11. ASSUME NEW g \in Files, seen'[g] = Mark, done'[g] # Mark PROVE OnStack(g)'
  <2>1. CASE g = f
    BY <1>2, <1>3, <2>1 DEF OnStack
  <2>2. CASE g # f
    <3>1. seen[g] = Mark /\ done[g] # Mark
      BY <1>0, <1>11, <2>2
    <3>2. PICK k \in 1 .. n : calls[k].image = g
      BY <1>3, <1>5, <3>1 DEF OnStack
    <3>3. k \in DOMAIN calls' /\ calls'[k].image = g
      BY <1>3, <3>2
    <3>. QED  BY <3>3 DEF OnStack
  <2>. QED  BY <2>1, <2>2
<1>12. \A g \in Files : Passed(g)' => done'[g] = Mark
  BY <1>5 DEF Passed
<1>13. \A k \in DOMAIN calls' : \A g \in Files : calls'[k].image = g => FrameInv(k, g)'
  BY <1>3, <1>8
<1>14. \A k \in DOMAIN calls' : \A g, h \in Files :
         k < Len(calls') /\ calls'[k].image = g /\ calls'[k + 1].image = h => Link(k, g, h)'
  BY <1>3, <1>9
<1>15. \A j, k \in DOMAIN calls' : calls'[j].image = calls'[k].image => j = k
  BY <1>3, <1>10
<1>. QED  BY <1>4, <1>7, <1>11, <1>12, <1>13, <1>14, <1>15 DEF WalkInv

\* So does a stage of the innermost call, once it has been through its partitions.
LEMMA StageWalk ==
  ASSUME TypeInv, WalkInv, Walking, UNCHANGED <<cfg, phase, images, seen, done, top>>,
         NEW s \in {"ready", "made"}, ChildrenDone, SetStage(s),
         Range(made) \subseteq Range(made'), s = "made" => Current.image \in Range(made')
  PROVE  WalkInv'
<1>0. calls \in Seq(ActiveCall) /\ calls # << >>
  BY TypeParts DEF StackType, ChildrenDone
<1>1. PICK n \in Nat : n = Len(calls) /\ n >= 1
  BY <1>0
<1>2. \A k \in 1 .. n : calls[k] \in ActiveCall
  BY <1>0, <1>1
<1>3. /\ DOMAIN calls = 1 .. n /\ DOMAIN calls' = 1 .. n /\ Len(calls') = n
      /\ \A k \in 1 .. n : k # n => calls'[k] = calls[k]
      /\ calls'[n] = [calls[n] EXCEPT !.stage = s]
  BY <1>0, <1>1 DEF SetStage
<1>4. \A k \in 1 .. n : calls'[k].image = calls[k].image /\ calls'[k].at = calls[k].at
  BY <1>2, <1>3 DEF ActiveCall
<1>5. \A k \in 1 .. n : calls'[k].stage = IF k = n THEN s ELSE calls[k].stage
  BY <1>2, <1>3 DEF ActiveCall
<1>6. Mark' = Mark /\ \A g : PartsOf(g)' = PartsOf(g)
  BY GraphStays DEF Mark
<1>7. /\ calls # << >> => top <= Len(images) /\ calls[1].image = images[top]
      /\ \A k \in DOMAIN calls : \A g \in Files : calls[k].image = g => FrameInv(k, g)
      /\ \A k \in DOMAIN calls : \A g, h \in Files :
           k < Len(calls) /\ calls[k].image = g /\ calls[k + 1].image = h => Link(k, g, h)
      /\ \A j, k \in DOMAIN calls : calls[j].image = calls[k].image => j = k
      /\ \A g \in Files : seen[g] = Mark => done[g] = Mark \/ OnStack(g)
      /\ \A g \in Files : Passed(g) => done[g] = Mark
  BY DEF WalkInv
<1>8. ASSUME NEW k \in 1 .. n, NEW g \in Files, calls'[k].image = g PROVE FrameInv(k, g)'
  <2>1. FrameInv(k, g) /\ calls[k].image = g
    BY <1>3, <1>4, <1>7, <1>8
  <2>2. k = n => Current.image = g /\ calls[k].at > Len(PartsOf(g))
    BY <1>1, <2>1 DEF Current, ChildrenDone
  <2>3. calls'[k].stage # "children" => calls'[k].at > Len(PartsOf(g))
    BY <1>4, <1>5, <1>8, <2>1, <2>2 DEF FrameInv
  <2>4. calls'[k].stage = "made" => g \in Range(made')
    BY <1>5, <1>8, <2>1, <2>2 DEF FrameInv
  <2>5. /\ g \in Range(images) /\ seen[g] = Mark /\ done[g] # Mark
        /\ \A j \in DOMAIN PartsOf(g) : j < calls[k].at => Settled(g, j)
    BY <2>1 DEF FrameInv
  <2>. QED  BY <1>4, <1>6, <1>8, <2>3, <2>4, <2>5 DEF FrameInv, Settled
<1>9. ASSUME NEW k \in 1 .. n, NEW g \in Files, NEW h \in Files,
             k < n, calls'[k].image = g, calls'[k + 1].image = h
      PROVE  Link(k, g, h)'
  <2>1. k + 1 \in 1 .. n
    BY <1>9
  <2>2. Link(k, g, h)
    BY <1>1, <1>3, <1>4, <1>7, <1>9, <2>1
  <2>. QED  BY <1>4, <1>6, <1>9, <2>2 DEF Link
<1>10. calls' # << >> => top' <= Len(images') /\ calls'[1].image = images'[top']
  <2>1. 1 \in 1 .. n
    BY <1>1
  <2>. QED  BY <1>0, <1>4, <1>7, <2>1
<1>11. \A j, k \in 1 .. n : calls'[j].image = calls'[k].image => j = k
  BY <1>3, <1>4, <1>7
<1>12. \A g \in Files : OnStack(g) => OnStack(g)'
  BY <1>3, <1>4 DEF OnStack
<1>13. \A g \in Files : Passed(g)' => Passed(g)
  BY DEF Passed
<1>14. \A k \in DOMAIN calls' : \A g \in Files : calls'[k].image = g => FrameInv(k, g)'
  BY <1>3, <1>8
<1>15. \A k \in DOMAIN calls' : \A g, h \in Files :
         k < Len(calls') /\ calls'[k].image = g /\ calls'[k + 1].image = h => Link(k, g, h)'
  BY <1>3, <1>9
<1>. QED  BY <1>3, <1>6, <1>7, <1>10, <1>11, <1>12, <1>13, <1>14, <1>15 DEF WalkInv

\* A call for an image, from the loop over the list or for a partition.
CalledFor(f) ==
  /\ f \in Range(images)
  /\ calls = << >> => top <= Len(images) /\ images[top] = f
  /\ calls # << >> => Link(Len(calls), Current.image, f)

\* A return to callers who wait for something done.
LEMMA SkipWalk ==
  ASSUME TypeInv, WalkInv, Walking, UNCHANGED <<cfg, phase, images, seen, done, made>>,
         ReturnTo(calls), Awaited(Len(calls))
  PROVE  WalkInv'
<1>1. StackType /\ Len(calls) \in 0 .. Len(calls)
  BY TypeParts DEF StackType
<1>2. Returned(Len(calls)) \/ (calls # << >> /\ ReturnTo(Front(calls)) /\ Returned(Len(calls) - 1))
  BY <1>1, ReturnShape
<1>3. ~ (calls # << >> /\ ReturnTo(Front(calls)) /\ Returned(Len(calls) - 1))
  <2>1. SUFFICES ASSUME calls # << >>, Returned(Len(calls) - 1) PROVE FALSE
    OBVIOUS
  <2>2. Len(calls') = Len(calls) - 1
    BY <2>1 DEF Returned
  <2>3. calls' = [calls EXCEPT ![Len(calls)].at = @ + 1]
    BY <2>1 DEF ReturnTo
  <2>4. calls \in Seq(ActiveCall) /\ Len(calls) \in Nat
    BY <1>1 DEF StackType
  <2>5. Len(calls') = Len(calls)
    BY <2>1, <2>3, <2>4, CallerMoves
  <2>. QED  BY <2>2, <2>4, <2>5
<1>4. EndedAt(Len(calls))
  BY <1>1 DEF EndedAt, StackType
<1>. QED  BY <1>1, <1>2, <1>3, <1>4, ReturnWalk

\* A call keeps the invariant of the walk.
LEMMA CallWalk ==
  ASSUME TypeInv, WalkInv, Walking, UNCHANGED <<cfg, phase, images, done, made>>,
         NEW f \in Files, CalledFor(f), NEW m \in {-1, 1}, m = Mark, Call(f, m)
  PROVE  WalkInv'
<1>1. CASE done[f] = m /\ ReturnTo(calls) /\ UNCHANGED <<control, seen>>
  <2>1. calls \in Seq(ActiveCall)
    BY TypeParts DEF StackType
  <2>2. Awaited(Len(calls))
    <3>1. CASE calls = << >>
      <4>1. Len(calls) = 0 /\ top <= Len(images) /\ images[top] = f
        BY <2>1, <3>1 DEF CalledFor
      <4>2. top \in DOMAIN images
        BY <4>1, LoopImage
      <4>. QED  BY <1>1, <4>1, <4>2 DEF Awaited
    <3>2. CASE calls # << >>
      <4>1. Len(calls) \in Nat /\ Len(calls) # 0
        BY <2>1, <3>2
      <4>2. Link(Len(calls), Current.image, f)
        BY <3>2 DEF CalledFor
      <4>. QED  BY <1>1, <4>1, <4>2 DEF Awaited, Link, Current
    <3>. QED  BY <3>1, <3>2
  <2>. QED  BY <1>1, <2>2, SkipWalk
<1>2. CASE Abandon("recursive")
  BY <1>2 DEF Abandon, Walking
<1>3. CASE /\ done[f] # m /\ seen[f] # m /\ seen' = [seen EXCEPT ![f] = m]
           /\ calls' = Append(calls, Frame(f)) /\ UNCHANGED <<control, top>>
  BY <1>3, PushWalk DEF CalledFor
<1>. QED  BY <1>1, <1>2, <1>3 DEF Call

\* The partition at hand holds an image of the list.
LEMMA PartCalledFor ==
  ASSUME TypeInv, ListInv, WalkInv, Walking, AtPart, PartAt.image # NoFile
  PROVE  PartAt.image \in Files /\ CalledFor(PartAt.image)
<1>1. StackType
  BY TypeParts
<1>2. /\ calls # << >> /\ Len(calls) \in DOMAIN calls /\ Current = calls[Len(calls)]
      /\ Current.image \in Files
  BY <1>1, Innermost DEF AtPart
<1>3. Current.at \in DOMAIN PartsOf(Current.image) /\ PartAt.image \in Files
  BY <1>1, NamesAssumption, InnermostPart
<1>4. FrameInv(Len(calls), Current.image)
  BY <1>2 DEF WalkInv
<1>5. AllInList(Current.image)
  BY <1>4 DEF FrameInv, ListInv, Walking
<1>6. PartAt.image \in Range(images)
  BY <1>3, <1>5 DEF AllInList, InList, PartAt
<1>7. Link(Len(calls), Current.image, PartAt.image)
  BY <1>2, <1>3 DEF Link, PartAt
<1>. QED  BY <1>2, <1>3, <1>6, <1>7 DEF CalledFor

\* So does the walk to the next image.
LEMMA DescendWalk ==
  ASSUME TypeInv, ListInv, WalkInv, Walking, phase' = phase,
         NEW m \in {-1, 1}, m = Mark, Descend(m)
  PROVE  WalkInv'
<1>1. UNCHANGED <<cfg, images, done, made>>
  BY DEF Descend
<1>2. CASE calls = << >> /\ top <= Len(images) /\ Call(images[top], m)
  <2>1. images[top] \in Files /\ CalledFor(images[top])
    BY <1>2, LoopImage DEF CalledFor
  <2>. QED  BY <1>1, <1>2, <2>1, CallWalk
<1>3. CASE AtPart /\ PartAt.image = NoFile /\ ReturnTo(calls) /\ UNCHANGED <<control, seen>>
  <2>1. calls # << >> /\ Current = calls[Len(calls)] /\ Len(calls) # 0
    BY <1>3, TypeParts, Innermost DEF AtPart, StackType
  <2>2. Current.at \in DOMAIN PartsOf(Current.image)
    BY <1>3, TypeParts, InnermostPart
  <2>3. Awaited(Len(calls))
    BY <1>3, <2>1, <2>2, NamesAssumption DEF Awaited, PartAt
  <2>. QED  BY <1>1, <1>3, <2>3, SkipWalk
<1>4. CASE AtPart /\ PartAt.image # NoFile /\ Call(PartAt.image, m)
  BY <1>1, <1>4, PartCalledFor, CallWalk
<1>. QED  BY <1>2, <1>3, <1>4 DEF Descend

\* The end of the innermost call.
LEMMA FinishWalk ==
  ASSUME TypeInv, WalkInv, Walking, UNCHANGED <<cfg, phase, images, seen>>,
         Range(made) \subseteq Range(made'), calls # << >>,
         NEW m \in {-1, 1}, m = Mark, Finished(m)
  PROVE  WalkInv'
<1>0. StackType /\ calls \in Seq(ActiveCall) /\ done \in [Files -> -1 .. 1]
  BY TypeParts DEF StackType, MarkType
<1>1. PICK n \in Nat : Len(calls) = n + 1
  BY <1>0
<1>2. /\ Len(calls) \in DOMAIN calls /\ Current = calls[Len(calls)] /\ Current.image \in Files
      /\ done' = [done EXCEPT ![Current.image] = m] /\ ReturnTo(Front(calls))
  BY <1>0, Innermost DEF Finished
<1>3. Len(calls) - 1 = n /\ n < Len(calls) /\ n \in 0 .. Len(calls)
  BY <1>1
<1>4. Returned(n)
  <2>1. Len(calls') = n
    <3>1. /\ Front(calls) \in Seq(ActiveCall) /\ Len(Front(calls)) = n
      BY <1>0, <1>3, Innermost
    <3>. QED  BY <1>2, <3>1, CallerMoves DEF ReturnTo
  <2>2. ~ Returned(Len(calls))
    BY <1>3, <2>1 DEF Returned
  <2>. QED  BY <1>0, <1>2, <1>3, <2>2, ReturnShape
<1>5. done'[Current.image] = Mark /\ \A f \in Files : f # Current.image => done'[f] = done[f]
  BY <1>0, <1>2
<1>6. EndedAt(n)
  BY <1>2, <1>3, <1>5 DEF EndedAt
<1>7. Awaited(n)
  <2>1. ASSUME n > 0, NEW f \in Files, calls[n].image = f
        PROVE  /\ calls[n].at \in DOMAIN PartsOf(f)
               /\ \A g \in Files : PartsOf(f)[calls[n].at].image = g => done'[g] = Mark
    <3>1. n \in DOMAIN calls /\ n < Len(calls) /\ n + 1 = Len(calls)
      BY <1>0, <1>1, <2>1
    <3>2. Link(n, f, Current.image)
      BY <1>2, <2>1, <3>1 DEF WalkInv
    <3>. QED  BY <1>5, <3>2 DEF Link
  <2>2. ASSUME n = 0 PROVE top \in DOMAIN images /\ done'[images[top]] = Mark
    <3>1. Current = calls[1]
      BY <1>1, <1>2, <2>2
    <3>2. top <= Len(images) /\ Current.image = images[top]
      BY <3>1 DEF WalkInv
    <3>. QED  BY <1>5, <3>2, LoopImage
  <2>. QED  BY <2>1, <2>2 DEF Awaited
<1>. QED  BY <1>3, <1>4, <1>6, <1>7, ReturnWalk

-----------------------------------------------------------------------------
(***************************************************************************)
(* The invariant, step by step.                                            *)
(***************************************************************************)
\* Setup leaves the other mark alone, and makes nothing.
LEMMA CallMarks ==
  ASSUME NEW f, NEW m, Call(f, m), seen \in [Files -> -1 .. 1]
  PROVE  \A g \in Files : seen'[g] \in {seen[g], m}
BY DEF Call

\* And the same of the walk to the next image.
LEMMA DescendMarks ==
  ASSUME NEW m, Descend(m), seen \in [Files -> -1 .. 1]
  PROVE  \A g \in Files : seen'[g] \in {seen[g], m}
<1>1. CASE \E f : Call(f, m)
  BY <1>1, CallMarks
<1>. QED  BY <1>1 DEF Descend

\* No image is marked at the start.
LEMMA InitFresh == Init => FreshInv
BY DEF Init, FreshInv

\* Each walk finds the images without its mark.
LEMMA FreshStep == TypeInv /\ FreshInv /\ [Next]_vars => FreshInv'
<1> SUFFICES ASSUME TypeInv, FreshInv, [Next]_vars PROVE FreshInv'
  OBVIOUS
<1>0. done \in [Files -> -1 .. 1] /\ seen \in [Files -> -1 .. 1]
  BY TypeParts DEF MarkType
<1>1. CASE EarlySteps
  BY <1>1, EarlyStep DEF FreshInv
<1>2. CASE LateSteps
  <2>1. ~Early' /\ (phase' = "setup" => phase = "setup")
    BY <1>2, LateStep DEF Early, EarlyPhases
  <2>2. SUFFICES ASSUME phase' = "setup"
                 PROVE  made' = << >> /\ \A f \in Files : done'[f] # 1 /\ seen'[f] # 1
    BY <2>1 DEF FreshInv
  <2>3. phase = "setup" /\ made = << >> /\ \A f \in Files : done[f] # 1 /\ seen[f] # 1
    BY <2>1, <2>2 DEF FreshInv
  <2>4. CASE SetupCall
    <3>1. UNCHANGED <<done, made>> /\ \A g \in Files : seen'[g] \in {seen[g], -1}
      BY <1>0, <2>4, DescendMarks DEF SetupCall, Descend
    <3>. QED  BY <2>3, <3>1
  <2>5. CASE SetupHandler
    <3>1. UNCHANGED <<seen, made>>
      BY <2>2, <2>5 DEF SetupHandler, Fails, graph
    <3>2. done' = done \/ done' = [done EXCEPT ![Current.image] = -1]
      BY <2>2, <2>5 DEF SetupHandler, Fails, Finished, graph
    <3>. QED  BY <1>0, <2>3, <3>1, <3>2
  <2>. QED  BY <1>2, <2>2, <2>3, <2>4, <2>5 DEF LateSteps, PreparePaths, GenerateCall, SetenvError, ExecPre,
               GenerateHandler, ExecPost, AllGenerated, Cleanup, Abandon
<1>3. CASE UNCHANGED vars
  <2>1. UNCHANGED <<phase, calls, done, seen, made>>
    BY <1>3 DEF vars, control, graph, walk
  <2>. QED  BY <2>1 DEF FreshInv, Early
<1>. QED  BY <1>1, <1>2, <1>3, StepKinds

\* Where a walk begins there is nothing it could be wrong about.
LEMMA StartWalk ==
  ASSUME cfg' = cfg, calls' = << >>, top' = 1, images' \in Seq(Files),
         \A f \in Files : seen'[f] # Mark'
  PROVE  WalkInv'
<1>1. \A f \in Files : ~ Passed(f)'
  BY DEF Passed
<1>2. DOMAIN calls' = {}
  OBVIOUS
<1>. QED  BY <1>1, <1>2 DEF WalkInv

\* No walk is under way at the start.
LEMMA InitWalk == Init => WalkInv
BY DEF Init, WalkInv, Walking

\* Every step keeps the invariant of the walk.
LEMMA WalkStep == TypeInv /\ ListInv /\ FreshInv /\ WalkInv /\ [Next]_vars => WalkInv'
<1> SUFFICES ASSUME TypeInv, ListInv, FreshInv, WalkInv, [Next]_vars PROVE WalkInv'
  OBVIOUS
<1>0. TypeInv' /\ cfg' = cfg /\ images' \in Seq(Files)
  BY TypeStep, CfgStays DEF TypeInv, TypeOK
<1>1. ASSUME ~Walking' PROVE WalkInv'
  BY <1>1 DEF WalkInv
<1>2. ASSUME Abandon("recursive") PROVE WalkInv'
  BY <1>1, <1>2 DEF Abandon, Walking
<1>3. CASE EarlySteps
  <2>1. SUFFICES ASSUME phase' = "setup" PROVE WalkInv'
    BY <1>1, <1>3, EarlyStep DEF Walking, EarlyPhases
  <2>2. phase = "mount" /\ top' = top /\ UNCHANGED <<calls, seen>> /\ Early
    BY <1>3, <2>1, EarlyStep
  <2>3. top' = 1 /\ calls' = << >> /\ \A f \in Files : seen'[f] = 0
    BY <2>2 DEF ListInv, FreshInv
  <2>4. Mark' = -1
    BY <2>1 DEF Mark
  <2>. QED  BY <1>0, <2>3, <2>4, StartWalk
<1>4. CASE SetupCall
  <2>1. phase = "setup" /\ Mark = -1 /\ Walking /\ Descend(-1)
    BY <1>4 DEF SetupCall, Mark, Walking
  <2>. QED  BY <1>2, <2>1, DescendControl, DescendWalk DEF control
<1>5. CASE GenerateCall
  <2>1. phase = "generate" /\ Mark = 1 /\ Walking /\ Descend(1)
    BY <1>5 DEF GenerateCall, Mark, Walking
  <2>. QED  BY <1>2, <2>1, DescendControl, DescendWalk DEF control
<1>6. CASE SetupHandler
  <2>1. phase = "setup" /\ Mark = -1 /\ Walking /\ calls # << >>
    BY <1>6 DEF SetupHandler, Mark, Walking, ChildrenDone
  <2>2. CASE Finished(-1) /\ UNCHANGED <<cfg, control, images, seen, flash, holes, part, outputs, made, tmpdir>>
    BY <2>1, <2>2, FinishWalk DEF control
  <2>. QED  BY <1>1, <1>6, <2>2 DEF SetupHandler, Fails, Abandon, Walking
<1>7. CASE PreparePaths
  <2>1. calls' = << >> /\ top' = 1 /\ seen' = seen /\ phase = "setup"
    BY <1>7 DEF PreparePaths, graph
  <2>2. CASE phase' = "generate"
    <3>1. Mark' = 1 /\ \A f \in Files : seen[f] # 1
      BY <2>1, <2>2 DEF Mark, FreshInv
    <3>. QED  BY <1>0, <2>1, <3>1, StartWalk
  <2>. QED  BY <1>1, <1>7, <2>2 DEF PreparePaths, Abandon, Walking
<1>8. CASE ExecPre
  <2>1. phase = "generate" /\ Walking /\ ChildrenDone
    BY <1>8 DEF ExecPre, Walking
  <2>2. CASE SetStage("ready") /\ UNCHANGED <<cfg, control, graph, top, part, outputs, made, tmpdir>>
    BY <2>1, <2>2, StageWalk DEF control, graph
  <2>. QED  BY <1>1, <1>8, <2>2 DEF ExecPre, Fails, Abandon, Walking
<1>9. CASE GenerateHandler
  <2>1. phase = "generate" /\ Mark = 1 /\ Walking /\ ChildrenDone /\ calls # << >>
    BY <1>9 DEF GenerateHandler, Mark, Walking, ChildrenDone
  <2>2. CASE made' = Append(made, Current.image) /\ UNCHANGED <<cfg, control, images, seen, flash, holes, part, tmpdir>>
             /\ IF HasPost(Current.image) THEN SetStage("made") /\ UNCHANGED <<done, top>> ELSE Finished(1)
    <3>1. Range(made') = Range(made) \cup {Current.image}
      <4>1. made \in Seq(Files) /\ Current.image \in Files
        BY <2>1, TypeParts, Innermost DEF OutType
      <4>. QED  BY <2>2, <4>1, AppendRange
    <3>2. CASE SetStage("made") /\ UNCHANGED <<done, top>>
      BY <2>1, <2>2, <3>1, <3>2, StageWalk DEF control
    <3>3. CASE Finished(1)
      BY <2>1, <2>2, <3>1, <3>3, FinishWalk DEF control
    <3>. QED  BY <2>2, <3>2, <3>3
  <2>. QED  BY <1>1, <1>9, <2>2 DEF GenerateHandler, Fails, Abandon, Walking
<1>10. CASE ExecPost
  <2>1. phase = "generate" /\ Mark = 1 /\ Walking /\ calls # << >>
    BY <1>10 DEF ExecPost, Mark, Walking, ChildrenDone
  <2>2. CASE Finished(1) /\ UNCHANGED <<cfg, control, images, seen, flash, holes, part, outputs, made, tmpdir>>
    BY <2>1, <2>2, FinishWalk DEF control
  <2>. QED  BY <1>1, <1>10, <2>2 DEF ExecPost, Fails, Abandon, Walking
<1>11. CASE SetenvError \/ AllGenerated \/ Cleanup
  BY <1>1, <1>11 DEF SetenvError, AllGenerated, Cleanup, Abandon, Walking
<1>12. CASE UNCHANGED vars
  <2>1. UNCHANGED <<cfg, phase, images, calls, done, seen, top, made>>
    BY <1>12 DEF vars, control, graph, walk
  <2>2. Mark' = Mark /\ \A f : PartsOf(f)' = PartsOf(f)
    BY <2>1, GraphStays DEF Mark
  <2>3. /\ \A f : (Passed(f)' <=> Passed(f)) /\ (OnStack(f)' <=> OnStack(f))
        /\ Walking' <=> Walking
        /\ \A k, f : FrameInv(k, f)' <=> FrameInv(k, f)
        /\ \A k, f, g : Link(k, f, g)' <=> Link(k, f, g)
    BY <2>1, <2>2 DEF Passed, OnStack, Walking, FrameInv, Link, Settled
  <2>. QED  BY <2>1, <2>2, <2>3 DEF WalkInv
<1>. QED  BY <1>3, <1>4, <1>5, <1>6, <1>7, <1>8, <1>9, <1>10, <1>11, <1>12, StepKinds DEF LateSteps

\* Which steps make images, and which finish them.
LEMMA LateMade ==
  ASSUME LateSteps
  PROVE  /\ GenerateHandler \/ made' = made
         /\ SetupHandler \/ GenerateHandler \/ ExecPost \/ done' = done
<1>1. CASE SetupCall \/ GenerateCall
  BY <1>1 DEF SetupCall, GenerateCall, Descend
<1>2. CASE SetupHandler
  BY <1>2 DEF SetupHandler, Fails
<1>3. CASE PreparePaths \/ SetenvError \/ AllGenerated \/ Cleanup
  BY <1>3 DEF PreparePaths, SetenvError, AllGenerated, Cleanup, graph, walk
<1>4. CASE ExecPre
  BY <1>4 DEF ExecPre, Fails, graph
<1>5. CASE ExecPost
  BY <1>5 DEF ExecPost, Fails
<1>6. CASE GenerateHandler
  BY <1>6
<1>. QED  BY <1>1, <1>2, <1>3, <1>4, <1>5, <1>6 DEF LateSteps

\* The generate function of the current image returns 0, or it or the handler fails.
LEMMA GenerateCases ==
  ASSUME GenerateHandler
  PROVE  \/ /\ phase' = "cleanup" /\ UNCHANGED <<done, made>>
         \/ /\ phase' = phase /\ made' = Append(made, Current.image)
            /\ UNCHANGED <<cfg, control, images, seen, flash, holes, part, tmpdir>>
            /\ \/ SetStage("made") /\ done' = done
               \/ Finished(1)
BY DEF GenerateHandler, Fails, Abandon, graph, control

\* The current image, all its partitions done with.
LEMMA CurrentImage ==
  ASSUME TypeInv, WalkInv, Walking, ChildrenDone
  PROVE  /\ calls # << >> /\ Current.image \in Files /\ Len(calls) \in DOMAIN calls
         /\ FrameInv(Len(calls), Current.image) /\ Current = calls[Len(calls)]
         /\ \A g \in Children(Current.image) : g \in Files /\ done[g] = Mark
<1>1. /\ calls # << >> /\ Current.image \in Files /\ Len(calls) \in DOMAIN calls
      /\ Current = calls[Len(calls)] /\ Current.at \in Nat
      /\ Current.at > Len(PartsOf(Current.image))
  BY TypeParts, Innermost DEF ChildrenDone
<1>2. FrameInv(Len(calls), Current.image)
  BY <1>1 DEF WalkInv
<1>3. PartsOf(Current.image) \in Seq(Part) /\ cfg \in Seq(Section)
  BY PartsType DEF TypeInv, TypeOK
<1>4. \A n \in DOMAIN PartsOf(Current.image) : n < Current.at
  BY <1>1, <1>3
<1>5. ASSUME NEW g \in Children(Current.image) PROVE g \in Files /\ done[g] = Mark
  <2>1. g \in Files
    BY <1>3, <1>5, ChildrenType
  <2>2. PICK n \in DOMAIN PartsOf(Current.image) : PartsOf(Current.image)[n].image = g
    BY <1>5, ChildrenAre
  <2>. QED  BY <1>1, <1>2, <1>4, <2>1, <2>2 DEF FrameInv, Settled
<1>. QED  BY <1>1, <1>2, <1>5

\* Only the current image can be between its handler and its exec-post.
LEMMA OnlyInnermost ==
  ASSUME TypeInv, WalkInv, Walking, NEW f \in Files, BeingMade(f)
  PROVE  ChildrenDone /\ Current.image = f /\ Current.stage = "made"
<1>0. calls \in Seq(ActiveCall)
  BY TypeParts DEF StackType
<1>1. PICK k \in DOMAIN calls : calls[k].image = f /\ calls[k].stage = "made"
  BY DEF BeingMade
<1>2. FrameInv(k, f)
  BY <1>1 DEF WalkInv
<1>3. calls[k].at > Len(PartsOf(f))
  BY <1>1, <1>2 DEF FrameInv
<1>4. ~ (k < Len(calls))
  <2>1. SUFFICES ASSUME k < Len(calls) PROVE FALSE
    OBVIOUS
  <2>2. PICK n \in Nat : n = k + 1
    BY <1>0
  <2>3. n \in DOMAIN calls
    BY <1>0, <2>1, <2>2
  <2>4. calls[n] \in ActiveCall
    BY <1>0, <2>3
  <2>5. calls[n].image \in Files
    BY <2>4 DEF ActiveCall
  <2>6. Link(k, f, calls[n].image)
    BY <1>1, <2>1, <2>2, <2>5 DEF WalkInv
  <2>7. PartsOf(f) \in Seq(Part)
    BY PartsType DEF TypeInv, TypeOK
  <2>. QED  BY <1>3, <2>6, <2>7 DEF Link
<1>5. k = Len(calls) /\ calls # << >>
  BY <1>0, <1>1, <1>4
<1>. QED  BY <1>1, <1>3, <1>5 DEF Current, ChildrenDone

\* Nothing is made at the start.
LEMMA InitMade == Init => MadeInv
BY DEF Init, MadeInv, Range

\* Every step keeps what is known of the images made.
LEMMA MadeStep ==
  TypeInv /\ ListInv /\ FreshInv /\ WalkInv /\ MadeInv /\ [Next]_vars => MadeInv'
<1> SUFFICES ASSUME TypeInv, ListInv, FreshInv, WalkInv, MadeInv, [Next]_vars PROVE MadeInv'
  OBVIOUS
<1>0. done \in [Files -> -1 .. 1] /\ made \in Seq(Files) /\ Range(made) \subseteq Files
  BY TypeParts DEF MarkType, OutType, Range
<1>1. CASE EarlySteps
  <2>1. made' = << >> /\ phase' # "generate" /\ \A f \in Files : done'[f] # 1
    BY <1>1, EarlyStep DEF FreshInv, EarlyPhases
  <2>2. Range(made') = {}
    BY <2>1 DEF Range
  <2>. QED  BY <2>1, <2>2 DEF MadeInv
<1>2. CASE PreparePaths
  <2>1. UNCHANGED <<made, done, images>> /\ made = << >> /\ \A f \in Files : done[f] # 1
    BY <1>2 DEF PreparePaths, graph, FreshInv
  <2>2. Range(made') = {}
    BY <2>1 DEF Range
  <2>. QED  BY <2>1, <2>2 DEF MadeInv
<1>3. CASE SetupHandler
  <2>1. made' = made /\ images' = images /\ phase = "setup" /\ phase' # "generate"
    BY <1>3 DEF SetupHandler, Fails, Abandon, control, graph
  <2>2. done' = done \/ done' = [done EXCEPT ![Current.image] = -1]
    BY <1>3 DEF SetupHandler, Fails, Finished, graph
  <2>3. \A f \in Files : done'[f] = 1 => done[f] = 1
    BY <1>0, <2>2
  <2>. QED  BY <2>1, <2>3 DEF MadeInv
<1>4. CASE GenerateHandler
  <2>1. /\ phase = "generate" /\ ChildrenDone /\ Walking /\ Mark = 1 /\ Current.stage # "made" /\ images' = images
    BY <1>4, LateStep DEF GenerateHandler, Walking, Mark, LateSteps
  <2>2. Current.image \in Files /\ Current.image \in Range(images) /\ calls # << >>
        /\ Len(calls) \in DOMAIN calls /\ Current = calls[Len(calls)]
    BY <2>1, CurrentImage DEF FrameInv
  <2>3. \A f \in Range(made) : done[f] = 1
    BY <1>0, <2>1, OnlyInnermost DEF MadeInv
  <2>4. CASE phase' = "cleanup" /\ UNCHANGED <<done, made>>
    BY <2>1, <2>4 DEF MadeInv
  <2>5. ASSUME made' = Append(made, Current.image)
        PROVE  Range(made') = Range(made) \cup {Current.image}
    BY <1>0, <2>2, <2>5, AppendRange
  <2>6. CASE made' = Append(made, Current.image) /\ SetStage("made") /\ done' = done
    <3>0. PICK f \in Files : f = Current.image
      BY <2>2
    <3>1. BeingMade(f)'
      <4>2. PICK n \in DOMAIN calls : n = Len(calls)
        BY <2>2
      <4>3. calls \in Seq(ActiveCall) /\ calls[n] \in ActiveCall
        BY TypeParts, <4>2 DEF StackType
      <4>4. n \in DOMAIN calls' /\ calls'[n] = [calls[n] EXCEPT !.stage = "made"]
        BY <2>6, <4>2, <4>3 DEF SetStage
      <4>5. calls'[n].image = f /\ calls'[n].stage = "made"
        BY <2>2, <3>0, <4>2, <4>3, <4>4 DEF ActiveCall
      <4>. QED  BY <4>4, <4>5 DEF BeingMade
    <3>2. Range(made') = Range(made) \cup {f}
      BY <2>5, <2>6, <3>0
    <3>3. f \in Range(images)
      BY <2>2, <3>0
    <3>. QED  BY <1>0, <2>1, <2>3, <2>6, <3>1, <3>2, <3>3 DEF MadeInv
  <2>7. CASE made' = Append(made, Current.image) /\ Finished(1)
    <3>1. done'[Current.image] = 1 /\ \A f \in Files : f # Current.image => done'[f] = done[f]
      BY <1>0, <2>2, <2>7 DEF Finished
    <3>. QED  BY <1>0, <2>1, <2>2, <2>3, <2>5, <2>7, <3>1 DEF MadeInv
  <2>. QED  BY <1>4, <2>4, <2>6, <2>7, GenerateCases
<1>5. CASE ExecPost
  <2>1. /\ phase = "generate" /\ ChildrenDone /\ Walking /\ Mark = 1 /\ Current.stage = "made"
        /\ images' = images /\ made' = made
    BY <1>5, LateStep, LateMade DEF ExecPost, GenerateHandler, Walking, Mark, LateSteps, Fails
  <2>2. Current.image \in Files /\ Current.image \in Range(made)
    BY <2>1, CurrentImage DEF FrameInv
  <2>3. CASE Finished(1)
    <3>1. done'[Current.image] = 1 /\ \A f \in Files : f # Current.image => done'[f] = done[f]
      BY <1>0, <2>2, <2>3 DEF Finished
    <3>2. \A f \in Range(made) : done'[f] = 1
      BY <1>0, <2>1, <3>1, OnlyInnermost DEF MadeInv
    <3>. QED  BY <2>1, <2>2, <3>1, <3>2 DEF MadeInv
  <2>4. CASE Fails("exec-post")
    BY <2>1, <2>4 DEF MadeInv, Fails, Abandon, graph
  <2>. QED  BY <1>5, <2>3, <2>4 DEF ExecPost
<1>6. CASE SetupCall \/ GenerateCall \/ ExecPre \/ SetenvError \/ AllGenerated \/ Cleanup
  <2>1. UNCHANGED <<made, done, images>>
    BY <1>6 DEF SetupCall, GenerateCall, ExecPre, SetenvError, AllGenerated, Cleanup, Descend, Fails, graph, walk
  <2>2. SUFFICES ASSUME phase' = "generate", NEW f \in Range(made) PROVE done[f] = 1
    BY <2>1 DEF MadeInv
  <2>3. phase = "generate" /\ Walking /\ (GenerateCall \/ ExecPre)
    BY <1>6, <2>2, DescendControl DEF SetupCall, GenerateCall, ExecPre, SetenvError, AllGenerated, Cleanup, Abandon,
       Walking, control
  <2>4. ~BeingMade(f)
    <3>1. SUFFICES ASSUME BeingMade(f) PROVE FALSE
      OBVIOUS
    <3>2. ChildrenDone /\ Current.stage = "made"
      BY <1>0, <2>2, <2>3, <3>1, OnlyInnermost
    <3>3. ~AtPart /\ calls # << >>
      <4>1. calls # << >> /\ Current.at \in Nat /\ PartsOf(Current.image) \in Seq(Part)
        BY <3>2, TypeParts, Innermost, PartsType DEF ChildrenDone, CfgType
      <4>. QED  BY <3>2, <4>1 DEF ChildrenDone, AtPart
    <3>. QED  BY <2>3, <3>2, <3>3 DEF GenerateCall, Descend, ExecPre
  <2>. QED  BY <1>0, <2>2, <2>3, <2>4 DEF MadeInv
<1>7. CASE UNCHANGED vars
  <2>1. UNCHANGED <<phase, images, made, done, calls>>
    BY <1>7 DEF vars, control, graph, walk
  <2>. QED  BY <2>1 DEF MadeInv, BeingMade
<1>. QED  BY <1>1, <1>2, <1>3, <1>4, <1>5, <1>6, <1>7, StepKinds DEF LateSteps

\* How a run goes on: to the next phase, to an error, or to its end.
Errors == Returns \ {"ok", "exit"}
Going == phase \notin {"cleanup", "over"}

\* Every step is of one of these kinds.
LEMMA StepControl ==
  ASSUME TypeInv, [Next]_vars
  PROVE  \/ Going /\ Going' /\ ret' = ret
         \/ Going /\ \E r \in Errors : Abandon(r)
         \/ phase \in {"config", "parse"} /\ Exit
         \/ AllGenerated
         \/ Cleanup
         \/ UNCHANGED vars
<1>1. ASSUME Going, phase' \in Phases \ {"cleanup", "over"}, ret' = ret PROVE Going /\ Going' /\ ret' = ret
  BY <1>1 DEF Going
<1>2. "config" \in Errors /\ "parse" \in Errors /\ "no input file" \in Errors /\ "holes" \in Errors
      /\ "flash type" \in Errors /\ "mount" \in Errors /\ "recursive" \in Errors /\ "setup" \in Errors
      /\ "paths" \in Errors /\ "exec-pre" \in Errors /\ "generate" \in Errors /\ "exec-post" \in Errors
  BY DEF Errors, Returns
<1>3. CASE ConfigError
  BY <1>2, <1>3 DEF ConfigError, Going
<1>4. CASE CheckTmpPath \/ ShowUsage
  BY <1>4 DEF CheckTmpPath, ShowUsage, Going
<1>5. CASE ParseImage
  BY <1>2, <1>5 DEF ParseImage, Going, control
<1>6. CASE SectionsParsed \/ PartsDone \/ ListDone
  BY <1>6 DEF SectionsParsed, PartsDone, ListDone, Going, control
<1>7. CASE ImplicitImages
  BY <1>2, <1>7 DEF ImplicitImages, Going, control
<1>8. CASE SetFlashTypes
  <2>1. phase = "flash" /\ (UNCHANGED control \/ Abandon("flash type"))
    BY <1>8 DEF SetFlashTypes
  <2>. QED  BY <1>2, <2>1 DEF Going, control
<1>9. CASE CollectMountpoints
  BY <1>2, <1>9 DEF CollectMountpoints, Going
<1>10. CASE SetupCall \/ GenerateCall
  <2>1. phase \in {"setup", "generate"} /\ (UNCHANGED control \/ Abandon("recursive"))
    BY <1>10, DescendControl DEF SetupCall, GenerateCall
  <2>. QED  BY <1>2, <2>1 DEF Going, control
<1>11. CASE SetupHandler
  BY <1>2, <1>11 DEF SetupHandler, Fails, Going, control
<1>12. CASE PreparePaths
  BY <1>2, <1>12 DEF PreparePaths, Going
<1>13. CASE SetenvError
  BY <1>2, <1>13 DEF SetenvError, Going
<1>14. CASE ExecPre
  BY <1>2, <1>14 DEF ExecPre, Fails, Going, control
<1>15. CASE GenerateHandler
  <2>1. phase = "generate" /\ (UNCHANGED control \/ Abandon("generate"))
    BY <1>15 DEF GenerateHandler, Fails
  <2>. QED  BY <1>2, <2>1 DEF Going, control
<1>16. CASE ExecPost
  BY <1>2, <1>16 DEF ExecPost, Fails, Going, control
<1>. QED  BY <1>3, <1>4, <1>5, <1>6, <1>7, <1>8, <1>9, <1>10, <1>11, <1>12, <1>13, <1>14, <1>15, <1>16,
             StepKinds DEF EarlySteps, LateSteps

\* Everything of the list has been made once the loop over it has ended.
LEMMA AllMade ==
  ASSUME TypeInv, WalkInv, MadeInv, AllGenerated
  PROVE  Range(images) \subseteq Range(made)
<1>1. phase = "generate" /\ Mark = 1 /\ Walking /\ top > Len(images)
  BY DEF AllGenerated, Mark, Walking
<1>2. images \in Seq(Files) /\ top \in Nat
  BY TypeParts DEF ListType, LoopType
<1>3. ASSUME NEW f \in Range(images) PROVE f \in Range(made)
  <2>1. PICK i \in DOMAIN images : images[i] = f
    BY <1>3 DEF Range
  <2>2. f \in Files /\ i < top
    BY <1>1, <1>2, <2>1
  <2>3. done[f] = 1
    BY <1>1, <2>1, <2>2 DEF WalkInv, Passed
  <2>. QED  BY <2>2, <2>3 DEF MadeInv
<1>. QED  BY <1>3

\* At the start the run goes well.
LEMMA InitRet == Init => RetInv
BY DEF Init, RetInv

\* Every step keeps what the return value says.
LEMMA RetStep ==
  TypeInv /\ WalkInv /\ MadeInv /\ RetInv /\ [Next]_vars => RetInv'
<1> SUFFICES ASSUME TypeInv, WalkInv, MadeInv, RetInv, [Next]_vars PROVE RetInv'
  OBVIOUS
<1>1. CASE Going /\ Going' /\ ret' = ret
  BY <1>1 DEF RetInv, Going
<1>2. CASE \E r \in Errors : Abandon(r)
  BY <1>2 DEF RetInv, Abandon, Errors
<1>3. CASE Exit
  BY <1>3 DEF RetInv, Exit
<1>4. CASE AllGenerated
  <2>1. UNCHANGED <<images, made, ret>> /\ phase' = "cleanup" /\ phase = "generate"
    BY <1>4 DEF AllGenerated, graph, walk
  <2>. QED  BY <1>4, <2>1, AllMade DEF RetInv
<1>5. CASE Cleanup
  BY <1>5 DEF Cleanup, RetInv, graph, walk
<1>6. CASE UNCHANGED vars
  BY <1>6 DEF vars, control, graph, walk, RetInv
<1>. QED  BY <1>1, <1>2, <1>3, <1>4, <1>5, <1>6, StepControl

-----------------------------------------------------------------------------
\* Whatever is done comes after its children.
LEMMA ChildrenFirstStep ==
  TypeInv /\ FreshInv /\ WalkInv /\ MadeInv /\ ChildrenFirst /\ [Next]_vars => ChildrenFirst'
<1> SUFFICES ASSUME TypeInv, FreshInv, WalkInv, MadeInv, ChildrenFirst, [Next]_vars PROVE ChildrenFirst'
  OBVIOUS
<1>0. /\ done \in [Files -> -1 .. 1] /\ made \in Seq(Files) /\ cfg' = cfg
      /\ \A f : Children(f)' = Children(f) /\ Children(f) \subseteq Files
  BY TypeParts, CfgStays, GraphStays, ChildrenType DEF MarkType, OutType, TypeInv, TypeOK
<1>1. CASE UNCHANGED <<done, made>>
  BY <1>0, <1>1 DEF ChildrenFirst
\* The current image is finished, with the mark m.
<1>2. ASSUME NEW m \in {-1, 1}, m = Mark, Walking, ChildrenDone, Finished(m), made' = made
      PROVE  ChildrenFirst'
  <2>1. done'[Current.image] = m /\ \A f \in Files : f # Current.image => done'[f] = done[f]
    BY <1>0, <1>2, CurrentImage DEF Finished
  <2>2. \A g \in Children(Current.image) : done[g] = m
    BY <1>2, CurrentImage
  <2>3. Walking => m # 0
    OBVIOUS
  <2>4. \A f \in Files : done[f] # 0 => done'[f] # 0
    BY <2>1, <1>0
  <2>5. \A f \in Files : done[f] = 1 => done'[f] = 1
    <3>1. done[Current.image] # m
      BY <1>2, CurrentImage DEF FrameInv
    <3>2. m = -1 => phase = "setup"
      BY <1>2 DEF Mark
    <3>. QED  BY <1>0, <2>1, <3>1, <3>2 DEF FreshInv
  <2>6. ASSUME NEW f \in Files, NEW g \in Children(f)
        PROVE  (done'[f] # 0 => done'[g] # 0) /\ (f \in Range(made) => done'[g] = 1)
    <3>0. g \in Files
      BY <1>0, <2>6
    <3>1. done'[f] # 0 => done'[g] # 0
      <4>1. CASE f = Current.image
        BY <2>2, <2>4, <2>6, <3>0, <4>1
      <4>2. CASE f # Current.image
        BY <2>1, <2>4, <2>6, <3>0, <4>2 DEF ChildrenFirst
      <4>. QED  BY <4>1, <4>2
    <3>2. f \in Range(made) => done'[g] = 1
      BY <2>5, <2>6, <3>0 DEF ChildrenFirst
    <3>. QED  BY <3>1, <3>2
  <2>. QED  BY <1>0, <1>2, <2>6 DEF ChildrenFirst
<1>3. CASE EarlySteps
  BY <1>1, <1>3, EarlyStep
<1>4. CASE SetupHandler
  <2>1. phase = "setup" /\ Mark = -1 /\ Walking /\ ChildrenDone
    BY <1>4 DEF SetupHandler, Mark, Walking
  <2>2. CASE Finished(-1) /\ made' = made
    BY <1>2, <2>1, <2>2
  <2>. QED  BY <1>1, <1>4, <2>2 DEF SetupHandler, Fails, graph
<1>5. CASE ExecPost
  <2>1. phase = "generate" /\ Mark = 1 /\ Walking /\ ChildrenDone
    BY <1>5 DEF ExecPost, Mark, Walking
  <2>2. CASE Finished(1) /\ made' = made
    BY <1>2, <2>1, <2>2
  <2>. QED  BY <1>1, <1>5, <2>2 DEF ExecPost, Fails, graph
<1>6. CASE GenerateHandler
  <2>1. phase = "generate" /\ Mark = 1 /\ Walking /\ ChildrenDone
    BY <1>6 DEF GenerateHandler, Mark, Walking
  <2>2. /\ Current.image \in Files /\ \A g \in Children(Current.image) : g \in Files /\ done[g] = 1
        /\ done[Current.image] # 1
    BY <2>1, CurrentImage DEF FrameInv
  <2>3. CASE made' = Append(made, Current.image) /\ (done' = done \/ done' = [done EXCEPT ![Current.image] = 1])
    <3>1. Range(made') = Range(made) \cup {Current.image}
      BY <1>0, <2>2, <2>3, AppendRange
    <3>2. \A f \in Files : (done[f] # 0 => done'[f] # 0) /\ (done[f] = 1 => done'[f] = 1)
      BY <1>0, <2>2, <2>3
    <3>3. \A f \in Files : done'[f] # 0 => done[f] # 0 \/ f = Current.image
      BY <1>0, <2>3
    <3>4. ASSUME NEW f \in Files, NEW g \in Children(f)
          PROVE  (done'[f] # 0 => done'[g] # 0) /\ (f \in Range(made') => done'[g] = 1)
      <4>0. g \in Files
        BY <1>0, <3>4
      <4>1. CASE f = Current.image
        <5>1. done'[g] = 1
          BY <2>2, <3>2, <3>4, <4>0, <4>1
        <5>. QED  BY <5>1
      <4>2. CASE f # Current.image
        <5>1. (done[f] # 0 => done[g] # 0) /\ (f \in Range(made) => done[g] = 1)
          BY <3>4 DEF ChildrenFirst
        <5>. QED  BY <3>1, <3>2, <3>3, <4>0, <4>2, <5>1
      <4>. QED  BY <4>1, <4>2
    <3>. QED  BY <1>0, <3>4 DEF ChildrenFirst
  <2>. QED  BY <1>1, <1>6, <2>3, GenerateCases DEF Finished
<1>7. CASE LateSteps /\ ~SetupHandler /\ ~ExecPost /\ ~GenerateHandler
  BY <1>1, <1>7, LateMade
<1>8. CASE UNCHANGED vars
  BY <1>1, <1>8 DEF vars, graph, walk
<1>. QED  BY <1>3, <1>4, <1>5, <1>6, <1>7, <1>8, StepKinds

\* What is made has not been made before.
LEMMA GeneratedOnceStep ==
  TypeInv /\ WalkInv /\ MadeInv /\ FreshInv /\ GeneratedOnce /\ [Next]_vars => GeneratedOnce'
<1> SUFFICES ASSUME TypeInv, WalkInv, MadeInv, FreshInv, GeneratedOnce, [Next]_vars PROVE GeneratedOnce'
  OBVIOUS
<1>0. made \in Seq(Files) /\ Range(made) \subseteq Files
  BY TypeParts DEF OutType, Range
<1>1. CASE made' = made
  BY <1>1 DEF GeneratedOnce
<1>2. CASE GenerateHandler
  <2>1. phase = "generate" /\ Mark = 1 /\ Walking /\ ChildrenDone /\ Current.stage # "made"
    BY <1>2 DEF GenerateHandler, Mark, Walking
  <2>2. Current.image \in Files /\ done[Current.image] # 1
    BY <2>1, CurrentImage DEF FrameInv
  <2>3. Current.image \notin Range(made)
    BY <1>0, <2>1, <2>2, OnlyInnermost DEF MadeInv
  <2>4. CASE made' = Append(made, Current.image)
    <3>1. PICK n \in Nat : n = Len(made)
      BY <1>0
    <3>2. DOMAIN made = 1 .. n /\ DOMAIN made' = 1 .. n + 1 /\ made'[n + 1] = Current.image
          /\ \A i \in 1 .. n : made'[i] = made[i]
      BY <1>0, <2>2, <2>4, <3>1
    <3>3. \A i \in 1 .. n : made[i] # Current.image
      BY <2>3, <3>2 DEF Range
    <3>4. \A i, j \in 1 .. n : made[i] = made[j] => i = j
      BY <3>2 DEF GeneratedOnce, IsInjective
    <3>5. \A i \in 1 .. n + 1 : i \in 1 .. n \/ i = n + 1
      OBVIOUS
    <3>6. \A i, j \in 1 .. n + 1 : made'[i] = made'[j] => i = j
      BY <3>2, <3>3, <3>4, <3>5
    <3>. QED  BY <3>2, <3>6 DEF GeneratedOnce, IsInjective
  <2>. QED  BY <1>1, <1>2, <2>4, GenerateCases
<1>3. made' = made \/ GenerateHandler
  BY StepKinds, EarlyStep, LateMade DEF vars, walk
<1>. QED  BY <1>1, <1>2, <1>3

-----------------------------------------------------------------------------
\* Only image_setup and image_generate report a recursion.
LEMMA WhoReports ==
  ASSUME [Next]_vars, ret' = "recursive"
  PROVE  ret = "recursive" \/ SetupCall \/ GenerateCall
<1>1. CASE ShowUsage \/ ConfigError \/ CheckTmpPath \/ ParseImage \/ SectionsParsed \/ PartsDone \/ ListDone
  BY <1>1 DEF ShowUsage, ConfigError, CheckTmpPath, ParseImage, SectionsParsed, PartsDone, ListDone, Abandon, Exit, control
<1>2. CASE ImplicitImages
  BY <1>2 DEF ImplicitImages, Abandon, control
<1>3. CASE SetFlashTypes
  <2>1. UNCHANGED control \/ Abandon("flash type")
    BY <1>3 DEF SetFlashTypes
  <2>. QED  BY <2>1 DEF Abandon, control
<1>4. CASE CollectMountpoints \/ PreparePaths \/ SetenvError \/ AllGenerated \/ Cleanup
  BY <1>4 DEF CollectMountpoints, PreparePaths, SetenvError, AllGenerated, Cleanup, Abandon
<1>5. CASE SetupHandler \/ ExecPre \/ ExecPost
  BY <1>5 DEF SetupHandler, ExecPre, ExecPost, Fails, Abandon, control
<1>6. CASE GenerateHandler
  <2>1. UNCHANGED control \/ Abandon("generate")
    BY <1>6 DEF GenerateHandler, Fails
  <2>. QED  BY <2>1 DEF Abandon, control
<1>7. CASE UNCHANGED vars
  BY <1>7 DEF vars, control
<1>. QED  BY <1>1, <1>2, <1>3, <1>4, <1>5, <1>6, <1>7, StepKinds DEF EarlySteps, LateSteps

\* An image with a child is declared.
LEMMA ParentDeclared ==
  ASSUME NEW f, NEW g \in Children(f)
  PROVE  f \in Declared
<1>1. CASE f \notin Declared
  <2>1. PartsOf(f) = << >>
    BY <1>1 DEF PartsOf
  <2>2. PICK n \in DOMAIN PartsOf(f) : TRUE
    BY ChildrenAre
  <2>. QED  BY <2>1, <2>2
<1>. QED  BY <1>1

\* The calls from the one for f to the innermost, which is at a partition that
\* holds f again: each of their images contains the next, the last the first.
LEMMA StackCycle ==
  ASSUME TypeInv, WalkInv, Walking, AtPart, PartAt.image # NoFile, OnStack(PartAt.image)
  PROVE  Cyclic
<1>0. calls \in Seq(ActiveCall) /\ calls # << >> /\ StackType
  BY TypeParts DEF StackType, AtPart
<1>1. PICK L \in Nat : L = Len(calls) /\ DOMAIN calls = 1 .. L
  BY <1>0
<1>2. \A j \in 1 .. L : calls[j].image \in Files
  <2>1. \A j \in 1 .. L : calls[j] \in ActiveCall
    BY <1>0, <1>1
  <2>. QED  BY <2>1 DEF ActiveCall
<1>3. PICK k \in 1 .. L : calls[k].image = PartAt.image
  BY <1>1 DEF OnStack
<1>4. PICK S : S = {calls[j].image : j \in k .. L}
  OBVIOUS
\* A call's image contains the next one's.
<1>5. ASSUME NEW j \in k .. L, j < L PROVE calls[j + 1].image \in Children(calls[j].image)
  <2>1. PICK n \in 1 .. L : n = j + 1
    BY <1>3, <1>5
  <2>2. j \in 1 .. L /\ calls[j].image \in Files /\ calls[n].image \in Files
    BY <1>2, <1>3, <1>5, <2>1
  <2>3. Link(j, calls[j].image, calls[n].image)
    BY <1>1, <1>5, <2>1, <2>2 DEF WalkInv
  <2>4. calls[n].image # NoFile
    BY <2>2, NamesAssumption
  <2>. QED  BY <2>1, <2>3, <2>4, ChildrenAre DEF Link
\* The innermost one's contains the first one's.
<1>6. calls[k].image \in Children(calls[L].image)
  <2>1. Current = calls[L] /\ Current.at \in DOMAIN PartsOf(Current.image)
    BY <1>0, <1>1, InnermostPart DEF Current
  <2>. QED  BY <1>3, <2>1, ChildrenAre DEF PartAt
<1>7. ASSUME NEW f \in S PROVE f \in Declared /\ Children(f) \cap S # {}
  <2>1. PICK j \in k .. L : f = calls[j].image
    BY <1>4, <1>7
  <2>2. CASE j < L
    <3>1. PICK n \in k .. L : n = j + 1
      BY <2>2, <1>3
    <3>2. calls[n].image \in Children(f) /\ calls[n].image \in S
      BY <1>4, <1>5, <2>1, <2>2, <3>1
    <3>. QED  BY <3>2, ParentDeclared
  <2>3. CASE j = L
    <3>1. k \in k .. L
      BY <1>3
    <3>2. calls[k].image \in Children(f) /\ calls[k].image \in S
      BY <1>4, <1>6, <2>1, <2>3, <3>1
    <3>. QED  BY <3>2, ParentDeclared
  <2>4. j < L \/ j = L
    BY <1>3
  <2>. QED  BY <2>2, <2>3, <2>4
<1>8. S # {}
  <2>1. L \in k .. L
    BY <1>3
  <2>. QED  BY <1>4, <2>1
<1>. QED  BY <1>7, <1>8 DEF Cyclic

\* Where a recursion is reported there is one.
LEMMA DescendCyclic ==
  ASSUME TypeInv, WalkInv, Walking, NEW m \in {-1, 1}, m = Mark, Descend(m), ret # "recursive",
         ret' = "recursive"
  PROVE  Cyclic
<1>1. ASSUME NEW f \in Files, Call(f, m) PROVE OnStack(f)
  <2>1. done[f] # m /\ seen[f] = m
    BY <1>1 DEF Call, control
  <2>. QED  BY <2>1 DEF WalkInv
<1>2. CASE calls = << >> /\ top <= Len(images) /\ Call(images[top], m)
  <2>1. OnStack(images[top])
    BY <1>1, <1>2, LoopImage
  <2>2. DOMAIN calls = {}
    BY <1>2
  <2>. QED  BY <2>1, <2>2 DEF OnStack
<1>3. CASE AtPart /\ PartAt.image # NoFile /\ Call(PartAt.image, m)
  <2>1. PartAt.image \in Files
    BY <1>3, TypeParts, InnermostPart
  <2>. QED  BY <1>1, <1>3, <2>1, StackCycle
<1>4. CASE UNCHANGED control
  BY <1>4 DEF control
<1>. QED  BY <1>2, <1>3, <1>4 DEF Descend

\* The report stays true.
LEMMA RecursionStep ==
  TypeInv /\ WalkInv /\ RecursionIsReal /\ [Next]_vars => RecursionIsReal'
<1> SUFFICES ASSUME TypeInv, WalkInv, RecursionIsReal, [Next]_vars, ret' = "recursive" PROVE Cyclic'
  BY DEF RecursionIsReal
<1>1. Declared' = Declared /\ \A f : Children(f)' = Children(f)
  BY CfgStays, GraphStays DEF Declared
<1>2. Cyclic
  <2>1. CASE ret = "recursive"
    BY <2>1 DEF RecursionIsReal
  <2>2. CASE ret # "recursive" /\ SetupCall
    <3>1. phase = "setup" /\ Mark = -1 /\ Walking /\ Descend(-1)
      BY <2>2 DEF SetupCall, Mark, Walking
    <3>. QED  BY <2>2, <3>1, DescendCyclic
  <2>3. CASE ret # "recursive" /\ GenerateCall
    <3>1. phase = "generate" /\ Mark = 1 /\ Walking /\ Descend(1)
      BY <2>3 DEF GenerateCall, Mark, Walking
    <3>. QED  BY <2>3, <3>1, DescendCyclic
  <2>. QED  BY <2>1, <2>2, <2>3, WhoReports
<1>. QED  BY <1>1, <1>2 DEF Cyclic

-----------------------------------------------------------------------------
(***************************************************************************)
(* The theorems.                                                           *)
(***************************************************************************)
\* The invariant holds where a run begins.
LEMMA InitPromises == Init => ChildrenFirst /\ GeneratedOnce /\ RecursionIsReal
<1> SUFFICES ASSUME Init PROVE ChildrenFirst /\ GeneratedOnce /\ RecursionIsReal
  OBVIOUS
<1>1. RecursionIsReal
  BY DEF Init, RecursionIsReal
<1>2. GeneratedOnce
  BY DEF Init, GeneratedOnce, IsInjective
<1>3. Range(made) = {} /\ \A f \in Files : done[f] = 0
  BY DEF Init, Range
<1>. QED  BY <1>1, <1>2, <1>3 DEF ChildrenFirst

\* The invariant, in every execution: no fairness is needed for it.
LEMMA GenSteps == Init /\ [][Next]_vars => []GenInv
<1>1. Init => GenInv
  BY InitTypes, InitList, InitFresh, InitWalk, InitMade, InitRet, InitPromises DEF GenInv
<1>2. GenInv /\ [Next]_vars => GenInv'
  BY TypeStep, ListStep, FreshStep, WalkStep, MadeStep, RetStep, ChildrenFirstStep, GeneratedOnceStep,
     RecursionStep DEF GenInv
<1>. QED  BY <1>1, <1>2, PTL

\* In particular in those of Spec, where the program also takes its next step.
LEMMA GenInvariant == Spec => []GenInv
BY GenSteps, PTL DEF Spec

\* Nobody is set up or generated before what it contains: the marks done and
\* seen of image_setup and image_generate do their work for every graph of images.
THEOREM ContainedFirst == Spec => []ChildrenFirst
<1>1. GenInv => ChildrenFirst
  BY DEF GenInv
<1>. QED  BY <1>1, GenInvariant, PTL

\* Each image is generated once, however many images contain it.
THEOREM MadeOnce == Spec => []GeneratedOnce
<1>1. GenInv => GeneratedOnce
  BY DEF GenInv
<1>. QED  BY <1>1, GenInvariant, PTL

\* "recursive dependency detected" is reported only for images that do contain
\* each other.
THEOREM RecursionReported == Spec => []RecursionIsReal
<1>1. GenInv => RecursionIsReal
  BY DEF GenInv
<1>. QED  BY <1>1, GenInvariant, PTL

-----------------------------------------------------------------------------
(***************************************************************************)
(* The program implements BuildOrder.                                      *)
(***************************************************************************)
\* The state of the program as that specification sees it.
Needs == [f \in Files |-> Children(f)]
Wanted == IF phase \in {"setup", "generate", "cleanup", "over"} /\ ret \notin {"exit"}
          THEN Range(images) ELSE {}
Built == Range(made)
Outcome == IF phase # "over" THEN "running" ELSE IF ret = "ok" THEN "ok" ELSE "failed"

\* Its steps, in these terms.
LEMMA OrderIs ==
  /\ Order!Init <=> Needs \in [Files -> SUBSET Files] /\ Wanted = {} /\ Built = {} /\ Outcome = "running"
  /\ Order!Want <=> /\ Outcome = "running" /\ Wanted = {} /\ Built = {}
                    /\ Wanted' \subseteq Files
                    /\ Built' = Built /\ Outcome' = Outcome
  /\ Order!Build <=> /\ Outcome = "running" /\ Outcome' = "running" /\ Wanted' = Wanted
                     /\ \E f \in Wanted \ Built : Needs[f] \subseteq Built /\ Built' = Built \cup {f}
  /\ Order!Finish <=> /\ Outcome = "running" /\ Outcome' = "ok" /\ Built = Wanted
                      /\ Wanted' = Wanted /\ Built' = Built
  /\ Order!Fail <=> Outcome = "running" /\ Outcome' = "failed" /\ Wanted' = Wanted /\ Built' = Built
  /\ Order!Next <=> (Order!Want \/ Order!Build \/ Order!Finish \/ Order!Fail) /\ Needs' = Needs
BY DEF Order!Init, Order!Want, Order!Build, Order!Finish, Order!Fail, Order!Next,
       Needs, Wanted, Built, Outcome

\* It starts where that specification starts.
LEMMA OrderInit == Init => Order!Init
<1> SUFFICES ASSUME Init PROVE Order!Init
  OBVIOUS
<1>1. Wanted = {} /\ Outcome = "running"
  BY DEF Init, Wanted, Outcome
<1>2. Built = {}
  BY DEF Init, Built, Range
<1>3. cfg \in Seq(Section)
  BY ConfigsAssumption DEF Init
<1>4. Needs \in [Files -> SUBSET Files]
  BY <1>3, ChildrenType DEF Needs
<1>. QED  BY <1>1, <1>2, <1>4, OrderIs

\* An image made now was wanted, had not been built, and contains only built ones.
LEMMA BuildStep ==
  ASSUME TypeInv, FreshInv, WalkInv, MadeInv, RetInv, GenerateHandler, made' = Append(made, Current.image),
         UNCHANGED <<cfg, control, images>>
  PROVE  Order!Build
<1>1. phase = "generate" /\ Mark = 1 /\ Walking /\ ChildrenDone /\ Current.stage # "made" /\ ret = "ok"
  BY DEF GenerateHandler, Mark, Walking, RetInv
<1>2. /\ Current.image \in Files /\ Current.image \in Range(images) /\ done[Current.image] # 1
      /\ \A g \in Children(Current.image) : g \in Files /\ done[g] = 1
  BY <1>1, CurrentImage DEF FrameInv
<1>3. made \in Seq(Files) /\ Range(made) \subseteq Files
  BY TypeParts DEF OutType, Range
<1>4. Current.image \notin Range(made)
  BY <1>1, <1>2, OnlyInnermost DEF MadeInv
<1>5. Range(made') = Range(made) \cup {Current.image}
  BY <1>2, <1>3, AppendRange
<1>6. Needs[Current.image] \subseteq Built
  BY <1>2 DEF MadeInv, Needs, Built
<1>7. Wanted = Range(images) /\ Wanted' = Wanted /\ Outcome = "running" /\ Outcome' = "running"
  BY <1>1 DEF Wanted, Outcome, control
<1>. QED  BY <1>2, <1>4, <1>5, <1>6, <1>7, OrderIs DEF Built

\* Every step is one of that specification, or is not seen by it.
LEMMA OrderStep ==
  ASSUME TypeInv, FreshInv, WalkInv, MadeInv, RetInv, [Next]_vars
  PROVE  Order!Next \/ UNCHANGED <<Needs, Wanted, Built, Outcome>>
<1>1. TypeInv' /\ cfg' = cfg /\ Needs' = Needs
  BY TypeStep, CfgStays, GraphStays DEF Needs
<1>2. Range(images') \subseteq Files
  BY <1>1, TypePartsNext DEF ListType, Range
\* Until the images are known nothing is wanted.
<1>3. CASE EarlySteps
  <2>1. Early /\ Wanted = {} /\ Outcome = "running"
    BY <1>3, EarlyStep DEF Early, EarlyPhases, Wanted, Outcome
  <2>2. Built = {} /\ Built' = {}
    <3>1. made = << >> /\ made' = << >>
      BY <1>3, <2>1, EarlyStep DEF FreshInv
    <3>. QED  BY <3>1 DEF Built, Range
  <2>3. CASE phase' # "over"
    <3>1. Outcome' = "running" /\ Wanted' \subseteq Files
      BY <1>2, <2>3 DEF Outcome, Wanted
    <3>. QED  BY <1>1, <2>1, <2>2, <3>1, OrderIs
  <2>4. CASE phase' = "over"
    <3>1. Exit
      BY <2>1, <2>4, StepControl DEF Going, Abandon, AllGenerated, Cleanup, Early, EarlyPhases, vars, control
    <3>2. Outcome' = "failed" /\ Wanted' = {}
      BY <3>1 DEF Exit, Outcome, Wanted
    <3>. QED  BY <1>1, <2>1, <2>2, <3>2, OrderIs
  <2>. QED  BY <2>3, <2>4
\* From then on the list is what is wanted.
<1>4. CASE LateSteps /\ made' = made
  <2>1. /\ images' = images /\ phase \in {"setup", "generate", "cleanup"} /\ ret # "exit"
        /\ phase' \in {"setup", "generate", "cleanup", "over"}
    BY <1>4, LateStep DEF RetInv
  <2>2. Wanted = Range(images) /\ Outcome = "running" /\ Built' = Built
    BY <1>4, <2>1 DEF Wanted, Outcome, Built
  <2>3. ASSUME ret' # "exit" PROVE Wanted' = Wanted
    BY <2>1, <2>2, <2>3 DEF Wanted
  <2>4. CASE Going /\ Going' /\ ret' = ret
    BY <1>1, <2>1, <2>2, <2>3, <2>4 DEF Going, Outcome
  <2>5. CASE \E r \in Errors : Abandon(r)
    BY <1>1, <2>1, <2>2, <2>3, <2>5 DEF Abandon, Errors, Outcome
  <2>6. CASE AllGenerated
    BY <1>1, <2>1, <2>2, <2>3, <2>6 DEF AllGenerated, Outcome
  <2>7. CASE Cleanup
    <3>1. phase = "cleanup" /\ phase' = "over" /\ ret' = ret
      BY <2>7 DEF Cleanup
    <3>2. CASE ret = "ok"
      <4>1. Built = Wanted
        BY <2>2, <3>1, <3>2 DEF RetInv, MadeInv, Built
      <4>2. Outcome' = "ok"
        BY <3>1, <3>2 DEF Outcome
      <4>. QED  BY <1>1, <2>1, <2>2, <2>3, <3>1, <4>1, <4>2, OrderIs
    <3>3. CASE ret # "ok"
      <4>1. Outcome' = "failed"
        BY <3>1, <3>3 DEF Outcome
      <4>. QED  BY <1>1, <2>1, <2>2, <2>3, <3>1, <4>1, OrderIs
    <3>. QED  BY <3>2, <3>3
  <2>8. CASE UNCHANGED vars
    BY <1>1, <2>8 DEF vars, control, graph, walk, Wanted, Built, Outcome
  <2>. QED  BY <2>1, <2>4, <2>5, <2>6, <2>7, <2>8, StepControl
<1>5. CASE GenerateHandler
  <2>1. CASE made' = made
    BY <1>4, <1>5, <2>1 DEF LateSteps
  <2>2. CASE made' = Append(made, Current.image) /\ phase' = phase
             /\ UNCHANGED <<cfg, control, images, seen, flash, holes, part, tmpdir>>
    BY <1>1, <1>5, <2>2, BuildStep, OrderIs
  <2>. QED  BY <1>5, <2>1, <2>2, GenerateCases
<1>6. CASE UNCHANGED vars
  BY <1>1, <1>6 DEF vars, control, graph, walk, Wanted, Built, Outcome
<1>. QED  BY <1>3, <1>4, <1>5, <1>6, StepKinds, LateMade

\* Step by step.
LEMMA OrderSteps == Init /\ [][Next]_vars => BuildsInOrder
<1>1. GenInv /\ [Next]_vars => [Order!Next]_<<Needs, Wanted, Built, Outcome>>
  BY OrderStep DEF GenInv
<1>. QED  BY <1>1, OrderInit, GenSteps, PTL DEF BuildsInOrder, Order!Spec, Needs, Wanted, Built, Outcome

\* The program implements BuildOrder: every image at most once, after everything
\* it contains, and success only when all of them are built.
THEOREM ImplementsBuildOrder == Spec => BuildsInOrder
BY OrderSteps, PTL DEF Spec
=====
