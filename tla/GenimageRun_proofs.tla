------------------------- MODULE GenimageRun_proofs -------------------------
(***************************************************************************)
(* A run of genimage implements Genimage, so all that is proved of the     *)
(* walk over the images holds of runs with options, mountpoints and        *)
(* commands too; the paths of a run are settled before their first use;    *)
(* and the root file system is divided among the images as it should be.   *)
(***************************************************************************)
EXTENDS GenimageRun, Genimage_proofs, WellFoundedInduction, TLAPS

\* The steps of other modules are nothing to Genimage, the others are its own.
LEMMA RunStepIsGenimages == [RunNext]_runVars => [Next]_vars
<1> SUFFICES ASSUME [RunNext]_runVars PROVE [Next]_vars
  OBVIOUS
<1>1. CASE ReadOptions \/ CopyRootPath \/ Mount \/ StartCommands \/ RunCommand \/ RunOver \/ UNCHANGED runVars
  BY <1>1 DEF ReadOptions, CopyRootPath, Mount, StartCommands, RunCommand, RunOver, runVars
<1>2. CASE ShowHelp \/ IncludeOrParseError \/ FirstUseOfTmppath \/ ParseSection \/ EndMounting
           \/ SetupImage \/ ExportPaths \/ EndCommands \/ GenerateOther
  BY <1>2 DEF ShowHelp, IncludeOrParseError, FirstUseOfTmppath, ParseSection, EndMounting,
              SetupImage, ExportPaths, EndCommands, GenerateOther, Next, Step
<1>3. CASE (SectionsParsed \/ ImplicitImages \/ SetFlashTypes \/ PartsDone \/ ListDone
              \/ SetupCall \/ GenerateCall \/ SetenvError \/ ExecPre \/ ExecPost \/ AllGenerated \/ Cleanup) /\ Others
  BY <1>3 DEF Next, Step
<1>. QED  BY <1>1, <1>2, <1>3 DEF RunNext, RunStep

\* A run starts where Genimage does.
LEMMA RunInitIsGenimages == RunInit => Init
BY DEF RunInit

\* A run of genimage implements Genimage: the options, the division of the root
\* file system and the commands of the handlers change nothing about the walk.
THEOREM RunImplementsGenimage == RunSpec => Init /\ [][Next]_vars
BY RunStepIsGenimages, RunInitIsGenimages, PTL DEF RunSpec

\* Hence in a run nothing is set up or generated before what it contains, nothing
\* is generated twice, and a reported recursion is real.
THEOREM RunWalksSafely == RunSpec => [](TypeOK /\ ChildrenFirst /\ GeneratedOnce /\ RecursionIsReal)
<1>1. GenInv => TypeOK /\ ChildrenFirst /\ GeneratedOnce /\ RecursionIsReal
  BY TypeParts DEF GenInv, TypeInv
<1>. QED  BY <1>1, RunImplementsGenimage, GenSteps, PTL

\* And a run builds the images as BuildOrder promises.
THEOREM RunBuildsInOrder == RunSpec => BuildsInOrder
BY RunImplementsGenimage, OrderSteps, PTL

-----------------------------------------------------------------------------
(***************************************************************************)
(* The options.                                                            *)
(***************************************************************************)
\* The last of four values that is set.
LEMMA LatestOfFour ==
  ASSUME NEW v, NEW a, NEW b, NEW c, NEW e
  PROVE  Latest(v, <<a, b, c, e>>) =
           IF e # Unset THEN e ELSE IF c # Unset THEN c ELSE IF b # Unset THEN b
           ELSE IF a # Unset THEN a ELSE v
<1> DEFINE s == <<a, b, c, e>>
           set == {i \in 1 .. Len(s) : s[i] # Unset}
           last == IF set # {} THEN Max(set) ELSE 0
<1>1. Len(s) = 4 /\ s[1] = a /\ s[2] = b /\ s[3] = c /\ s[4] = e
  OBVIOUS
<1>2. Latest(v, s) = IF last = 0 THEN v ELSE s[last]
  BY DEF Latest, SelectLastInSeq
<1>3. set \subseteq 1 .. 4
  BY <1>1
<1>4. ASSUME NEW m \in set, \A i \in set : m >= i
      PROVE  last = m
  <2>1. \A k \in set : (\A i \in set : k >= i) => k = m
    BY <1>3, <1>4
  <2>. QED  BY <1>4, <2>1 DEF Max
<1>. HIDE DEF s, last
<1>5. CASE e # Unset
  <2>1. 4 \in set /\ \A i \in set : 4 >= i
    BY <1>1, <1>3, <1>5
  <2>. QED  BY <1>1, <1>2, <1>4, <1>5, <2>1 DEF s
<1>6. CASE e = Unset /\ c # Unset
  <2>1. 3 \in set /\ \A i \in set : 3 >= i
    BY <1>1, <1>3, <1>6
  <2>. QED  BY <1>1, <1>2, <1>4, <1>6, <2>1 DEF s
<1>7. CASE e = Unset /\ c = Unset /\ b # Unset
  <2>1. 2 \in set /\ \A i \in set : 2 >= i
    BY <1>1, <1>3, <1>7
  <2>. QED  BY <1>1, <1>2, <1>4, <1>7, <2>1 DEF s
<1>8. CASE e = Unset /\ c = Unset /\ b = Unset /\ a # Unset
  <2>1. 1 \in set /\ \A i \in set : 1 >= i
    BY <1>1, <1>3, <1>8
  <2>. QED  BY <1>1, <1>2, <1>4, <1>8, <2>1 DEF s
<1>9. CASE e = Unset /\ c = Unset /\ b = Unset /\ a = Unset
  <2>1. set = {}
    BY <1>1, <1>3, <1>9
  <2>. QED  BY <1>2, <1>9, <2>1 DEF s, last
<1>. QED  BY <1>5, <1>6, <1>7, <1>8, <1>9 DEF s

\* The second pass leaves every path with the value of its strongest source.
LEMMA SecondPassSettles ==
  ASSUME SetConfigOpts(TRUE), NEW n \in Paths
  PROVE  value'[n] = Strongest(n)
<1>1. n \in OptionNames /\ Default[n] # Unset
  BY OptionsAssumption
<1>2. value'[n] = Latest(value[n], <<Default[n], given.env[n], FromFile(n), FromArgs(n)>>)
  BY <1>1 DEF SetConfigOpts
<1>. QED  BY <1>1, <1>2, LatestOfFour DEF Strongest

\* The paths are used only once the options are settled, and what a use keeps is
\* the settled value.
SettledPhases == {"parse", "implicit", "flash", "mount", "setup", "generate"}

OptionsInv ==
  /\ phase \in SettledPhases => opc = "settled"
  /\ opc # "settled" => \A n \in Paths : cached[n] = Unset
  /\ opc = "settled" => \A n \in Paths : value[n] = Strongest(n)
  /\ PathsSettled

\* What the sources say does not change.
LEMMA SourcesStay == given' = given => \A n : Strongest(n)' = Strongest(n)
<1> SUFFICES ASSUME given' = given, NEW n PROVE Strongest(n)' = Strongest(n)
  OBVIOUS
<1>1. TakenArgs' = TakenArgs
  BY DEF TakenArgs, SelectInSeq, Ends
<1>2. FromArgs(n)' = FromArgs(n)
  BY <1>1 DEF FromArgs, SelectLastInSeq
<1>3. FromFile(n)' = FromFile(n)
  BY DEF FromFile
<1>. QED  BY <1>2, <1>3 DEF Strongest

\* The steps in which a path is used, and those that have nothing to do with options.
UsesPaths == FirstUseOfTmppath \/ ParseSection \/ CopyRootPath \/ SetupImage \/ ExportPaths

\* A path is used by a program that has settled its options, and kept.
LEMMA UsesKeep ==
  ASSUME OptionsInv, UsesPaths
  PROVE  given' = given /\ opc = "settled" /\ \E ns : Keep(ns)
<1>1. given' = given /\ \E ns : Keep(ns)
  BY DEF UsesPaths, FirstUseOfTmppath, ParseSection, CopyRootPath, SetupImage, ExportPaths, inputs
<1>2. opc = "settled" \/ phase \in {"parse", "mount", "setup"}
  BY DEF UsesPaths, FirstUseOfTmppath, ParseSection, ParseImage, CopyRootPath, SetupImage, SetupHandler,
         ExportPaths, PreparePaths
<1>. QED  BY <1>1, <1>2 DEF OptionsInv, SettledPhases

\* Every other step leaves the options alone or is one of their passes.
LEMMA OptionCases ==
  [RunNext]_runVars => ReadOptions \/ UsesPaths \/ (given' = given /\ UNCHANGED options)
BY DEF RunNext, RunStep, UsesPaths, ShowHelp, IncludeOrParseError, Mount, EndMounting, StartCommands, RunCommand,
       EndCommands, GenerateOther, Others, RunOver, inputs, runVars

\* No step enters the phases behind the options but one after them.
LEMMA PhasesBehind ==
  ASSUME [RunNext]_runVars, phase' \in SettledPhases
  PROVE  phase \in SettledPhases \/ opc = "settled"
<1>1. CASE ReadOptions \/ CopyRootPath \/ Mount \/ StartCommands \/ RunCommand \/ RunOver \/ UNCHANGED runVars
  BY <1>1 DEF ReadOptions, CopyRootPath, Mount, StartCommands, RunCommand, RunOver, runVars, vars, control
<1>2. CASE ShowHelp \/ IncludeOrParseError \/ FirstUseOfTmppath
  BY <1>2 DEF ShowHelp, ShowUsage, IncludeOrParseError, ConfigError, Abandon, Exit, FirstUseOfTmppath, SettledPhases
<1>3. CASE ParseSection \/ EndMounting \/ SetupImage \/ ExportPaths \/ EndCommands \/ GenerateOther
  BY <1>3 DEF ParseSection, ParseImage, EndMounting, CollectMountpoints, SetupImage, SetupHandler, ExportPaths,
              PreparePaths, EndCommands, GenerateOther, GenerateHandler, SettledPhases
<1>4. CASE SectionsParsed \/ ImplicitImages \/ SetFlashTypes \/ PartsDone \/ ListDone
             \/ SetupCall \/ GenerateCall \/ SetenvError \/ ExecPre \/ ExecPost \/ AllGenerated \/ Cleanup
  BY <1>4 DEF SectionsParsed, ImplicitImages, SetFlashTypes, PartsDone, ListDone, SetupCall, GenerateCall,
              SetenvError, ExecPre, ExecPost, AllGenerated, Cleanup, SettledPhases
<1>. QED  BY <1>1, <1>2, <1>3, <1>4 DEF RunNext, RunStep

\* Every step keeps the invariant of the options.
LEMMA OptionsStep == OptionsInv /\ [RunNext]_runVars => OptionsInv'
<1> SUFFICES ASSUME OptionsInv, [RunNext]_runVars PROVE OptionsInv'
  OBVIOUS
<1>1. ASSUME given' = given,
             opc = "settled" => opc' = "settled",
             opc' # "settled" => \A n \in Paths : cached'[n] = Unset,
             opc' = "settled" => \A n \in Paths : value'[n] = Strongest(n),
             \A n \in Paths : cached'[n] # Unset => cached'[n] = Strongest(n)
      PROVE  OptionsInv'
  <2>1. phase' \in SettledPhases => opc' = "settled"
    BY <1>1, PhasesBehind DEF OptionsInv
  <2>2. \A n : Strongest(n)' = Strongest(n)
    BY <1>1, SourcesStay
  <2>. QED  BY <1>1, <2>1, <2>2 DEF OptionsInv, PathsSettled
<1>2. CASE UNCHANGED options /\ given' = given
  BY <1>1, <1>2 DEF options, OptionsInv, PathsSettled
<1>3. CASE UsesPaths
  <2>1. PICK ns : Keep(ns)
    BY <1>3, UsesKeep
  <2>2. given' = given /\ opc = "settled" /\ UNCHANGED <<opc, value>>
    BY <1>3, <2>1, UsesKeep DEF Keep
  <2>3. \A n \in Paths : cached'[n] \in {Kept(n), cached[n]}
    BY <2>1 DEF Keep
  <2>4. \A n \in Paths : cached'[n] # Unset => cached'[n] = Strongest(n)
    BY <2>2, <2>3 DEF Kept, OptionsInv, PathsSettled
  <2>. QED  BY <1>1, <2>2, <2>4 DEF OptionsInv
<1>4. CASE ReadOptions
  <2>1. given' = given /\ cached' = cached /\ opc # "settled"
    BY <1>4 DEF ReadOptions, FirstPass, ParseConfig, SecondPass, inputs
  <2>2. opc' = "settled" => \A n \in Paths : value'[n] = Strongest(n)
    BY <1>4, SecondPassSettles DEF ReadOptions, FirstPass, ParseConfig, SecondPass
  <2>. QED  BY <1>1, <2>1, <2>2 DEF OptionsInv
<1>. QED  BY <1>2, <1>3, <1>4, OptionCases

LEMMA OptionsStart == RunInit => OptionsInv
BY DEF RunInit, Init, OptionsInit, OptionsInv, PathsSettled, SettledPhases

\* A path is used with the value of its strongest source, wherever it is used
\* first: nothing but the order of the calls in GenimageWrapper makes it so.
THEOREM PathsAreSettled == RunSpec => []PathsSettled
<1>1. RunInit => OptionsInv
  BY OptionsStart
<1>2. OptionsInv => PathsSettled
  BY DEF OptionsInv
<1>. QED  BY <1>1, <1>2, OptionsStep, PTL DEF RunSpec

-----------------------------------------------------------------------------
(***************************************************************************)
(* Paths: the directory one names, and what is below it.                   *)
(***************************************************************************)
\* A set of numbers has a least one.
LEMMA LeastOf ==
  ASSUME NEW S \in SUBSET Nat, S # {}
  PROVE  \E x \in S : \A y \in S : x <= y
<1>1. PICK x \in S : \A y \in S : ~ (<<y, x>> \in OpToRel(<, Nat))
  BY NatLessThanWellFounded, WFMin
<1>2. ASSUME NEW y \in S, y < x PROVE FALSE
  <2>1. <<y, x>> \in Nat \X Nat /\ <<y, x>>[1] < <<y, x>>[2]
    BY <1>2
  <2>2. <<y, x>> \in {ss \in Nat \X Nat : ss[1] < ss[2]}
    BY <2>1, Zenon
  <2>. QED  BY <1>1, <2>2 DEF OpToRel
<1>. QED  BY <1>2

\* The sequences FlattenSeq puts together on its way.
Flattened(s) ==
  CHOOSE f : f = [i \in 1 .. Len(s) |-> IF i = 1 THEN s[i] ELSE f[i - 1] \o s[i]]

FlattenUpTo(s, n, f) == f = [i \in 1 .. n |-> IF i = 1 THEN s[i] ELSE f[i - 1] \o s[i]]

LEMMA FlattenExists ==
  ASSUME NEW s, NEW n \in Nat
  PROVE  \E f : FlattenUpTo(s, n, f)
<1> DEFINE Bad == {k \in Nat : ~ \E f : FlattenUpTo(s, k, f)}
<1>1. SUFFICES ASSUME Bad # {} PROVE FALSE
  OBVIOUS
<1>2. PICK m \in Bad : \A k \in Bad : m <= k
  <2>1. Bad \in SUBSET Nat
    OBVIOUS
  <2>. QED  BY <1>1, <2>1, LeastOf
<1>3. m \in Nat /\ ~ \E f : FlattenUpTo(s, m, f)
  OBVIOUS
<1>4. CASE m = 0
  <2>1. PICK f : f = [i \in 1 .. 0 |-> s[i]]
    OBVIOUS
  <2>2. FlattenUpTo(s, 0, f)
    BY <2>1 DEF FlattenUpTo
  <2>. QED  BY <1>3, <1>4, <2>2
<1>5. CASE m # 0
  <2>1. m - 1 \in Nat /\ m - 1 \notin Bad
    BY <1>2, <1>3, <1>5
  <2>2. PICK g : FlattenUpTo(s, m - 1, g)
    BY <2>1
  <2>3. PICK f : f = [i \in 1 .. m |-> IF i = 1 THEN s[i] ELSE g[i - 1] \o s[i]]
    OBVIOUS
  <2>4. g = [i \in 1 .. m - 1 |-> IF i = 1 THEN s[i] ELSE g[i - 1] \o s[i]]
    BY <2>2 DEF FlattenUpTo
  <2>5. ASSUME NEW i \in 1 .. m - 1 PROVE f[i] = g[i]
    <3>1. i \in 1 .. m
      BY <1>3
    <3>2. f[i] = IF i = 1 THEN s[i] ELSE g[i - 1] \o s[i]
      BY <2>3, <3>1
    <3>3. g[i] = IF i = 1 THEN s[i] ELSE g[i - 1] \o s[i]
      BY <2>4
    <3>. QED  BY <3>2, <3>3
  <2>6. \A i \in 1 .. m : (IF i = 1 THEN s[i] ELSE g[i - 1] \o s[i]) = IF i = 1 THEN s[i] ELSE f[i - 1] \o s[i]
    <3> SUFFICES ASSUME NEW i \in 1 .. m, i # 1 PROVE g[i - 1] = f[i - 1]
      OBVIOUS
    <3>1. i - 1 \in 1 .. m - 1
      BY <1>3
    <3>. QED  BY <2>5, <3>1
  <2>7. f = [i \in 1 .. m |-> IF i = 1 THEN s[i] ELSE f[i - 1] \o s[i]]
    BY <2>3, <2>6
  <2>. QED  BY <1>3, <2>7 DEF FlattenUpTo
<1>. QED  BY <1>4, <1>5

LEMMA FlattenedSteps ==
  ASSUME NEW s, Len(s) \in Nat
  PROVE  /\ \A i \in 1 .. Len(s) : Flattened(s)[i] = IF i = 1 THEN s[i] ELSE Flattened(s)[i - 1] \o s[i]
         /\ Len(s) > 0 => FlattenSeq(s) = Flattened(s)[Len(s)]
<1>1. \E f : f = [i \in 1 .. Len(s) |-> IF i = 1 THEN s[i] ELSE f[i - 1] \o s[i]]
  BY FlattenExists DEF FlattenUpTo
<1>2. PICK f : f = Flattened(s)
  OBVIOUS
<1>3. f = [i \in 1 .. Len(s) |-> IF i = 1 THEN s[i] ELSE f[i - 1] \o s[i]]
  BY <1>1, <1>2, Zenon DEF Flattened
<1>4. Len(s) > 0 => FlattenSeq(s) = Flattened(s)[Len(s)]
  BY DEF FlattenSeq, Flattened
<1>. QED  BY <1>2, <1>3, <1>4

\* What is put together holds what the pieces hold.
LEMMA FlattenType ==
  ASSUME NEW Values, NEW s, Len(s) \in Nat, \A i \in 1 .. Len(s) : s[i] \in Seq(Values), Len(s) = 0 => s = << >>
  PROVE  FlattenSeq(s) \in Seq(Values)
<1> DEFINE Bad == {k \in 1 .. Len(s) : Flattened(s)[k] \notin Seq(Values)}
<1>1. Bad = {}
  <2>1. SUFFICES ASSUME Bad # {} PROVE FALSE
    OBVIOUS
  <2>2. PICK m \in Bad : \A k \in Bad : m <= k
    <3>1. Bad \in SUBSET Nat
      OBVIOUS
    <3>. QED  BY <2>1, <3>1, LeastOf
  <2>3. PICK f : f = Flattened(s)
    OBVIOUS
  <2>4. m \in 1 .. Len(s) /\ f[m] \notin Seq(Values)
    BY <2>3
  <2>5. f[m] = IF m = 1 THEN s[m] ELSE f[m - 1] \o s[m]
    BY <2>3, <2>4, FlattenedSteps
  <2>6. m # 1 /\ f[m] = f[m - 1] \o s[m]
    BY <2>4, <2>5
  <2>7. m - 1 \in 1 .. Len(s) /\ ~(m <= m - 1)
    BY <2>4, <2>6
  <2>8. f[m - 1] \in Seq(Values)
    BY <2>2, <2>3, <2>7
  <2>9. s[m] \in Seq(Values)
    BY <2>4
  <2>10. f[m - 1] \o s[m] \in Seq(Values)
    BY <2>8, <2>9, ConcatProperties
  <2>. QED  BY <2>4, <2>6, <2>10
<1>2. CASE Len(s) = 0
  BY <1>2 DEF FlattenSeq
<1>3. CASE Len(s) # 0
  <2>1. Len(s) > 0 /\ Len(s) \in 1 .. Len(s)
    BY <1>3
  <2>2. FlattenSeq(s) = Flattened(s)[Len(s)]
    BY <2>1, FlattenedSteps
  <2>. QED  BY <1>1, <2>1, <2>2
<1>. QED  BY <1>2, <1>3

\* The directory of a path is a path; the empty path names the root.
LEMMA DirType ==
  ASSUME NEW p \in Path
  PROVE  DirOf(p) \in Path
<1>1. PICK s : s = [i \in DOMAIN p |-> IF p[i] = EmptyName THEN << >> ELSE <<p[i]>>]
  OBVIOUS
<1>2. /\ Len(p) \in Nat /\ DOMAIN p = 1 .. Len(p) /\ \A i \in 1 .. Len(p) : p[i] \in Seq(STRING)
  BY DEF Path
<1>3. PICK n \in Nat : n = Len(p) /\ s = [i \in 1 .. n |-> IF p[i] = EmptyName THEN << >> ELSE <<p[i]>>]
  BY <1>1, <1>2
<1>4. Len(s) = n /\ (n = 0 => s = << >>)
  BY <1>3
<1>5. \A i \in 1 .. n : s[i] \in Path
  <2> SUFFICES ASSUME NEW i \in 1 .. n PROVE s[i] \in Path
    OBVIOUS
  <2>1. s[i] = IF p[i] = EmptyName THEN << >> ELSE <<p[i]>>
    BY <1>3
  <2>2. p[i] \in Seq(STRING)
    BY <1>2, <1>3
  <2>3. <<p[i]>> \in Seq(Seq(STRING)) /\ << >> \in Seq(Seq(STRING))
    BY <2>2
  <2>. QED  BY <2>1, <2>3 DEF Path
<1>6. FlattenSeq(s) \in Path
  BY <1>4, <1>5, FlattenType DEF Path
<1>. QED  BY <1>1, <1>6 DEF DirOf

LEMMA DirOfRoot == DirOf(<< >>) = << >>
<1>1. PICK s : s = [i \in DOMAIN << >> |-> IF << >>[i] = EmptyName THEN << >> ELSE <<<< >>[i]>>]
  OBVIOUS
<1>2. s = << >>
  BY <1>1
<1>3. FlattenSeq(s) = << >>
  BY <1>2 DEF FlattenSeq
<1>. QED  BY <1>1, <1>3 DEF DirOf

-----------------------------------------------------------------------------
(***************************************************************************)
(* The list of the mountpoints.                                            *)
(***************************************************************************)
\* The lists add_mountpoint makes on the way.
ListUpTo(l, n, g) == g = [i \in 0 .. n |-> IF i = 0 THEN << >> ELSE AddMountpoint(g[i - 1], MountOf(l[i]))]

LEMMA ListExists ==
  ASSUME NEW l, NEW n \in Nat
  PROVE  \E g : ListUpTo(l, n, g)
<1> DEFINE Bad == {k \in Nat : ~ \E g : ListUpTo(l, k, g)}
<1>1. SUFFICES ASSUME Bad # {} PROVE FALSE
  OBVIOUS
<1>2. PICK k \in Bad : \A j \in Bad : k <= j
  <2>1. Bad \in SUBSET Nat
    OBVIOUS
  <2>. QED  BY <1>1, <2>1, LeastOf
<1>3. k \in Nat /\ ~ \E g : ListUpTo(l, k, g)
  OBVIOUS
<1>4. CASE k = 0
  <2>1. PICK g : g = [i \in 0 .. 0 |-> << >>]
    OBVIOUS
  <2>2. g = [i \in 0 .. 0 |-> IF i = 0 THEN << >> ELSE AddMountpoint(g[i - 1], MountOf(l[i]))]
    BY <2>1
  <2>3. ListUpTo(l, 0, g)
    BY <2>2 DEF ListUpTo
  <2>. QED  BY <1>3, <1>4, <2>3
<1>5. CASE k # 0
  <2>1. k - 1 \in Nat /\ k - 1 \notin Bad
    BY <1>2, <1>3, <1>5
  <2>2. PICK g : ListUpTo(l, k - 1, g)
    BY <2>1
  <2>3. PICK f : f = [i \in 0 .. k |-> IF i = 0 THEN << >> ELSE AddMountpoint(g[i - 1], MountOf(l[i]))]
    OBVIOUS
  <2>4. g = [i \in 0 .. k - 1 |-> IF i = 0 THEN << >> ELSE AddMountpoint(g[i - 1], MountOf(l[i]))]
    BY <2>2 DEF ListUpTo
  <2>5. ASSUME NEW i \in 0 .. k - 1 PROVE f[i] = g[i]
    <3>1. i \in 0 .. k
      BY <1>3
    <3>2. f[i] = IF i = 0 THEN << >> ELSE AddMountpoint(g[i - 1], MountOf(l[i]))
      BY <2>3, <3>1
    <3>3. g[i] = IF i = 0 THEN << >> ELSE AddMountpoint(g[i - 1], MountOf(l[i]))
      BY <2>4
    <3>. QED  BY <3>2, <3>3
  <2>6. \A i \in 0 .. k : (IF i = 0 THEN << >> ELSE AddMountpoint(g[i - 1], MountOf(l[i])))
                          = IF i = 0 THEN << >> ELSE AddMountpoint(f[i - 1], MountOf(l[i]))
    <3> SUFFICES ASSUME NEW i \in 0 .. k, i # 0 PROVE g[i - 1] = f[i - 1]
      OBVIOUS
    <3>1. i - 1 \in 0 .. k - 1
      BY <1>3
    <3>. QED  BY <2>5, <3>1
  <2>7. f = [i \in 0 .. k |-> IF i = 0 THEN << >> ELSE AddMountpoint(f[i - 1], MountOf(l[i]))]
    BY <2>3, <2>6
  <2>. QED  BY <1>3, <2>7 DEF ListUpTo
<1>. QED  BY <1>4, <1>5

\* The list l is the paths S, once each, without the root.
ListIs(l, S) ==
  /\ l \in Seq(Path)
  /\ \A i, j \in 1 .. Len(l) : l[i] = l[j] => i = j
  /\ \A p : (\E i \in 1 .. Len(l) : l[i] = p) <=> p \in S /\ p # << >>

LEMMA AddKeepsList ==
  ASSUME NEW l, NEW S, ListIs(l, S), NEW p \in Path
  PROVE  ListIs(AddMountpoint(l, p), S \cup {p})
<1>1. l \in Seq(Path) /\ Len(l) \in Nat /\ DOMAIN l = 1 .. Len(l)
  BY DEF ListIs
<1>2. p \in Range(l) <=> \E i \in 1 .. Len(l) : l[i] = p
  BY <1>1 DEF Range
<1>3. CASE p = << >> \/ p \in Range(l)
  <2>1. AddMountpoint(l, p) = l
    BY <1>3 DEF AddMountpoint
  <2>2. \A q : q \in S \cup {p} /\ q # << >> <=> q \in S /\ q # << >>
    BY <1>2, <1>3 DEF ListIs
  <2>. QED  BY <2>1, <2>2 DEF ListIs
<1>4. CASE p # << >> /\ p \notin Range(l)
  <2>1. PICK n, k : n = Len(l) /\ n \in Nat /\ k = Append(l, p)
    BY <1>1
  <2>2. AddMountpoint(l, p) = k
    BY <1>4, <2>1 DEF AddMountpoint
  <2>3. /\ k \in Seq(Path) /\ Len(k) = n + 1
        /\ \A i \in 1 .. n : k[i] = l[i]
        /\ k[n + 1] = p
    BY <1>1, <2>1, AppendProperties
  <2>4. \A i \in 1 .. n : l[i] # p
    BY <1>2, <1>4, <2>1
  <2>5. \A i \in 1 .. n + 1 : i \in 1 .. n \/ i = n + 1
    BY <2>1
  <2>6. \A i, j \in 1 .. n + 1 : k[i] = k[j] => i = j
    BY <2>1, <2>3, <2>4, <2>5 DEF ListIs
  <2>7. ASSUME NEW q PROVE (\E i \in 1 .. n + 1 : k[i] = q) <=> q \in S \cup {p} /\ q # << >>
    <3>1. (\E i \in 1 .. n + 1 : k[i] = q) <=> (\E i \in 1 .. n : l[i] = q) \/ q = p
      <4>1. n + 1 \in 1 .. n + 1 /\ \A i \in 1 .. n : i \in 1 .. n + 1
        BY <2>1
      <4>. QED  BY <2>3, <2>5, <4>1
    <3>. QED  BY <1>4, <2>1, <3>1 DEF ListIs
  <2>. QED  BY <2>2, <2>3, <2>6, <2>7 DEF ListIs
<1>. QED  BY <1>3, <1>4

\* collect_mountpoints lists the mountpoints of the images.
LEMMA MountpointsAre ==
  ASSUME NEW l, Len(l) \in Nat, \A i \in 1 .. Len(l) : MountOf(l[i]) \in Path
  PROVE  ListIs(MountpointsOf(l), {MountOf(l[i]) : i \in 1 .. Len(l)})
<1>1. PICK n \in Nat : n = Len(l)
  OBVIOUS
<1>2. PICK g : g = CHOOSE h : h = [i \in 0 .. Len(l) |-> IF i = 0 THEN << >> ELSE AddMountpoint(h[i - 1], MountOf(l[i]))]
  OBVIOUS
<1>3. g = [i \in 0 .. n |-> IF i = 0 THEN << >> ELSE AddMountpoint(g[i - 1], MountOf(l[i]))]
  <2>1. \E h : h = [i \in 0 .. Len(l) |-> IF i = 0 THEN << >> ELSE AddMountpoint(h[i - 1], MountOf(l[i]))]
    BY <1>1, ListExists DEF ListUpTo
  <2>. QED  BY <1>1, <1>2, <2>1, Zenon
<1>4. MountpointsOf(l) = g[n]
  BY <1>1, <1>2 DEF MountpointsOf
<1> DEFINE S(k) == {MountOf(l[i]) : i \in 1 .. k}
           Bad == {k \in 0 .. n : ~ListIs(g[k], S(k))}
<1>5. Bad = {}
  <2>1. SUFFICES ASSUME Bad # {} PROVE FALSE
    OBVIOUS
  <2>2. PICK k \in Bad : \A j \in Bad : k <= j
    <3>1. Bad \in SUBSET Nat
      BY <1>1
    <3>. QED  BY <2>1, <3>1, LeastOf
  <2>3. k \in 0 .. n /\ k \in Nat /\ ~ListIs(g[k], S(k))
    BY <1>1
  <2>4. g[k] = IF k = 0 THEN << >> ELSE AddMountpoint(g[k - 1], MountOf(l[k]))
    BY <1>3, <2>3
  <2>5. CASE k = 0
    <3>1. g[k] = << >> /\ S(k) = {}
      BY <2>4, <2>5
    <3>2. ListIs(<< >>, {})
      BY DEF ListIs
    <3>. QED  BY <2>3, <3>1, <3>2
  <2>6. CASE k # 0
    <3>1. k - 1 \in 0 .. n /\ ~(k <= k - 1) /\ k \in 1 .. n
      BY <1>1, <2>3, <2>6
    <3>2. ListIs(g[k - 1], S(k - 1))
      BY <2>2, <3>1
    <3>3. MountOf(l[k]) \in Path
      BY <1>1, <3>1
    <3>4. ListIs(AddMountpoint(g[k - 1], MountOf(l[k])), S(k - 1) \cup {MountOf(l[k])})
      BY <3>2, <3>3, AddKeepsList
    <3>5. S(k - 1) \cup {MountOf(l[k])} = S(k)
      <4>1. \A i : i \in 1 .. k <=> i \in 1 .. k - 1 \/ i = k
        BY <2>3, <3>1
      <4>. QED  BY <4>1
    <3>. QED  BY <2>3, <2>4, <2>6, <3>4, <3>5
  <2>. QED  BY <2>5, <2>6
<1>6. n \in 0 .. n
  OBVIOUS
<1>. QED  BY <1>1, <1>4, <1>5, <1>6

-----------------------------------------------------------------------------
(***************************************************************************)
(* Directories inside each other.                                          *)
(***************************************************************************)
\* What it means to be below a directory.
LEMMA BelowIs ==
  ASSUME NEW a \in Path, NEW q \in Path
  PROVE  IsStrictPrefix(a, q) <=> Len(a) < Len(q) /\ \A i \in 1 .. Len(a) : a[i] = q[i]
<1>1. PICK m \in Nat, n \in Nat : m = Len(a) /\ n = Len(q)
  BY DEF Path
<1>2. \A i \in 1 .. m : a[i] \in Seq(STRING)
  BY <1>1, ElementOfSeq DEF Path
<1>3. SubSeq(a, 1, m) = a
  BY <1>1, SubSeqFull DEF Path
<1>4. ASSUME m <= n
      PROVE  SubSeq(a, 1, m) = SubSeq(q, 1, m) <=> \A i \in 1 .. m : a[i] = q[i]
  <2>1. PICK s, t : s = SubSeq(a, 1, m) /\ t = SubSeq(q, 1, m)
    OBVIOUS
  <2>2. \A i \in 1 .. m : q[i] \in Seq(STRING)
    BY <1>1, <1>4, ElementOfSeq DEF Path
  <2>3. s \in Seq(Seq(STRING)) /\ Len(s) = m /\ \A i \in 1 .. m : s[i] = a[i]
    <3>1. Len(a) = m /\ a \in Seq(Seq(STRING)) /\ s = a
      BY <1>1, <1>3, <2>1 DEF Path
    <3>. QED  BY <3>1
  <2>4. t \in Seq(Seq(STRING)) /\ Len(t) = m /\ \A i \in 1 .. m : t[i] = q[i]
    <3>1. /\ t \in Seq(Seq(STRING)) /\ Len(t) = (IF 1 <= m THEN m - 1 + 1 ELSE 0)
          /\ \A i \in 1 .. m - 1 + 1 : t[i] = q[1 + i - 1]
      BY <2>1, <2>2, SubSeqProperties
    <3>2. m - 1 + 1 = m /\ \A i \in 1 .. m : 1 + i - 1 = i
      OBVIOUS
    <3>. QED  BY <3>1, <3>2
  <2>5. s = t <=> \A i \in 1 .. m : s[i] = t[i]
    BY <2>3, <2>4, SeqEqual
  <2>. QED  BY <2>1, <2>3, <2>4, <2>5
<1>5. m = n => (a = q <=> \A i \in 1 .. m : a[i] = q[i])
  BY <1>1, SeqEqual DEF Path
<1>6. IsStrictPrefix(a, q) <=> m <= n /\ SubSeq(a, 1, m) = SubSeq(q, 1, m) /\ a # q
  BY <1>1 DEF IsStrictPrefix, IsPrefix
<1>7. CASE m < n
  <2>1. a # q
    BY <1>1, <1>7
  <2>. QED  BY <1>1, <1>4, <1>6, <1>7, <2>1
<1>8. CASE m = n
  BY <1>1, <1>4, <1>5, <1>6, <1>8
<1>9. CASE m > n
  BY <1>1, <1>6, <1>9
<1>. QED  BY <1>7, <1>8, <1>9

\* Two directories with something below both are one, or one is below the other.
LEMMA OneBelowTheOther ==
  ASSUME NEW a \in Path, NEW b \in Path, NEW q \in Path, IsStrictPrefix(a, q), IsStrictPrefix(b, q)
  PROVE  a = b \/ IsStrictPrefix(a, b) \/ IsStrictPrefix(b, a)
<1>1. PICK m \in Nat, n \in Nat : m = Len(a) /\ n = Len(b)
  BY DEF Path
<1>2. /\ \A i \in 1 .. m : a[i] = q[i]
      /\ \A i \in 1 .. n : b[i] = q[i]
  BY <1>1, BelowIs
<1>3. CASE m < n
  <2>1. \A i \in 1 .. m : i \in 1 .. n
    BY <1>3
  <2>. QED  BY <1>1, <1>2, <1>3, <2>1, BelowIs
<1>4. CASE n < m
  <2>1. \A i \in 1 .. n : i \in 1 .. m
    BY <1>4
  <2>. QED  BY <1>1, <1>2, <1>4, <2>1, BelowIs
<1>5. CASE m = n
  BY <1>1, <1>2, <1>5, SeqEqual DEF Path
<1>. QED  BY <1>3, <1>4, <1>5

\* Nothing is below itself; what is below something below is below.
LEMMA BelowOrders ==
  ASSUME NEW a \in Path, NEW b \in Path, NEW q \in Path
  PROVE  ~IsStrictPrefix(a, a) /\ (IsStrictPrefix(a, b) /\ IsStrictPrefix(b, q) => IsStrictPrefix(a, q))
<1>1. PICK m \in Nat, n \in Nat, o \in Nat : m = Len(a) /\ n = Len(b) /\ o = Len(q)
  BY DEF Path
<1>2. IsStrictPrefix(a, b) <=> m < n /\ \A i \in 1 .. m : a[i] = b[i]
  BY <1>1, BelowIs
<1>3. IsStrictPrefix(b, q) <=> n < o /\ \A i \in 1 .. n : b[i] = q[i]
  BY <1>1, BelowIs
<1>4. IsStrictPrefix(a, q) <=> m < o /\ \A i \in 1 .. m : a[i] = q[i]
  BY <1>1, BelowIs
<1>5. m < n => \A i \in 1 .. m : i \in 1 .. n
  OBVIOUS
<1>6. ~IsStrictPrefix(a, a)
  BY DEF IsStrictPrefix
<1>. QED  BY <1>2, <1>3, <1>4, <1>5, <1>6

\* The path in the directory, put behind that of the directory.
LEMMA PathInside ==
  ASSUME NEW a \in Path, NEW q \in Path, IsStrictPrefix(a, q)
  PROVE  a \o SubSeq(q, Len(a) + 1, Len(q)) = q
<1>1. PICK m \in Nat, n \in Nat : m = Len(a) /\ n = Len(q)
  BY DEF Path
<1>2. m < n /\ \A i \in 1 .. m : a[i] = q[i]
  BY <1>1, BelowIs
<1>3. \A i \in m + 1 .. n : q[i] \in Seq(STRING)
  <2> SUFFICES ASSUME NEW i \in m + 1 .. n PROVE q[i] \in Seq(STRING)
    OBVIOUS
  <2>1. i \in 1 .. Len(q)
    BY <1>1
  <2>. QED  BY <2>1, ElementOfSeq DEF Path
<1>4. PICK s : s = SubSeq(q, m + 1, n)
  OBVIOUS
<1>5. s \in Seq(Seq(STRING)) /\ Len(s) = n - m /\ \A i \in 1 .. n - m : s[i] = q[m + i]
  <2>1. /\ s \in Seq(Seq(STRING)) /\ Len(s) = IF m + 1 <= n THEN n - (m + 1) + 1 ELSE 0
        /\ \A i \in 1 .. n - (m + 1) + 1 : s[i] = q[m + 1 + i - 1]
    BY <1>3, <1>4, SubSeqProperties
  <2>2. n - (m + 1) + 1 = n - m /\ m + 1 <= n /\ \A i \in 1 .. n - m : m + 1 + i - 1 = m + i
    BY <1>2
  <2>. QED  BY <2>1, <2>2
<1>6. PICK t : t = a \o s
  OBVIOUS
<1>7. t \in Seq(Seq(STRING)) /\ Len(t) = m + (n - m) /\ \A i \in 1 .. m + (n - m) : t[i] = IF i <= m THEN a[i] ELSE s[i - m]
  <2>1. a \in Seq(Seq(STRING)) /\ Len(a) = m
    BY <1>1 DEF Path
  <2>2. PICK k \in Nat : k = n - m
    BY <1>2
  <2>3. s \in Seq(Seq(STRING)) /\ Len(s) = k
    BY <1>5, <2>2
  <2>4. t \in Seq(Seq(STRING)) /\ Len(t) = m + k /\ \A i \in 1 .. m + k : t[i] = IF i <= m THEN a[i] ELSE s[i - m]
    BY <1>6, <2>1, <2>3, ConcatProperties
  <2>. QED  BY <2>2, <2>4, Zenon
<1>8. ASSUME NEW i \in 1 .. n PROVE t[i] = q[i]
  <2>1. m + (n - m) = n
    OBVIOUS
  <2>2. t[i] = IF i <= m THEN a[i] ELSE s[i - m]
    BY <1>7, <2>1
  <2>3. CASE i <= m
    BY <1>2, <2>2, <2>3
  <2>4. CASE ~(i <= m)
    <3>1. i - m \in 1 .. n - m /\ m + (i - m) = i
      BY <1>1, <2>4
    <3>. QED  BY <1>5, <2>2, <2>4, <3>1
  <2>. QED  BY <2>3, <2>4
<1>9. Len(t) = n
  BY <1>7
<1>10. t = q
  BY <1>1, <1>7, <1>8, <1>9, SeqEqual DEF Path
<1>. QED  BY <1>1, <1>4, <1>6, <1>10

-----------------------------------------------------------------------------
(***************************************************************************)
(* The root file system divided.                                           *)
(***************************************************************************)
\* What the first n mountpoints of the list l leave of the tree t in the copy.
LeftBy(t, l, n) == {q \in t : \A k \in 1 .. n : ~IsStrictPrefix(DirOf(l[k]), q)}

\* No other mountpoint of the list has the same directory in tmppath.
OwnName(l, k) == \A i \in 1 .. Len(l) : Sanitized(l[i]) = Sanitized(l[k]) => i = k

\* The tree t, when the first n mountpoints of l are moved: each found its directory in what those before
\* it had left, and took what was below it.
Divided(t, l, n, c, mv) ==
  /\ c = LeftBy(t, l, n)
  /\ DOMAIN mv = {Sanitized(l[k]) : k \in 1 .. n}
  /\ \A k \in 1 .. n : DirOf(l[k]) \in LeftBy(t, l, k - 1)
  /\ \A k \in 1 .. n : OwnName(l, k) => mv[Sanitized(l[k])] = Inside(LeftBy(t, l, k - 1), DirOf(l[k]))

\* One mountpoint more is moved.
LEMMA MoveDivides ==
  ASSUME NEW t, next \in Nat, Divided(t, mountpoints, next - 1, copy, moved), MoveMountpoint
  PROVE  Divided(t, mountpoints, next, copy', moved')
<1>1. PICK l, n, a, g : l = mountpoints /\ n = next /\ n \in Nat /\ a = DirOf(l[n]) /\ g = Sanitized(l[n])
  OBVIOUS
<1>2. /\ n \in 1 .. Len(l) /\ a \in copy
      /\ copy' = Without(copy, a) /\ moved' = [x \in DOMAIN moved \cup {g} |-> IF x = g THEN MovedTree ELSE moved[x]]
  BY <1>1 DEF MoveMountpoint, CanMove, Dir, Here, Target
<1>3. \A k : k \in 1 .. n <=> k \in 1 .. n - 1 \/ k = n
  BY <1>2
<1>4. copy' = LeftBy(t, l, n)
  <2>1. copy = {q \in t : \A k \in 1 .. n - 1 : ~IsStrictPrefix(DirOf(l[k]), q)}
    BY <1>1 DEF Divided, LeftBy
  <2>2. \A q : q \in copy' <=> q \in copy /\ ~IsStrictPrefix(a, q)
    BY <1>2 DEF Without
  <2>3. \A q : q \in LeftBy(t, l, n) <=> q \in t /\ \A k \in 1 .. n : ~IsStrictPrefix(DirOf(l[k]), q)
    BY DEF LeftBy
  <2>. QED  BY <1>1, <1>3, <2>1, <2>2, <2>3
<1>5. /\ DOMAIN moved' = DOMAIN moved \cup {g}
      /\ moved'[g] = MovedTree
      /\ \A x \in DOMAIN moved : x # g => moved'[x] = moved[x]
  BY <1>2
<1>6. DOMAIN moved' = {Sanitized(l[k]) : k \in 1 .. n}
  <2>1. DOMAIN moved = {Sanitized(l[k]) : k \in 1 .. n - 1}
    BY <1>1 DEF Divided
  <2>. QED  BY <1>1, <1>3, <1>5, <2>1
<1>7. copy = LeftBy(t, l, n - 1)
  BY <1>1 DEF Divided
<1>8. \A k \in 1 .. n : DirOf(l[k]) \in LeftBy(t, l, k - 1)
  <2>1. \A k \in 1 .. n - 1 : DirOf(l[k]) \in LeftBy(t, l, k - 1)
    BY <1>1 DEF Divided
  <2>. QED  BY <1>1, <1>2, <1>3, <1>7, <2>1
<1>9. ASSUME NEW k \in 1 .. n, OwnName(l, k)
      PROVE  moved'[Sanitized(l[k])] = Inside(LeftBy(t, l, k - 1), DirOf(l[k]))
  <2>1. CASE k = n
    <3>1. g \notin DOMAIN moved
      <4>1. SUFFICES ASSUME NEW i \in 1 .. n - 1, g = Sanitized(l[i]) PROVE FALSE
        BY <1>1 DEF Divided
      <4>2. i \in 1 .. Len(l) /\ i # n
        BY <1>2
      <4>. QED  BY <1>1, <1>9, <2>1, <4>1, <4>2 DEF OwnName
    <3>2. MovedTree = Inside(copy, a)
      BY <1>1, <3>1 DEF MovedTree, Target, Dir, Here
    <3>. QED  BY <1>1, <1>5, <1>7, <2>1, <3>2
  <2>2. CASE k # n
    <3>1. k \in 1 .. n - 1 /\ n \in 1 .. Len(l)
      BY <1>2, <1>3, <2>2
    <3>2. Sanitized(l[k]) # g /\ Sanitized(l[k]) \in DOMAIN moved
      BY <1>1, <1>9, <2>2, <3>1 DEF OwnName, Divided
    <3>3. moved[Sanitized(l[k])] = Inside(LeftBy(t, l, k - 1), DirOf(l[k]))
      BY <1>1, <1>9, <3>1 DEF Divided
    <3>. QED  BY <1>5, <3>2, <3>3
  <2>. QED  BY <2>1, <2>2
<1>. QED  BY <1>1, <1>4, <1>6, <1>8, <1>9 DEF Divided

\* The mountpoints of the configuration.
Mounts == {mount[g] : g \in DOMAIN mount}

MountsType == \A f \in DOMAIN mount : mount[f] \in Path /\ (mount[f] = << >> \/ DirOf(mount[f]) # << >>)

\* What is left when all are moved is what the images without a mountpoint are promised.
LEMMA RootTree ==
  ASSUME MountsType, NEW t, IsTree(t), ListIs(mountpoints, Mounts), Divided(t, mountpoints, Len(mountpoints), copy, moved),
         NEW f, MountOf(f) = << >>
  PROVE  TreeOf(f) = PromisedTree(f, t)
<1>1. PICK l, n : l = mountpoints /\ n = Len(l)
  OBVIOUS
<1>2. /\ TreeOf(f) = {q \in t : \A k \in 1 .. n : ~IsStrictPrefix(DirOf(l[k]), q)}
      /\ DirOf(MountOf(f)) = << >>
  BY <1>1, DirOfRoot DEF TreeOf, Divided, LeftBy
<1>3. << >> \in Path /\ Len(<< >>) = 0 /\ DOMAIN mount = DOMAIN mount
  BY DEF Path
<1>4. \A q \in Path : IsStrictPrefix(<< >>, q) <=> q # << >>
  <2> SUFFICES ASSUME NEW q \in Path PROVE IsStrictPrefix(<< >>, q) <=> q # << >>
    OBVIOUS
  <2>1. IsStrictPrefix(<< >>, q) <=> 0 < Len(q)
    BY <1>3, BelowIs
  <2>2. q \in Seq(Seq(STRING))
    BY DEF Path
  <2>3. 0 < Len(q) <=> q # << >>
    BY <2>2
  <2>. QED  BY <2>1, <2>3
<1>5. \A q \in t : q \in Path /\ q # << >>
  BY DEF IsTree
<1>6. \A q \in t : IsStrictPrefix(<< >>, q) /\ SubSeq(q, 1, Len(q)) = q /\ << >> \o q = q
  <2> SUFFICES ASSUME NEW q \in t PROVE IsStrictPrefix(<< >>, q) /\ SubSeq(q, 1, Len(q)) = q /\ << >> \o q = q
    OBVIOUS
  <2>1. q \in Seq(Seq(STRING))
    BY <1>5 DEF Path
  <2>. QED  BY <1>4, <1>5, <2>1, SubSeqFull, ConcatEmptySeq
<1>7. Inside(t, << >>) = t
  <2>1. Len(<< >>) + 1 = 1
    OBVIOUS
  <2>. QED  BY <1>6, <2>1 DEF Inside
<1>8. PICK below : below = {DirOf(mount[g]) : g \in {h \in DOMAIN mount : IsStrictPrefix(<< >>, DirOf(mount[h]))}}
  OBVIOUS
<1>9. PromisedTree(f, t) = {q \in t : \A m \in below : ~IsStrictPrefix(m, << >> \o q)}
  BY <1>2, <1>7, <1>8 DEF PromisedTree
<1>10. \A m : m \in below <=> \E k \in 1 .. n : m = DirOf(l[k])
  <2>1. \A p : (\E k \in 1 .. n : l[k] = p) <=> p # << >> /\ \E g \in DOMAIN mount : mount[g] = p
    <3>1. \A p : (\E k \in 1 .. n : l[k] = p) <=> p \in Mounts /\ p # << >>
      BY <1>1 DEF ListIs
    <3>. QED  BY <3>1 DEF Mounts
  <2>2. \A g \in DOMAIN mount : IsStrictPrefix(<< >>, DirOf(mount[g])) <=> mount[g] # << >>
    BY <1>4, DirType, DirOfRoot DEF MountsType
  <2>. QED  BY <1>8, <2>1, <2>2
<1>. QED  BY <1>2, <1>6, <1>9, <1>10

\* And what was moved is what the images of the mountpoint are promised.
LEMMA MovedTrees ==
  ASSUME MountsType, NEW t, IsTree(t), ListIs(mountpoints, Mounts), Divided(t, mountpoints, Len(mountpoints), copy, moved),
         NEW f, MountOf(f) # << >>, ~Clashes(f)
  PROVE  TreeOf(f) = PromisedTree(f, t)
<1>1. PICK l, n, a : l = mountpoints /\ n = Len(l) /\ n \in Nat /\ a = DirOf(MountOf(f))
  <2>1. mountpoints \in Seq(Path)
    BY DEF ListIs
  <2>2. Len(mountpoints) \in Nat
    BY <2>1
  <2>. QED  BY <2>2
<1>2. f \in DOMAIN mount /\ MountOf(f) = mount[f]
  BY DEF MountOf
<1>3. PICK k \in 1 .. n : l[k] = MountOf(f)
  BY <1>1, <1>2 DEF ListIs, Mounts
<1>4. \A i \in 1 .. n : l[i] # << >> /\ \E g \in DOMAIN mount : mount[g] = l[i]
  BY <1>1 DEF ListIs, Mounts
<1>5. \A i \in 1 .. n : i # k => DirOf(l[i]) # a /\ Sanitized(l[i]) # Sanitized(l[k])
  <2> SUFFICES ASSUME NEW i \in 1 .. n, i # k PROVE DirOf(l[i]) # a /\ Sanitized(l[i]) # Sanitized(l[k])
    OBVIOUS
  <2>1. l[i] # l[k]
    BY <1>1, <1>3 DEF ListIs
  <2>2. PICK g \in DOMAIN mount : mount[g] = l[i]
    BY <1>4
  <2>. QED  BY <1>1, <1>3, <2>1, <2>2 DEF Clashes
<1>6. TreeOf(f) = Inside(LeftBy(t, l, k - 1), a)
  <2>1. OwnName(l, k)
    BY <1>1, <1>5 DEF OwnName
  <2>2. moved[Sanitized(l[k])] = Inside(LeftBy(t, l, k - 1), DirOf(l[k]))
    BY <1>1, <2>1 DEF Divided
  <2>. QED  BY <1>1, <1>3, <2>2 DEF TreeOf
<1>7. /\ a \in Path
      /\ \A i \in 1 .. n : DirOf(l[i]) \in Path
      /\ \A q \in t : q \in Path
  BY <1>1, <1>2, <1>4, DirType DEF MountsType, IsTree
<1>8. \A i, j \in 1 .. n : i < j => ~IsStrictPrefix(DirOf(l[i]), DirOf(l[j]))
  <2> SUFFICES ASSUME NEW i \in 1 .. n, NEW j \in 1 .. n, i < j PROVE ~IsStrictPrefix(DirOf(l[i]), DirOf(l[j]))
    OBVIOUS
  <2>1. DirOf(l[j]) \in LeftBy(t, l, j - 1)
    BY <1>1 DEF Divided
  <2>2. i \in 1 .. j - 1
    OBVIOUS
  <2>. QED  BY <2>1, <2>2 DEF LeftBy
<1>9. PICK below : below = {DirOf(mount[g]) : g \in {h \in DOMAIN mount : IsStrictPrefix(a, DirOf(mount[h]))}}
  OBVIOUS
<1>10. \A m : m \in below => \E i \in 1 .. n : m = DirOf(l[i]) /\ IsStrictPrefix(a, m)
  <2> SUFFICES ASSUME NEW g \in DOMAIN mount, IsStrictPrefix(a, DirOf(mount[g]))
               PROVE  \E i \in 1 .. n : DirOf(mount[g]) = DirOf(l[i])
    BY <1>9
  <2>1. mount[g] # << >>
    <3>1. ~IsStrictPrefix(a, << >>)
      <4>1. << >> \in Path /\ Len(<< >>) = 0 /\ Len(a) \in Nat
        BY <1>7 DEF Path
      <4>. QED  BY <1>7, <4>1, BelowIs
    <3>. QED  BY <3>1, DirOfRoot
  <2>2. PICK i \in 1 .. n : l[i] = mount[g]
    BY <1>1, <2>1 DEF ListIs, Mounts
  <2>. QED  BY <2>2
<1>11. \A i \in 1 .. n : IsStrictPrefix(a, DirOf(l[i])) => DirOf(l[i]) \in below
  BY <1>4, <1>9
<1>12. ASSUME NEW q \in t, IsStrictPrefix(a, q)
       PROVE  (\A i \in 1 .. k - 1 : ~IsStrictPrefix(DirOf(l[i]), q)) <=> \A m \in below : ~IsStrictPrefix(m, q)
  <2>1. ASSUME NEW i \in 1 .. k - 1, IsStrictPrefix(DirOf(l[i]), q)
        PROVE  \E m \in below : IsStrictPrefix(m, q)
    <3>1. i \in 1 .. n /\ i # k /\ i < k
      BY <1>1
    <3>2. DirOf(l[i]) # a /\ ~IsStrictPrefix(DirOf(l[i]), a)
      BY <1>1, <1>3, <1>5, <1>8, <3>1
    <3>3. IsStrictPrefix(a, DirOf(l[i]))
      BY <1>7, <1>12, <2>1, <3>1, <3>2, OneBelowTheOther
    <3>. QED  BY <1>11, <2>1, <3>1, <3>3
  <2>2. ASSUME NEW m \in below, IsStrictPrefix(m, q)
        PROVE  \E i \in 1 .. k - 1 : IsStrictPrefix(DirOf(l[i]), q)
    <3>1. PICK i \in 1 .. n : m = DirOf(l[i]) /\ IsStrictPrefix(a, m)
      BY <1>10
    <3>2. i # k
      BY <1>1, <1>3, <1>7, <3>1, BelowOrders
    <3>3. ~(k < i)
      BY <1>1, <1>3, <1>8, <3>1
    <3>4. i \in 1 .. k - 1
      BY <1>1, <3>2, <3>3
    <3>. QED  BY <2>2, <3>1, <3>4
  <2>. QED  BY <2>1, <2>2
<1>13. \A q \in t : IsStrictPrefix(a, q) => a \o SubSeq(q, Len(a) + 1, Len(q)) = q
  BY <1>7, PathInside
<1>14. TreeOf(f) = {SubSeq(q, Len(a) + 1, Len(q)) : q \in {r \in t : IsStrictPrefix(a, r) /\ \A m \in below : ~IsStrictPrefix(m, r)}}
  <2>1. {r \in LeftBy(t, l, k - 1) : IsStrictPrefix(a, r)}
          = {r \in t : IsStrictPrefix(a, r) /\ \A m \in below : ~IsStrictPrefix(m, r)}
    BY <1>12 DEF LeftBy
  <2>. QED  BY <1>6, <2>1 DEF Inside
<1>15. PromisedTree(f, t) = {s \in Inside(t, a) : \A m \in below : ~IsStrictPrefix(m, a \o s)}
  BY <1>1, <1>9 DEF PromisedTree
<1>16. Inside(t, a) = {SubSeq(q, Len(a) + 1, Len(q)) : q \in {r \in t : IsStrictPrefix(a, r)}}
  BY DEF Inside
<1>17. ASSUME NEW s PROVE s \in TreeOf(f) <=> s \in PromisedTree(f, t)
  <2>1. s \in TreeOf(f) <=>
          \E q \in t : IsStrictPrefix(a, q) /\ s = SubSeq(q, Len(a) + 1, Len(q)) /\ \A m \in below : ~IsStrictPrefix(m, q)
    BY <1>14
  <2>2. s \in PromisedTree(f, t) <=>
          /\ \E q \in t : IsStrictPrefix(a, q) /\ s = SubSeq(q, Len(a) + 1, Len(q))
          /\ \A m \in below : ~IsStrictPrefix(m, a \o s)
    BY <1>15, <1>16
  <2>3. \A q \in t : IsStrictPrefix(a, q) /\ s = SubSeq(q, Len(a) + 1, Len(q)) => a \o s = q
    BY <1>13
  <2>. QED  BY <2>1, <2>2, <2>3
<1>18. TreeOf(f) \subseteq PromisedTree(f, t) /\ PromisedTree(f, t) \subseteq TreeOf(f)
  BY <1>17
<1>. QED  BY <1>18

-----------------------------------------------------------------------------
(***************************************************************************)
(* The division in a run.                                                  *)
(***************************************************************************)
\* The list has the declared images first, and from the end of the sections on all of them.
DeclaredListed ==
  /\ phase \in {"config", "parse"} =>
       Len(images) <= Len(cfg) /\ \A i \in 1 .. Len(images) : images[i] = cfg[i].file
  /\ phase \in {"implicit", "flash", "mount"} => Declared \subseteq Range(images)

LEMMA DeclaredStep == TypeInv /\ DeclaredListed /\ [Next]_vars => DeclaredListed'
<1> SUFFICES ASSUME TypeInv, DeclaredListed, [Next]_vars PROVE DeclaredListed'
  OBVIOUS
<1>1. images \in Seq(Files) /\ cfg \in Seq(Section) /\ Len(images) \in Nat /\ Len(cfg) \in Nat
  <2>1. images \in Seq(Files) /\ cfg \in Seq(Section)
    BY DEF TypeInv, TypeOK
  <2>. QED  BY <2>1
<1>2. CASE ParseImage
  <2>1. PICK f, n : f = cfg[Len(images) + 1].file /\ n = Len(images)
    OBVIOUS
  <2>2. phase = "parse" /\ n < Len(cfg) /\ cfg' = cfg /\ images' = Append(images, f) /\ phase' \notin {"implicit", "flash", "mount"}
    BY <1>2, <2>1 DEF ParseImage, Exit, Abandon, control
  <2>3. f \in Files
    BY <1>1, <2>1, <2>2, SectionType
  <2>4. Len(images') = n + 1 /\ images'[n + 1] = f /\ \A i \in 1 .. n : images'[i] = images[i]
    BY <1>1, <2>1, <2>2, <2>3, AppendProperties
  <2>5. \A i \in 1 .. n + 1 : images'[i] = cfg[i].file
    <3>1. \A i \in 1 .. n + 1 : i \in 1 .. n \/ i = n + 1
      BY <1>1, <2>1
    <3>2. \A i \in 1 .. n : images[i] = cfg[i].file
      BY <2>1, <2>2 DEF DeclaredListed
    <3>. QED  BY <2>1, <2>4, <3>1, <3>2
  <2>. QED  BY <1>1, <2>1, <2>2, <2>4, <2>5 DEF DeclaredListed
<1>3. CASE SectionsParsed
  <2>1. phase = "parse" /\ Len(images) = Len(cfg) /\ phase' = "implicit" /\ UNCHANGED <<cfg, images>>
    BY <1>3 DEF SectionsParsed, graph
  <2>2. Declared \subseteq Range(images)
    <3>1. DOMAIN cfg = 1 .. Len(cfg) /\ DOMAIN images = 1 .. Len(images)
      BY <1>1
    <3>. QED  BY <2>1, <3>1 DEF Declared, Range, DeclaredListed
  <2>. QED  BY <2>1, <2>2 DEF DeclaredListed, Declared
<1>4. CASE ImplicitImages
  <2>1. phase = "implicit" /\ phase' \in {"implicit", "cleanup"} /\ cfg' = cfg
    BY <1>4 DEF ImplicitImages, Abandon, control
  <2>2. images' = images \/ (images' = Append(images, This.image) /\ Inner /\ This.image # NoFile)
    BY <1>4 DEF ImplicitImages
  <2>3. Range(images) \subseteq Range(images')
    <3>1. CASE images' = Append(images, This.image) /\ Inner /\ This.image # NoFile
      <4>1. This \in Part
        BY <3>1, InnerPart
      <4>2. This.image \in Files
        BY <3>1, <4>1 DEF Part
      <4>3. Len(images') = Len(images) + 1 /\ images' \in Seq(Files) /\ \A i \in 1 .. Len(images) : images'[i] = images[i]
        BY <1>1, <3>1, <4>2, AppendProperties
      <4>4. DOMAIN images = 1 .. Len(images) /\ DOMAIN images' = 1 .. Len(images) + 1
        BY <1>1, <4>3
      <4>5. \A i \in 1 .. Len(images) : i \in 1 .. Len(images) + 1
        BY <1>1
      <4>. QED  BY <4>3, <4>4, <4>5 DEF Range
    <3>. QED  BY <2>2, <3>1
  <2>. QED  BY <2>1, <2>3 DEF DeclaredListed, Declared
<1>5. CASE UNCHANGED <<cfg, images>> /\ (phase' \in {"config", "parse"} => phase \in {"config", "parse"})
           /\ (phase' \in {"implicit", "flash", "mount"} => phase \in {"implicit", "flash", "mount"})
  BY <1>5 DEF DeclaredListed, Declared
<1>6. CASE ShowUsage \/ ConfigError \/ CheckTmpPath \/ Over \/ UNCHANGED vars
  BY <1>5, <1>6 DEF ShowUsage, ConfigError, CheckTmpPath, Over, Exit, Abandon, vars, control, graph
<1>7. CASE SetFlashTypes \/ PartsDone \/ ListDone \/ CollectMountpoints
  BY <1>5, <1>7 DEF SetFlashTypes, PartsDone, ListDone, CollectMountpoints, Abandon, control, graph
<1>8. CASE SetupCall \/ SetupHandler \/ PreparePaths \/ GenerateCall \/ SetenvError
  BY <1>5, <1>8 DEF SetupCall, SetupHandler, PreparePaths, GenerateCall, SetenvError, Descend, Call, Abandon, Fails,
                    control, graph
<1>9. CASE ExecPre \/ GenerateHandler \/ ExecPost \/ AllGenerated \/ Cleanup
  BY <1>5, <1>9 DEF ExecPre, GenerateHandler, ExecPost, AllGenerated, Cleanup, Abandon, Fails, control, graph
<1>. QED  BY <1>2, <1>3, <1>4, <1>6, <1>7, <1>8, <1>9 DEF Next, Step

\* The mountpoints are divided after the list is complete and before anything is set up.
BeforeMount == {"config", "parse", "implicit", "flash"}
AfterMount == {"setup", "generate"}

MountInv ==
  /\ MountsType /\ DOMAIN mount \subseteq Declared /\ next \in Nat
  /\ phase \in BeforeMount => next = 0
  /\ phase \in AfterMount => AllMoved
  /\ next = 0 => DOMAIN moved = {}
  /\ next > 0 => ListIs(mountpoints, Mounts) /\ next <= Len(mountpoints) + 1
  /\ next > 0 /\ ~disturbed => IsTree(Root) /\ Divided(Root, mountpoints, next - 1, copy, moved)

\* What the configuration and the options say does not change; who changes the directories.
LEMMA MountCases ==
  ASSUME [RunNext]_runVars
  PROVE  /\ UNCHANGED <<cfg, given, mount>>
         /\ CopyRootPath \/ Mount \/ (UNCHANGED mounting /\ (~disturbed' => ~disturbed))
<1>1. cfg' = cfg
  <2>1. [Next]_vars
    BY RunStepIsGenimages
  <2>. QED  BY <2>1, CfgStays
<1>2. UNCHANGED <<given, mount>>
  BY DEF RunNext, RunStep, ReadOptions, ShowHelp, IncludeOrParseError, FirstUseOfTmppath, ParseSection, CopyRootPath, Mount,
         EndMounting, SetupImage, ExportPaths, StartCommands, RunCommand, EndCommands, GenerateOther, Others, RunOver,
         inputs, runVars, MoveMountpoint, options
<1>3. CASE ReadOptions \/ ShowHelp \/ IncludeOrParseError \/ FirstUseOfTmppath \/ ParseSection \/ EndMounting
           \/ SetupImage \/ ExportPaths \/ RunOver \/ UNCHANGED runVars
  <2>1. UNCHANGED mounting /\ UNCHANGED handling
    BY <1>3 DEF ReadOptions, ShowHelp, IncludeOrParseError, FirstUseOfTmppath, ParseSection, EndMounting,
           SetupImage, ExportPaths, Others, RunOver, runVars
  <2>2. disturbed' = disturbed
    BY <2>1 DEF handling
  <2>. QED  BY <1>1, <1>2, <2>1, <2>2, Zenon
<1>4. CASE StartCommands \/ EndCommands
  <2>1. UNCHANGED mounting /\ disturbed' = disturbed
    BY <1>4 DEF StartCommands, StartHandler, EndCommands, EndHandler
  <2>. QED  BY <1>1, <1>2, <2>1, Zenon
<1>5. CASE RunCommand
  <2>1. UNCHANGED mounting
    BY <1>5 DEF RunCommand
  <2>2. ~disturbed' => ~disturbed
    <3>1. CASE disturbed' = disturbed
      BY <3>1, Zenon
    <3>2. CASE disturbed' = TRUE
      BY <3>2
    <3>. QED  BY <1>5, <3>1, <3>2 DEF RunCommand, HandlerStep, CommandSucceeds, CommandFails, CommandUnnoticed
  <2>. QED  BY <1>1, <1>2, <2>1, <2>2, Zenon
<1>6. CASE GenerateOther
  <2>1. UNCHANGED mounting
    BY <1>6 DEF GenerateOther
  <2>2. ~disturbed' => ~disturbed
    BY <1>6, Zenon DEF GenerateOther
  <2>. QED  BY <1>1, <1>2, <2>1, <2>2, Zenon
<1>7. CASE (SectionsParsed \/ ImplicitImages \/ SetFlashTypes \/ PartsDone \/ ListDone
              \/ SetupCall \/ GenerateCall \/ SetenvError \/ ExecPre \/ ExecPost \/ AllGenerated \/ Cleanup) /\ Others
  <2>1. UNCHANGED mounting /\ UNCHANGED handling
    BY <1>7 DEF Others
  <2>2. disturbed' = disturbed
    BY <2>1 DEF handling
  <2>. QED  BY <1>1, <1>2, <2>1, <2>2, Zenon
<1>8. CASE CopyRootPath \/ Mount
  BY <1>1, <1>2, <1>8, Zenon
<1>. QED  BY <1>3, <1>4, <1>5, <1>6, <1>7, <1>8 DEF RunNext, RunStep

LEMMA MountPhases ==
  ASSUME [RunNext]_runVars
  PROVE  /\ phase' \in BeforeMount => phase \in BeforeMount
         /\ phase' \in AfterMount => phase \in AfterMount \/ (AllMoved /\ UNCHANGED mounting)
<1>1. CASE ReadOptions \/ CopyRootPath \/ Mount \/ StartCommands \/ RunCommand \/ RunOver \/ UNCHANGED runVars
  BY <1>1 DEF ReadOptions, CopyRootPath, Mount, StartCommands, RunCommand, RunOver, runVars, vars, control
<1>2. CASE ShowHelp \/ IncludeOrParseError \/ FirstUseOfTmppath
  BY <1>2 DEF ShowHelp, ShowUsage, IncludeOrParseError, ConfigError, FirstUseOfTmppath, CheckTmpPath, Abandon, Exit,
              BeforeMount, AfterMount
<1>3. CASE ParseSection
  BY <1>3 DEF ParseSection, ParseImage, Abandon, Exit, control, BeforeMount, AfterMount
<1>4. CASE EndMounting
  BY <1>4 DEF EndMounting, CollectMountpoints, Abandon, Others, BeforeMount, AfterMount
<1>5. CASE SetupImage \/ ExportPaths \/ EndCommands \/ GenerateOther
  BY <1>5 DEF SetupImage, SetupHandler, ExportPaths, PreparePaths, EndCommands, GenerateOther, GenerateHandler, Abandon,
              Fails, control, BeforeMount, AfterMount
<1>6. CASE SectionsParsed \/ ImplicitImages \/ SetFlashTypes \/ PartsDone \/ ListDone
  BY <1>6 DEF SectionsParsed, ImplicitImages, SetFlashTypes, PartsDone, ListDone, Abandon, control, BeforeMount, AfterMount
<1>7. CASE SetupCall \/ GenerateCall \/ SetenvError \/ ExecPre \/ ExecPost \/ AllGenerated \/ Cleanup
  BY <1>7 DEF SetupCall, GenerateCall, SetenvError, ExecPre, ExecPost, AllGenerated, Cleanup, Descend, Call, Abandon, Fails,
              control, BeforeMount, AfterMount
<1>. QED  BY <1>1, <1>2, <1>3, <1>4, <1>5, <1>6, <1>7 DEF RunNext, RunStep

\* cp -a lists the mountpoints; nothing has been moved.
LEMMA CopyDivides ==
  ASSUME OptionsInv, TypeInv, DeclaredListed, MountInv, CopyRootPath, UNCHANGED <<cfg, given, mount>>
  PROVE  MountInv'
<1>1. /\ phase = "mount" /\ next = 0 /\ next' = 1 /\ moved' = moved /\ phase' = phase
      /\ mountpoints' = MountpointsOf(images) /\ Kept("rootpath") \in DOMAIN Roots
  BY DEF CopyRootPath, CopyRoot, vars, control
<1>2. Kept("rootpath") = Strongest("rootpath")
  <2>1. "rootpath" \in Paths /\ opc = "settled"
    BY <1>1 DEF Paths, OptionsInv, SettledPhases
  <2>. QED  BY <2>1 DEF Kept, OptionsInv, PathsSettled
<1>3. IsTree(Root) /\ Root' = Root
  <2>1. \A n : Strongest(n)' = Strongest(n)
    BY SourcesStay
  <2>. QED  BY <1>1, <1>2, <2>1, ScenariosAssumption DEF Root
<1>4. PICK t : t = Root
  OBVIOUS
<1>5. PICK s : s \in {t, {}} /\ copy' = s /\ disturbed' = (s # t)
  <2>1. \E s \in {Roots[Kept("rootpath")], {}} : copy' = s /\ disturbed' = (s # Roots[Kept("rootpath")])
    BY DEF CopyRootPath, CopyRoot
  <2>. QED  BY <1>2, <1>4, <2>1 DEF Root
<1>6. ListIs(mountpoints', Mounts)
  <2>1. images \in Seq(Files) /\ Len(images) \in Nat /\ DOMAIN images = 1 .. Len(images)
    <3>1. images \in Seq(Files)
      BY DEF TypeInv, TypeOK
    <3>. QED  BY <3>1
  <2>2. \A f : MountOf(f) \in Path
    <3>1. << >> \in Path
      BY DEF Path
    <3>. QED  BY <3>1 DEF MountOf, MountInv, MountsType
  <2>3. ListIs(mountpoints', {MountOf(images[i]) : i \in 1 .. Len(images)})
    BY <1>1, <2>1, <2>2, MountpointsAre
  <2>4. \A g \in DOMAIN mount : \E i \in 1 .. Len(images) : images[i] = g
    BY <1>1, <2>1 DEF MountInv, DeclaredListed, Range
  <2>5. \A p : p # << >> => (p \in {MountOf(images[i]) : i \in 1 .. Len(images)} <=> p \in Mounts)
    BY <2>4 DEF MountOf, Mounts
  <2>. QED  BY <2>3, <2>5 DEF ListIs
<1>7. PICK l : l = mountpoints'
  OBVIOUS
<1>8. 1 <= Len(l) + 1 /\ Len(l) \in Nat
  <2>1. l \in Seq(Path)
    BY <1>6, <1>7 DEF ListIs
  <2>2. Len(l) \in Nat
    BY <2>1
  <2>. QED  BY <2>2
<1>9. ~disturbed' => Divided(t, l, 0, copy', moved)
  <2> SUFFICES ASSUME ~disturbed' PROVE Divided(t, l, 0, copy', moved)
    OBVIOUS
  <2>1. copy' = t
    BY <1>5
  <2>2. DOMAIN moved = {}
    BY <1>1 DEF MountInv
  <2>. QED  BY <2>1, <2>2 DEF Divided, LeftBy
<1>10. Mounts' = Mounts /\ MountsType' /\ DOMAIN mount' \subseteq Declared'
  BY DEF Mounts, MountsType, MountInv, Declared
<1>11. phase' \notin BeforeMount /\ phase' \notin AfterMount
  BY <1>1 DEF BeforeMount, AfterMount
<1>12. next' > 0 /\ ~disturbed' => IsTree(Root') /\ Divided(Root', mountpoints', next' - 1, copy', moved')
  <2>1. next' - 1 = 0
    BY <1>1
  <2>. QED  BY <1>1, <1>3, <1>4, <1>7, <1>9, <2>1
<1>13. next' > 0 => ListIs(mountpoints', Mounts') /\ next' <= Len(mountpoints') + 1
  BY <1>1, <1>6, <1>7, <1>8, <1>10
<1>14. next' \in Nat /\ next' # 0
  BY <1>1
<1>. QED  BY <1>10, <1>11, <1>12, <1>13, <1>14, Zenon DEF MountInv

\* mv takes one mountpoint more.
LEMMA MoveKeeps ==
  ASSUME MountInv, Mount, UNCHANGED <<cfg, given, mount>>
  PROVE  MountInv'
<1>1. /\ phase = "mount" /\ MoveMountpoint /\ phase' = phase /\ disturbed' = disturbed /\ next \in 1 .. Len(mountpoints)
      /\ next' = next + 1 /\ mountpoints' = mountpoints
  BY DEF Mount, MoveMountpoint, vars, control, handling
<1>2. PICK n, k : n = next /\ n \in Nat /\ k = Len(mountpoints) /\ n > 0 /\ n \in 1 .. k
  BY <1>1 DEF MountInv
<1>3. Root' = Root
  <2>1. \A m : Strongest(m)' = Strongest(m)
    BY SourcesStay
  <2>. QED  BY <2>1 DEF Root
<1>4. ListIs(mountpoints, Mounts) /\ k \in Nat
  <2>1. ListIs(mountpoints, Mounts)
    BY <1>2 DEF MountInv
  <2>2. mountpoints \in Seq(Path)
    BY <2>1 DEF ListIs
  <2>. QED  BY <1>2, <2>1, <2>2
<1>5. ~disturbed => IsTree(Root) /\ Divided(Root, mountpoints, n, copy', moved')
  BY <1>1, <1>2, MoveDivides DEF MountInv
<1>6. Mounts' = Mounts /\ MountsType' /\ DOMAIN mount' \subseteq Declared'
  BY DEF Mounts, MountsType, MountInv, Declared
<1>7. phase' \notin BeforeMount /\ phase' \notin AfterMount
  BY <1>1 DEF BeforeMount, AfterMount
<1>8. next' = n + 1 /\ next' \in Nat /\ next' # 0 /\ next' - 1 = n /\ next' <= k + 1
  BY <1>1, <1>2, <1>4
<1>9. next' > 0 /\ ~disturbed' => IsTree(Root') /\ Divided(Root', mountpoints', next' - 1, copy', moved')
  BY <1>1, <1>3, <1>5, <1>8
<1>10. next' > 0 => ListIs(mountpoints', Mounts') /\ next' <= Len(mountpoints') + 1
  BY <1>1, <1>2, <1>4, <1>6, <1>8
<1>. QED  BY <1>6, <1>7, <1>8, <1>9, <1>10, Zenon DEF MountInv

\* Every other step leaves the directories alone.
LEMMA OthersKeep ==
  ASSUME MountInv, [RunNext]_runVars, UNCHANGED <<cfg, given, mount>>, UNCHANGED mounting, ~disturbed' => ~disturbed
  PROVE  MountInv'
<1>1. UNCHANGED <<mountpoints, next, copy, moved>>
  BY DEF mounting
<1>2. Root' = Root
  <2>1. \A m : Strongest(m)' = Strongest(m)
    BY SourcesStay
  <2>. QED  BY <2>1 DEF Root
<1>3. Mounts' = Mounts /\ MountsType' /\ DOMAIN mount' \subseteq Declared'
  BY DEF Mounts, MountsType, MountInv, Declared
<1>4. phase' \in BeforeMount => next' = 0
  BY <1>1, MountPhases DEF MountInv
<1>5. phase' \in AfterMount => AllMoved'
  BY <1>1, MountPhases DEF MountInv, AllMoved
<1>6. next' > 0 /\ ~disturbed' => IsTree(Root') /\ Divided(Root', mountpoints', next' - 1, copy', moved')
  BY <1>1, <1>2, Zenon DEF MountInv
<1>7. next' > 0 => ListIs(mountpoints', Mounts') /\ next' <= Len(mountpoints') + 1
  BY <1>1, <1>3 DEF MountInv
<1>8. next' \in Nat /\ (next' = 0 => DOMAIN moved' = {})
  BY <1>1 DEF MountInv
<1>. QED  BY <1>3, <1>4, <1>5, <1>6, <1>7, <1>8, Zenon DEF MountInv

LEMMA MountStep == OptionsInv /\ TypeInv /\ DeclaredListed /\ MountInv /\ [RunNext]_runVars => MountInv'
<1> SUFFICES ASSUME OptionsInv, TypeInv, DeclaredListed, MountInv, [RunNext]_runVars PROVE MountInv'
  OBVIOUS
<1>1. /\ UNCHANGED <<cfg, given, mount>>
      /\ CopyRootPath \/ Mount \/ (UNCHANGED mounting /\ (~disturbed' => ~disturbed))
  BY MountCases
<1>. QED  BY <1>1, CopyDivides, MoveKeeps, OthersKeep

LEMMA MountStart == RunInit => DeclaredListed /\ MountInv
<1> SUFFICES ASSUME RunInit PROVE DeclaredListed /\ MountInv
  OBVIOUS
<1>1. PICK s \in Scenarios : cfg = s.cfg /\ mount = s.mount /\ Init /\ MountInit
  BY DEF RunInit
<1>2. MountsType /\ DOMAIN mount \subseteq Declared
  BY <1>1, ScenariosAssumption DEF MountsType, Declared
<1>3. DeclaredListed
  <2>1. phase = "config" /\ images = << >> /\ cfg \in Seq(Section)
    BY <1>1, ConfigsAssumption DEF Init
  <2>2. Len(images) = 0 /\ Len(cfg) \in Nat
    BY <2>1
  <2>. QED  BY <2>1, <2>2 DEF DeclaredListed
<1>4. MountInv
  <2>1. phase = "config" /\ next = 0 /\ moved = << >>
    BY <1>1 DEF Init, MountInit
  <2>. QED  BY <1>2, <2>1 DEF MountInv, BeforeMount, AfterMount
<1>. QED  BY <1>3, <1>4

\* The invariant gives what the images are promised.
LEMMA DividedAsMounted == MountInv => TreesAsMounted
<1> SUFFICES ASSUME MountInv, phase \in {"setup", "generate"}, ~disturbed, NEW f \in Declared, ~Clashes(f)
             PROVE  TreeOf(f) = PromisedTree(f, Root)
  BY DEF TreesAsMounted
<1>1. AllMoved
  BY DEF MountInv, AfterMount
<1>2. next > 0 /\ ListIs(mountpoints, Mounts) /\ next <= Len(mountpoints) + 1 /\ next > Len(mountpoints) /\ MountsType
  BY <1>1 DEF AllMoved, MountInv
<1>3. next - 1 = Len(mountpoints)
  <2>1. mountpoints \in Seq(Path) /\ next \in Nat
    BY <1>2 DEF ListIs, MountInv
  <2>2. Len(mountpoints) \in Nat
    BY <2>1
  <2>. QED  BY <1>2, <2>1, <2>2
<1>4. IsTree(Root) /\ Divided(Root, mountpoints, Len(mountpoints), copy, moved)
  BY <1>2, <1>3 DEF MountInv
<1>. QED  BY <1>2, <1>4, RootTree, MovedTrees

\* Each image is made of the files of its own mountpoint, all of them and no
\* others, for every root file system, whichever mountpoints the images have and
\* in whatever order: collect_mountpoints divides the copy, or fails.
THEOREM TreesDivided == RunSpec => []TreesAsMounted
<1>1. RunInit => OptionsInv /\ DeclaredListed /\ MountInv
  BY OptionsStart, MountStart
<1>2. TypeInv /\ DeclaredListed /\ [RunNext]_runVars => DeclaredListed'
  BY DeclaredStep, RunStepIsGenimages
<1>3. GenInv => TypeInv
  BY DEF GenInv
<1>. QED  BY <1>1, <1>2, <1>3, OptionsStep, MountStep, DividedAsMounted, RunImplementsGenimage, GenSteps, PTL DEF RunSpec
=============================================================================
