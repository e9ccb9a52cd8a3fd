------------------------------ MODULE Options ------------------------------
(***************************************************************************)
(* The options of genimage (genimage-src/config.c).  set_config_opts is    *)
(* called twice, before and after the configuration file is read; in each  *)
(* pass a later source replaces an earlier one: default, environment,      *)
(* configuration file, command line.  The first use of a path keeps it for *)
(* the rest of the run, and nothing but the order of the calls makes sure  *)
(* that this is not before the last pass.                                  *)
(***************************************************************************)
EXTENDS Integers, Sequences, FiniteSets, SequencesExt

CONSTANTS
  OptionNames,     \* the options modelled
  NotInFile,       \* those without a .opt: the file cannot set them
  Default,         \* .def of each
  Unset,           \* no value
  HaveSearchPath   \* HAVE_SEARCHPATH: libconfuse can be given include paths

Paths == {"rootpath", "tmppath", "inputpath", "outputpath"}

ASSUME OptionsAssumption ==
  /\ Paths \cup {"config", "includepath"} \subseteq OptionNames
  /\ NotInFile \subseteq OptionNames /\ DOMAIN Default = OptionNames
  /\ \A n \in Paths : Default[n] # Unset
  /\ HaveSearchPath \in BOOLEAN

VARIABLES
  given,       \* environment, config section and arguments (never changes)
  opc,         \* where GenimageWrapper is with the options
  value,       \* c->value of every option
  cached       \* the paths kept by imagepath, inputpath, rootpath and tmppath

options == <<opc, value, cached>>

\* An argument sets an option; others are --help and what getopt rejects.
Help == "help"
Unknown == "unknown"

OptionsInit ==
  /\ opc = "first"
  /\ value = [n \in OptionNames |-> Unset]
  /\ cached = [n \in Paths |-> Unset]

-----------------------------------------------------------------------------
FromFile(n) == IF n \in NotInFile THEN Unset ELSE given.file[n]

\* The arguments are taken in order, up to one that ends the pass; the caller
\* does not look at the result.
Ends(a) == a.name \in {Help, Unknown}

TakenArgs ==
  LET bad == SelectInSeq(given.args, Ends)
  IN  IF bad = 0 THEN given.args ELSE SubSeq(given.args, 1, bad - 1)

AsksForHelp ==
  LET bad == SelectInSeq(given.args, Ends)
  IN  bad # 0 /\ given.args[bad].name = Help

FromArgs(n) ==
  LET last == SelectLastInSeq(TakenArgs, LAMBDA a : a.name = n)
  IN  IF last = 0 THEN Unset ELSE TakenArgs[last].value

\* The last source that has a value; an option none of them sets keeps its own.
Latest(v, sources) ==
  LET i == SelectLastInSeq(sources, LAMBDA s : s # Unset)
  IN  IF i = 0 THEN v ELSE sources[i]

\* One pass; the configuration file is not there in the first one.
\* Mistaken variant: the environment is looked at after the file.
SetConfigOptsEnvLast(withFile) ==
  value' = [n \in OptionNames |->
    Latest(value[n], <<Default[n], IF withFile THEN FromFile(n) ELSE Unset, given.env[n], FromArgs(n)>>)]

SetConfigOpts(withFile) ==
  value' = [n \in OptionNames |->
    Latest(value[n], <<Default[n], given.env[n], IF withFile THEN FromFile(n) ELSE Unset, FromArgs(n)>>)]

FirstPass ==
  /\ opc = "first" /\ ~AsksForHelp
  /\ SetConfigOpts(FALSE)
  /\ opc' = "include" /\ cached' = cached

\* A search path only libconfuse 3 can take.
IncludeRefused == value["includepath"] # Unset /\ ~HaveSearchPath

\* The file is parsed: the section of the file the option names then.
ParseConfig ==
  /\ opc = "include" /\ ~IncludeRefused
  /\ opc' = "second" /\ UNCHANGED <<value, cached>>

SecondPass ==
  /\ opc = "second"
  /\ SetConfigOpts(TRUE)
  /\ opc' = "settled" /\ cached' = cached

\* imagepath, inputpath, rootpath, tmppath: the value at the first call.
Kept(n) == IF cached[n] = Unset THEN value[n] ELSE cached[n]
Keep(ns) ==
  /\ cached' = [n \in Paths |-> IF n \in ns THEN Kept(n) ELSE cached[n]]
  /\ UNCHANGED <<opc, value>>

-----------------------------------------------------------------------------
\* "Initialize all options in the following order" (config.c): the value an
\* option has to end with.
Strongest(n) ==
  CASE FromArgs(n) # Unset -> FromArgs(n)
    [] FromArgs(n) = Unset /\ FromFile(n) # Unset -> FromFile(n)
    [] FromArgs(n) = Unset /\ FromFile(n) = Unset /\ given.env[n] # Unset -> given.env[n]
    [] OTHER -> Default[n]
=============================================================================
