----------------------------- MODULE BuildOrder -----------------------------
(***************************************************************************)
(* What running genimage promises about the images of a configuration:     *)
(* every image is built at most once, after everything it contains, and    *)
(* success means that all of them are built.                               *)
(***************************************************************************)
EXTENDS FiniteSets

CONSTANT Files   \* every image there could be

VARIABLES
  needs,         \* the images each one contains (never changes)
  wanted,        \* the images of this configuration, {} until they are known
  built,         \* the images built
  outcome        \* "running", "ok" or "failed"

Init == needs \in [Files -> SUBSET Files] /\ wanted = {} /\ built = {} /\ outcome = "running"

Want ==
  /\ outcome = "running" /\ wanted = {} /\ built = {}
  /\ wanted' \subseteq Files
  /\ UNCHANGED <<built, outcome>>

Build ==
  /\ outcome = "running" /\ outcome' = "running"
  /\ wanted' = wanted
  /\ \E f \in wanted \ built :
       needs[f] \subseteq built /\ built' = built \cup {f}

Finish ==
  /\ outcome = "running" /\ outcome' = "ok"
  /\ built = wanted
  /\ UNCHANGED <<wanted, built>>

Fail == outcome = "running" /\ outcome' = "failed" /\ UNCHANGED <<wanted, built>>

Next == (Want \/ Build \/ Finish \/ Fail) /\ needs' = needs

Spec == Init /\ [][Next]_<<needs, wanted, built, outcome>>
=============================================================================
