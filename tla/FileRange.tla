----------------------------- MODULE FileRange -----------------------------
(***************************************************************************)
(* What the comment above insert_image (util.c) promises of a call: it     *)
(* updates exactly the range [offset, offset+size) of the output, whatever *)
(* the order it writes in and wherever it stops.  A unit outside the range *)
(* keeps its value; one inside has its old value until it gets, once, the  *)
(* one it is to have; and success means that all of them have it.          *)
(***************************************************************************)
EXTENDS Integers

CONSTANTS
  Positions,   \* every position in the file
  Values       \* what can be there

VARIABLES
  content,     \* the value at each position
  wanted,      \* the values of the range, by position; empty between calls
  status       \* "idle", "busy" or "failed"

Settled(p) == p \notin DOMAIN wanted \/ content[p] = wanted[p]

Init == content \in [Positions -> Values] /\ wanted = << >> /\ status = "idle"

\* Between calls the file is created, resized or replaced as a whole.
Replace ==
  /\ status = "idle" /\ status' = "idle"
  /\ content' \in [Positions -> Values] /\ wanted' = wanted

Call ==
  /\ status = "idle" /\ status' = "busy"
  /\ DOMAIN wanted' \subseteq Positions /\ wanted' \in [DOMAIN wanted' -> Values]
  /\ content' = content

Write ==
  /\ wanted' = wanted
  /\ \A p \in Positions :
       content'[p] = content[p] \/ (p \in DOMAIN wanted /\ content'[p] = wanted[p])

Update == status = "busy" /\ status' = "busy" /\ Write

Return ==
  /\ status = "busy" /\ status' = "idle"
  /\ \A p \in Positions : Settled(p)
  /\ wanted' = << >> /\ content' = content

Fail == status = "busy" /\ status' = "failed" /\ Write

\* A caller that goes on after a failed call.
Ignore ==
  /\ status = "failed" /\ status' = "idle"
  /\ wanted' = << >> /\ content' = content

Next == Replace \/ Call \/ Update \/ Return \/ Fail \/ Ignore

Spec == Init /\ [][Next]_<<content, wanted, status>>
=============================================================================
