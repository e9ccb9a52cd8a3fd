----------------------------- MODULE DiskAreas -----------------------------
(***************************************************************************)
(* What laying out a disk image promises, without how: areas are given out *)
(* one at a time, an area never moves once given, a new one is disjoint    *)
(* from every earlier one except where the earlier one declares that it    *)
(* holds no data, and an accepted layout lies inside the image.            *)
(***************************************************************************)
EXTENDS Integers, Sequences

VARIABLES
  given,    \* the areas given out, in order: records [from, to, holes]
  limit,    \* the size of the image, 0 while it is not known
  verdict   \* "open", "accepted" or "refused"

\* Byte ranges are half open.  A hole is a range of the area that may be overwritten.
Apart(a, b) == a.to <= b.from \/ b.to <= a.from

\* a may be written over b: the bytes they share lie in one hole of b.
SharesOnlyHole(a, b) ==
  \E h \in b.holes :
    /\ h.from <= a.from \/ h.from <= b.from
    /\ a.to <= h.to \/ b.to <= h.to

Compatible(a, b) == Apart(a, b) \/ SharesOnlyHole(a, b)

Init == given = << >> /\ limit \in Nat /\ verdict = "open"

\* One more area.  The image may learn its size on the way, before the first one.
Give ==
  /\ verdict = "open" /\ verdict' = "open"
  /\ Len(given') = Len(given) + 1
  /\ SubSeq(given', 1, Len(given)) = given
  /\ \A k \in 1 .. Len(given) : Compatible(given'[Len(given')], given[k])
  /\ limit' = limit

LearnSize == verdict = "open" /\ given = << >> /\ UNCHANGED <<given, verdict>> /\ limit' \in Nat

Accept ==
  /\ verdict = "open" /\ verdict' = "accepted"
  /\ given' = given
  /\ limit # 0 => limit' = limit
  /\ \A k \in 1 .. Len(given) : given[k].to <= limit'

Refuse == verdict = "open" /\ verdict' = "refused" /\ UNCHANGED <<given, limit>>

Next == Give \/ LearnSize \/ Accept \/ Refuse

Spec == Init /\ [][Next]_<<given, limit, verdict>>
=============================================================================
