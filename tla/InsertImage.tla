---------------------------- MODULE InsertImage ----------------------------
(***************************************************************************)
(* A call of insert_image (util.c): it copies a file into the output file, *)
(* extent by extent and buffer by buffer, writes the padding over the      *)
(* holes and behind the end of the file, and can fail at every system      *)
(* call.  The callers are in the modules that extend this one.             *)
(***************************************************************************)
EXTENDS ImageFile, FiniteSetsExt

CONSTANTS
  NoSub,       \* NULL for the file to insert
  Buf,         \* units in the copy buffer
  MaxFaults    \* bound on failing system calls

ASSUME InsertImageAssumption == Buf \in Nat \ {0} /\ MaxFaults \in Nat

VARIABLES
  out,         \* the output file
  call,        \* the call in progress: its arguments, advanced as it goes, and locals
  faults       \* failed system calls so far

NoCall ==
  [pc |-> "none", sub |-> NoSub, size |-> 0, offset |-> 0, value |-> 0,
   inPos |-> 0, exts |-> << >>, e |-> 1, wanted |-> << >>, plain |-> << >>]

Idle == call.pc = "none"
Busy == call.pc \in {"open", "extent", "copy"}

-----------------------------------------------------------------------------
\* What a call is to write, unit by unit: the file where it has extents, the
\* padding elsewhere.  Recorded at the call, for the properties.
InExtents(exts, u) == \E i \in DOMAIN exts : exts[i].start <= u /\ u < exts[i].end

WantedBy(sub, size, offset, value) ==
  [p \in offset .. offset + size - 1 |->
     IF sub # NoSub /\ p - offset < sub.size /\ InExtents(MapFileExtents(sub, size), p - offset)
     THEN sub.at[p - offset] ELSE value]

\* The same if the holes of the file were copied as the zeros they read as.
PlainCopy(sub, size, offset, value) ==
  [p \in offset .. offset + size - 1 |->
     IF sub # NoSub /\ p - offset < sub.size THEN sub.at[p - offset] ELSE value]

InsertImage(sub, size, offset, value) ==
  call' = [NoCall EXCEPT !.pc = "open", !.sub = sub, !.size = size, !.offset = offset,
             !.value = value, !.wanted = WantedBy(sub, size, offset, value),
             !.plain = PlainCopy(sub, size, offset, value)]

\* A write that reaches past the end of a device does not fit.
Fits(end) == ~out.device \/ end <= out.size

-----------------------------------------------------------------------------
\* Both files are opened and the extents of the input read; without an input
\* all that is left is the padding.
OpenFiles ==
  /\ call.pc = "open"
  /\ call.sub # NoSub => ~MapFails(call.sub, call.size)
  /\ call' = [call EXCEPT !.pc = "extent",
                !.exts = IF call.sub = NoSub THEN << >> ELSE MapFileExtents(call.sub, call.size)]
  /\ UNCHANGED <<out, faults>>

Extent == call.exts[call.e]
AtExtent == call.pc = "extent" /\ call.e <= Len(call.exts) /\ call.size > 0

\* The hole in front of an extent, as far as it is in the range.
Gap == Min({Extent.start - call.inPos, call.size})

\* Mistaken variant: the place in the output stays.
AdvancedInput(n) == [call EXCEPT !.size = @ - n, !.inPos = @ + n]

Advanced(n) ==
  [call EXCEPT !.size = @ - n, !.offset = @ + n, !.inPos = @ + n]

WriteGap ==
  /\ AtExtent /\ Fits(call.offset + Gap)
  /\ out' = WriteBytes(out, Gap, call.offset, call.value)
  /\ call' = [Advanced(Gap) EXCEPT !.pc = "copy"]
  /\ faults' = faults

\* One buffer: what is left of the extent and of the range, what the file has.
Wish == Min({Extent.end - call.inPos, Buf, call.size})
Piece ==
  LET n == Min({Wish, IF call.sub.size > call.inPos THEN call.sub.size - call.inPos ELSE 0})
  IN  [i \in 1 .. n |-> call.sub.at[call.inPos + i - 1]]
MoreInExtent == call.pc = "copy" /\ call.inPos < Extent.end /\ call.size > 0

CopyBuffer ==
  /\ MoreInExtent /\ Piece # << >> /\ Fits(call.offset + Len(Piece))
  /\ out' = Written(out, call.offset, Piece)
  /\ call' = Advanced(Len(Piece))
  /\ faults' = faults

\* The extent is copied, or the file ended in it.
\* Mistaken variant: the end of the file does not end the loop.
NextExtentInside ==
  /\ call.pc = "copy" /\ ~MoreInExtent
  /\ call' = [call EXCEPT !.pc = "extent", !.e = @ + 1]
  /\ UNCHANGED <<out, faults>>

NextExtent ==
  /\ call.pc = "copy"
  /\ MoreInExtent => Piece = << >>
  /\ call' = [call EXCEPT !.pc = "extent", !.e = @ + 1]
  /\ UNCHANGED <<out, faults>>

\* The padding behind the last extent; the call returns 0.
Fill ==
  /\ call.pc = "extent" /\ ~AtExtent /\ Fits(call.offset + call.size)
  /\ out' = WriteBytes(out, call.size, call.offset, call.value)
  /\ call' = [call EXCEPT !.pc = "ok"]
  /\ faults' = faults

\* A write that does not fit its device, or the extents of nothing at all.
CannotSucceed ==
  \/ call.pc = "open" /\ call.sub # NoSub /\ MapFails(call.sub, call.size)
  \/ AtExtent /\ ~Fits(call.offset + Gap)
  \/ MoreInExtent /\ ~Fits(call.offset + Len(Piece))
  \/ call.pc = "extent" /\ ~AtExtent /\ ~Fits(call.offset + call.size)

\* What the failing step writes: nothing, or the beginning of it.
Partial ==
  IF AtExtent THEN Repeated(call.value, Gap)
  ELSE IF MoreInExtent THEN Piece
  ELSE IF call.pc = "extent" THEN Repeated(call.value, call.size)
  ELSE << >>

InsertFails ==
  /\ Busy
  /\ IF CannotSucceed THEN faults' = faults ELSE faults < MaxFaults /\ faults' = faults + 1
  /\ \E n \in 0 .. Len(Partial) :
       /\ Fits(call.offset + n)
       /\ out' = IF n = 0 THEN out ELSE Written(out, call.offset, SubSeq(Partial, 1, n))
  /\ call' = [call EXCEPT !.pc = "failed"]

InsertStep == OpenFiles \/ WriteGap \/ CopyBuffer \/ NextExtent \/ Fill \/ InsertFails
=============================================================================
