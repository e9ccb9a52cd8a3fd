----------------------------- MODULE FlashImage -----------------------------
(***************************************************************************)
(* The flash handler (genimage-src/image-flash.c): flash_setup lays out    *)
(* the partitions on the erase blocks of the flash, one turn of its loop   *)
(* per step, and flash_generate writes them one after the other, the gaps  *)
(* and the rest of each partition erased.                                  *)
(***************************************************************************)
EXTENDS InsertImage

CONSTANTS
  PebSize,     \* size of an erase block
  NumPebs,     \* how many the flash has
  Erased,      \* what erased flash holds: 0xFF
  NoChild      \* a partition without an image

ASSUME FlashAssumption ==
  /\ PebSize \in Nat \ {0} /\ NumPebs \in Nat
  /\ Erased \in Values

FlashSize == PebSize * NumPebs

VARIABLES
  typed,       \* the image has a flash type
  parts,       \* the partitions: size and offset, the latter 0 if not given; image
  imageSize,   \* image->size
  fpc,         \* where the handler is
  at,          \* the partition its loop is at
  partsize,    \* flash_setup: where the last partition ends
  last,        \* flash_setup: the partition with the rest of the flash was seen
  end          \* flash_generate: where the last partition ends

flash == <<typed, parts, imageSize, fpc, at, partsize, last, end>>
layout == <<typed, parts, imageSize, partsize, last>>

Part == parts[at]
Refuse == fpc' = "refused"

-----------------------------------------------------------------------------
\* A partition of size 0 gets what is left of the flash.
Size(p) == IF p.size = 0 THEN FlashSize - partsize ELSE p.size

\* Without an offset it follows the one before it.
Offset(p) == IF p.offset = 0 THEN partsize ELSE p.offset

\* Why flash_setup refuses a partition, given the size of its image.
\* Mistaken variants: it may start inside the one before it; the rest of the
\* flash is not checked to be there.
PartRefusedNoOverlap(p, childSize) ==
  \/ last
  \/ p.size = 0 /\ partsize > FlashSize
  \/ Size(p) % PebSize # 0 \/ p.offset % PebSize # 0
  \/ p.image # NoChild /\ childSize > Size(p)

PartRefusedNoRest(p, childSize) ==
  \/ last
  \/ Size(p) % PebSize # 0 \/ p.offset % PebSize # 0
  \/ p.offset # 0 /\ partsize > p.offset
  \/ p.image # NoChild /\ childSize > Size(p)

PartRefused(p, childSize) ==
  \/ last
  \/ p.size = 0 /\ partsize > FlashSize
  \/ Size(p) % PebSize # 0 \/ p.offset % PebSize # 0
  \/ p.offset # 0 /\ partsize > p.offset
  \/ p.image # NoChild /\ childSize > Size(p)

FlashSetupRefused ==
  /\ fpc = "setup" /\ at = 1 /\ ~typed
  /\ Refuse /\ UNCHANGED <<layout, at, end>>

FlashSetupPart(childSize) ==
  /\ fpc = "setup" /\ typed /\ at <= Len(parts)
  /\ IF PartRefused(Part, childSize)
     THEN Refuse /\ UNCHANGED <<layout, at>>
     ELSE /\ parts' = [parts EXCEPT ![at].size = Size(Part), ![at].offset = Offset(Part)]
          /\ last' = (last \/ Part.size = 0)
          /\ partsize' = Offset(Part) + Size(Part)
          /\ at' = at + 1
          /\ UNCHANGED <<typed, imageSize, fpc>>
  /\ end' = end

FlashSetupEnd ==
  /\ fpc = "setup" /\ typed /\ at > Len(parts)
  /\ IF partsize > FlashSize
     THEN Refuse /\ UNCHANGED <<imageSize, at>>
     ELSE /\ imageSize' = IF imageSize = 0 THEN partsize ELSE imageSize
          /\ fpc' = "ready" /\ at' = 1
  /\ UNCHANGED <<typed, parts, partsize, last, end>>

FlashSetup(childSize) ==
  (FlashSetupRefused \/ FlashSetupPart(childSize) \/ FlashSetupEnd)
    /\ UNCHANGED <<out, call, faults>>

-----------------------------------------------------------------------------
\* prepare_image: a file is created anew; on a device only its first units are
\* cleared, and whether that works is not looked at.
FlashPrepareFile ==
  /\ fpc = "ready" /\ Idle /\ ~out.device
  /\ \/ out' = Prepared(out, imageSize) /\ fpc' = "parts" /\ faults' = faults
     \/ faults < MaxFaults /\ faults' = faults + 1 /\ fpc' = "failed" /\ out' = out
  /\ UNCHANGED <<layout, at, end, call>>

FlashPrepareDevice ==
  /\ fpc = "ready" /\ Idle /\ out.device
  /\ InsertImage(NoSub, Buf \div 2, 0, 0)            \* 2048 bytes, half a buffer
  /\ fpc' = "clear"
  /\ UNCHANGED <<layout, at, end, out, faults>>

FlashPrepared ==
  /\ fpc = "clear" /\ call.pc \in {"ok", "failed"}
  /\ call' = NoCall /\ fpc' = "parts"
  /\ UNCHANGED <<layout, at, end, out, faults>>

\* The gap in front of a partition is filled by a call of its own.
FlashPad ==
  /\ fpc = "parts" /\ Idle /\ at <= Len(parts) /\ Part.offset > end
  /\ InsertImage(NoSub, Part.offset - end, end, Erased)
  /\ fpc' = "pad"
  /\ UNCHANGED <<layout, at, end, out, faults>>

FlashPadDone ==
  /\ fpc = "pad" /\ call.pc = "ok"
  /\ call' = NoCall /\ fpc' = "padded"
  /\ UNCHANGED <<layout, at, end, out, faults>>

FlashPart(child) ==
  /\ at <= Len(parts)
  /\ fpc = "padded" \/ (fpc = "parts" /\ Part.offset <= end)
  /\ InsertImage(IF Part.image = NoChild THEN NoSub ELSE child, Part.size, Part.offset, Erased)
  /\ fpc' = "insert"
  /\ UNCHANGED <<layout, at, end, out, faults>>

FlashPartDone ==
  /\ fpc = "insert" /\ call.pc = "ok"
  /\ end' = Part.offset + Part.size
  /\ at' = at + 1 /\ fpc' = "parts" /\ call' = NoCall
  /\ UNCHANGED <<layout, out, faults>>

FlashFails ==
  /\ fpc \in {"pad", "insert"} /\ call.pc = "failed"
  /\ fpc' = "failed"
  /\ UNCHANGED <<layout, at, end, out, call, faults>>

FlashDone ==
  /\ fpc = "parts" /\ Idle /\ at > Len(parts)
  /\ fpc' = "done"
  /\ UNCHANGED <<layout, at, end, out, call, faults>>

FlashGenerate(child) ==
  \/ FlashPrepareFile \/ FlashPrepareDevice \/ FlashPrepared
  \/ FlashPad \/ FlashPadDone \/ FlashPart(child) \/ FlashPartDone \/ FlashFails \/ FlashDone
  \/ fpc \in {"clear", "pad", "insert"} /\ InsertStep /\ UNCHANGED flash

=============================================================================
