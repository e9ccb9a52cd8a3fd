---------------------------- MODULE MCOpenixCard ----------------------------
(***************************************************************************)
(* Images for OpenixCard.  "old" and "new" are complete; "lean" names a    *)
(* file it does not hold; the others end in one of the errors.             *)
(***************************************************************************)
EXTENDS OpenixCard

MCImages == {"old", "new", "lean", "broken", "doubled", "text"}
MCPayloads == {Fex, "boot0_sdcard.fex", "rootfs.fex"}

MCKind == [i \in MCImages |-> IF i = "text" THEN "foreign" ELSE "allwinner"]
MCHolds == [i \in MCImages |->
  IF i = "lean" THEN {Fex, "boot0_sdcard.fex"}
  ELSE IF i \in {"old", "new"} THEN MCPayloads
  ELSE IF i = "text" THEN {} ELSE {Fex}]
MCTable == [i \in MCImages |->
  IF i = "broken" THEN "no_start" ELSE IF i = "doubled" THEN "ambiguous" ELSE "good"]
MCNeeds == [i \in MCImages |-> {"boot0_sdcard.fex", "rootfs.fex"}]

\* An input file called image.img, or any other.
MCBaseNames == {"other"}
ImageBaseNames == {"other", "image"}
=============================================================================
