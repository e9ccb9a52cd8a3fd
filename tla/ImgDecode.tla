----------------------------- MODULE ImgDecode -----------------------------
(***************************************************************************)
(* The decoder the documentation gives as the description of the IMAGEWTY  *)
(* format (docs/img_decode: main/main.c over firmware/imgdecode.c), run on *)
(* the image that unpack_image unpacked: every item is found again by its  *)
(* subtype and copied, a buffer at a time, into a new directory.           *)
(***************************************************************************)
EXTENDS OpenixIMG

CONSTANT
  ParserBuffer  \* PARSER_BUFFER_MAX

ASSUME ImgDecodeAssumption == ParserBuffer \in Nat \ {0}

VARIABLES
  dpc,         \* where the decoder is
  index,       \* the item decode_all_item is at
  offset,      \* file_offset: how much of it is copied
  outdir,      \* the directory imgout, by subtype: the bytes of each file, in pieces
  kept,        \* the files of an earlier run that rm left
  lost,        \* the files a write of which failed, which nothing notices
  decoded      \* what decode_all_item returned: "none" until it did

decode == <<dpc, index, offset, outdir, kept, lost, decoded>>
vars == <<image, unpack, decode>>

Leave(p, r) == dpc' = p /\ decoded' = r

Init ==
  /\ UInit
  /\ dpc = "wait" /\ index = 1 /\ offset = 0 /\ decoded = "none"
  /\ outdir \in {[s \in Subtypes |-> << >>], [s \in Subtypes |-> <<Bytes(0, 1)>>]}
  /\ kept = {} /\ lost = {}

-----------------------------------------------------------------------------
\* Img_Open wants the magic and a table of at least one item, and does not look
\* at the version.  The table of an image of the old one is read in the layout
\* of the new one, as a table of 1024 items that most files are too short for.
Openable ==
  /\ image.size > 0 /\ ~image.encrypted
  /\ image.version # "v1" /\ NumFiles > 0

ImgOpen ==
  /\ dpc = "wait" /\ upc = "over"
  /\ \/ Openable /\ dpc' = "clean" /\ decoded' = decoded
     \/ Leave("over", "invalid")
  /\ UNCHANGED <<image, unpack, index, offset, outdir, kept, lost>>

\* rm -rf and mkdir -p; the results of the commands are not looked at, so that
\* some files of an earlier run may stay.
\* Mistaken variant: mkdir -p alone.
MakeImgoutOver ==
  /\ dpc = "clean"
  /\ dpc' = "item"
  /\ UNCHANGED <<image, unpack, index, offset, outdir, kept, lost, decoded>>

MakeImgout ==
  /\ dpc = "clean"
  /\ dpc' = "item"
  /\ kept' \in SUBSET {s \in Subtypes : outdir[s] # << >>}
  /\ outdir' = [s \in Subtypes |-> IF s \in kept' THEN outdir[s] ELSE << >>]
  /\ UNCHANGED <<image, unpack, index, offset, lost, decoded>>

\* Img_OpenItem: the first item with the subtype, not always the one asked for.
OpenItem(s) == SelectInSeq(image.items, LAMBDA f : f.subtype = s)

Subname == image.items[index].subtype
Opened == image.items[OpenItem(Subname)]

\* img_parser_file, up to the first read.  An item of length 0 is an error, as
\* is a file that cannot be created, both on a path that frees a buffer not yet
\* allocated: it may crash.
ParseItemFails ==
  /\ dpc = "item" /\ index <= NumFiles
  /\ Leave("over", "error") \/ Leave("over", "crash")
  /\ UNCHANGED <<image, unpack, index, offset, outdir, kept, lost>>

\* The file is opened, and with that emptied, before the buffer is allocated.
ParseItem ==
  /\ dpc = "item" /\ index <= NumFiles /\ Opened.length > 0
  /\ outdir' = [outdir EXCEPT ![Subname] = << >>]
  /\ lost' = lost \ {Subname}
  /\ \/ dpc' = "read" /\ offset' = 0 /\ decoded' = decoded
     \/ Leave("over", "error") /\ offset' = offset
  /\ UNCHANGED <<image, unpack, index, kept>>

\* Img_ReadItem_Continue refuses an item of 4 GiB and a read that comes out short.
ReadFails ==
  /\ dpc = "read" /\ offset < Opened.length
  /\ Leave("over", "error")
  /\ UNCHANGED <<image, unpack, index, offset, outdir, kept, lost>>

\* Mistaken variant: a whole buffer at the end as well.
PieceWhole == ParserBuffer

Piece == IF Opened.length - offset < ParserBuffer THEN Opened.length - offset ELSE ParserBuffer

\* The first n bytes of the piece at offset; the position is 32 bits wide.
Written(n) == Bytes(Field(Field(Opened.offset) + offset), n)

\* Nothing looks at the result of fwrite, which may leave the end of a piece out.
ReadPiece ==
  /\ dpc = "read" /\ offset < Opened.length /\ Opened.length < Word
  /\ \E n \in 0 .. Piece :
       /\ outdir' = [outdir EXCEPT ![Subname] = Append(@, Written(n))]
       /\ lost' = (IF n < Piece THEN lost \cup {Subname} ELSE lost)
  /\ offset' = offset + Piece
  /\ UNCHANGED <<image, unpack, dpc, index, kept, decoded>>

ItemDone ==
  /\ dpc = "read" /\ offset >= Opened.length
  /\ dpc' = "item" /\ index' = index + 1
  /\ UNCHANGED <<image, unpack, offset, outdir, kept, lost, decoded>>

AllDecoded ==
  /\ dpc = "item" /\ index > NumFiles
  /\ Leave("over", "ok")
  /\ UNCHANGED <<image, unpack, index, offset, outdir, kept, lost>>

Decode ==
  \/ ImgOpen \/ MakeImgout \/ ParseItem \/ ParseItemFails
  \/ ReadPiece \/ ReadFails \/ ItemDone \/ AllDecoded

Step == (Unpack /\ UNCHANGED decode) \/ Decode
Over == dpc = "over" /\ UNCHANGED vars
Next == Step \/ Over

Spec == Init /\ [][Next]_vars

-----------------------------------------------------------------------------
(***************************************************************************)
(* Properties.                                                             *)
(***************************************************************************)
\* The pieces, one behind the other, are these bytes.
Joined(pieces, bytes) ==
  /\ pieces # << >> /\ \A k \in DOMAIN pieces : pieces[k].from < pieces[k].to
  /\ pieces[1].from = bytes.from /\ pieces[Len(pieces)].to = bytes.to
  /\ \A k \in 1 .. Len(pieces) - 1 : pieces[k].to = pieces[k + 1].from

\* Both programs take the same format for the same bytes: a file that unpack_image
\* wrote and the decoder wrote is the same file, in whatever pieces it was read,
\* and also when neither has it right, for a file behind the first 4 GiB.  (Not
\* when it crosses 4 GiB, where only the decoder starts at 0 again, and not when
\* a call of unpack_image or a write of the decoder, of this file, failed.)
OnlyOne(k) ==
  \A m \in DOMAIN image.items \ {k} :
    /\ image.items[m].name # image.items[k].name
    /\ image.items[m].subtype # image.items[k].subtype

SameContents ==
  decoded = "ok" /\ uret = 0 /\ ~failed =>
    \A k \in DOMAIN image.items :
      LET f == image.items[k]
      IN  OnlyOne(k) /\ CanOpen(f.name) /\ Field(f.offset) + f.length <= Word /\ f.subtype \notin lost
            => Joined(outdir[f.subtype], files[f.name])

\* Wherever the decoder stops - at an item of length 0, one of 4 GiB, a file it
\* cannot create, a read or an allocation that fails - the items before are
\* complete, and imgout holds nothing of an earlier image.  (main returns 0 in
\* all these cases.)  The exceptions are the ones the code has: a file a write of
\* which failed, an error at a second item of a subtype, which has begun its
\* file again, and what rm left.
Cut(s) == decoded = "error" /\ s = Subname

PrefixDecoded ==
  decoded \in {"ok", "error", "crash"} =>
    /\ \A k \in 1 .. index - 1 :
         LET f == image.items[OpenItem(image.items[k].subtype)]
         IN  f.offset + f.length <= Word /\ f.subtype \notin lost /\ ~Cut(f.subtype)
               => Joined(outdir[f.subtype], Bytes(f.offset, f.length))
    /\ \A s \in Subtypes \ kept :
         (\A k \in 1 .. NumFiles : k <= index => image.items[k].subtype # s) => outdir[s] = << >>
=============================================================================
