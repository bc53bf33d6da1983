------------------------------ MODULE WebPFile ------------------------------
(***************************************************************************)
(* A WebP file as the muxer writes it and both parsers see it: chunks one  *)
(* after the other behind the RIFF header, each with the position of its   *)
(* header (at), its payload size, and what the payload says (info).  An    *)
(* ANMF chunk encloses the chunks after its own header, up to its size.    *)
(* Sizes are small numbers in place of 12, 8, 10, 6, 16 bytes; payloads of *)
(* odd size are padded.  The canvas has one dimension: every test on the   *)
(* height repeats the one on the width.                                    *)
(***************************************************************************)
EXTENDS Integers, Sequences

CONSTANTS
  RiffHeaderSize, ChunkHeaderSize,
  AnmfSize,       \* what precedes the chunks inside an ANMF
  FeaturesSize,   \* bytes of a VP8 or VP8L payload that tell its features
  SizeOf,         \* payload size of the other chunks, by tag
  UnknownTags

MetadataTags == {"ICCP", "EXIF", "XMP"}
ImageTags == {"VP8", "VP8L"}
KnownTags == MetadataTags \cup ImageTags \cup {"VP8X", "ANIM", "ANMF", "ALPH"}
Tags == KnownTags \cup UnknownTags

ASSUME FormatAssumption ==
  /\ RiffHeaderSize \in Nat \ {0}
  /\ ChunkHeaderSize \in Nat \ {0} /\ ChunkHeaderSize % 2 = 0
  /\ AnmfSize \in Nat /\ AnmfSize % 2 = 0 /\ FeaturesSize \in Nat
  /\ UnknownTags \cap (KnownTags \cup {"unknown"}) = {}
  /\ SizeOf \in [Tags \ {"ANMF"} -> Nat]

\* The chunks, by what their payload says.
VP8XInfo == [flags : SUBSET (MetadataTags \cup {"ANIMATION", "ALPHA"}), canvas : Nat]
ImageInfo == [width : Nat, alpha : BOOLEAN]
AnmfInfo == [x : Nat, width : Nat]

Chunks ==
  [tag : {"VP8X"}, size : Nat, info : VP8XInfo]
    \cup [tag : ImageTags, size : Nat, info : ImageInfo]
    \cup [tag : {"ANMF"}, size : Nat, info : AnmfInfo]
    \cup [tag : Tags \ (ImageTags \cup {"VP8X", "ANMF"}), size : Nat, info : {<<>>}]

Padded(size) == size + (size % 2)

\* Bytes up to the next chunk header: an ANMF only skips its own fields.
DiskSize(c) ==
  ChunkHeaderSize + (IF c.tag = "ANMF" THEN AnmfSize ELSE Padded(c.size))

\* A chunk of its usual size, and an ANMF around the chunks inside.
ChunkOf(tag, info) == [tag |-> tag, size |-> SizeOf[tag], info |-> info]

TotalSize(chunks) ==
  LET size[i \in 0..Len(chunks)] ==
        IF i = 0 THEN 0 ELSE size[i - 1] + DiskSize(chunks[i])
  IN  size[Len(chunks)]

WithoutFields(info, inside) ==                                     \* (faulty)
  <<[tag |-> "ANMF", size |-> TotalSize(inside), info |-> info]>> \o inside

AnmfAround(info, inside) ==
  <<[tag |-> "ANMF", size |-> AnmfSize + TotalSize(inside), info |-> info]>> \o inside

\* A chunk with its position and without.
Placed(c, at) == [tag |-> c.tag, size |-> c.size, info |-> c.info, at |-> at]
Plain(c) == [tag |-> c.tag, size |-> c.size, info |-> c.info]

\* The file: its chunks with their positions, and the end of the RIFF chunk.
FileOf(chunks) ==
  [chunks |-> [i \in DOMAIN chunks |->
                 Placed(chunks[i], RiffHeaderSize + TotalSize(SubSeq(chunks, 1, i - 1)))],
   size |-> RiffHeaderSize + TotalSize(chunks)]

NoFile == [chunks |-> <<>>, size |-> 0]

\* Chunks one after the other, from the RIFF header to the end of the file or
\* beyond it.
IsFile(f) ==
  /\ f.size \in Nat
  /\ [i \in DOMAIN f.chunks |-> Plain(f.chunks[i])] \in Seq(Chunks)
  /\ [i \in DOMAIN f.chunks |-> f.chunks[i].at] \in Seq(Nat)
  /\ 1 \in DOMAIN f.chunks /\ f.chunks[1].at = RiffHeaderSize
  /\ \A i \in DOMAIN f.chunks :
       LET end == f.chunks[i].at + DiskSize(f.chunks[i])
       IN  IF i + 1 \in DOMAIN f.chunks THEN f.chunks[i + 1].at = end ELSE f.size <= end

VARIABLE file     \* the assembled file, or NoFile
=============================================================================
