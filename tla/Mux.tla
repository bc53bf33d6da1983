--------------------------------- MODULE Mux ---------------------------------
(***************************************************************************)
(* WebPMux (src/mux/): a container in memory, edited by chunks and frames  *)
(* and assembled into a file.  mux is the object:                          *)
(*   lists    the list of chunks of each kind ("unknown" for the others);  *)
(*   images   the list of WebPMuxImages: header_ (<<>>, or the fields of   *)
(*            its ANMF chunk), alpha_, img_ (lossless or not, width),      *)
(*            has_alpha_ and unknown_;                                     *)
(*   canvas   canvas_width_, 0 if it was not set.                          *)
(* Bitstreams are given by what GetImageData() finds in them.  Left out:   *)
(* durations, methods, copies and ownership of the data, the limits on     *)
(* sizes and the checks on null arguments.                                 *)
(***************************************************************************)
EXTENDS WebPFile, SequencesExt

CONSTANTS
  Bitstreams,   \* [width (0: not an image), lossless, alph (an ALPH chunk),
                \*  inAlpha (alpha in the VP8L)]
  Offsets, Canvases,
  Settable,     \* tags of the chunks that are set and deleted
  MaxFrames     \* bound of the model

IsImage(b) == b.width > 0

VARIABLES mux, result

Lists == MetadataTags \cup {"VP8X", "ANIM", "unknown"}

ASSUME MuxAssumption ==
  /\ Settable \subseteq MetadataTags \cup UnknownTags
  /\ Bitstreams \subseteq [width : Nat, lossless : BOOLEAN, alph : BOOLEAN,
                           inAlpha : BOOLEAN]
  /\ Offsets \subseteq Nat /\ Canvases \subseteq Nat /\ MaxFrames \in Nat

ListOf(tag) == IF tag \in Lists THEN tag ELSE "unknown"

NewMux == [lists |-> [l \in Lists |-> <<>>], images |-> <<>>, canvas |-> 0]

\* DeleteChunks()
Without(chunks, tag) ==
  FoldLeft(LAMBDA kept, c : IF c.tag = tag THEN kept ELSE Append(kept, c), <<>>, chunks)

\* MuxDeleteAllNamedData() and MuxSet(), for chunks that are not images'.  A
\* list of known chunks holds a single tag.
Deleted(m, tag) ==
  [m EXCEPT !.lists[ListOf(tag)] = IF tag \in Lists THEN <<>> ELSE Without(@, tag)]

\* ChunkSetHead() only fills an empty list.
CanSet(m, tag) == m.lists[ListOf(tag)] = <<>>

Set(m, c) == [m EXCEPT !.lists[ListOf(c.tag)] = <<c>>]

\* MuxImageFinalize(): an ALPH chunk before a VP8L is dropped.
Finalized(b, anmf) ==
  [anmf |-> anmf, alph |-> b.alph /\ ~b.lossless, lossless |-> b.lossless,
   width |-> b.width, inAlpha |-> b.inAlpha,
   hasAlpha |-> b.inAlpha \/ (b.alph /\ ~b.lossless), unknown |-> <<>>]

HasHeader(image) == image.anmf # <<>>

NumFrames(m) == Cardinality({i \in DOMAIN m.images : HasHeader(m.images[i])})

------------------------------------------------------------------------------
(* What WebPMuxAssemble() does to the object before it writes.             *)

\* A single frame becomes an image, and an image has no ANIM.
Cleanup(m) ==
  LET alone == /\ NumFrames(m) = 1 /\ HasHeader(m.images[1])
               /\ m.canvas \in {0, m.images[1].width}
      n == IF alone THEN [m EXCEPT !.images[1].anmf = <<>>] ELSE m
  IN  IF NumFrames(n) = 0 THEN Deleted(n, "ANIM") ELSE n

MaxOf(S) == CHOOSE x \in S : \A y \in S : x >= y

\* GetAdjustedCanvasSize()
TightCanvas(m) ==
  IF Len(m.images) = 1 THEN m.images[1].width
  ELSE MaxOf({f.anmf[1].x + f.width : f \in ToSet(m.images)})

Flags(m) ==
  {t \in MetadataTags : m.lists[t] # <<>>}
    \cup {f \in {"ANIMATION"} : HasHeader(m.images[1])}
    \cup {f \in {"ALPHA"} : \E i \in DOMAIN m.images : m.images[i].alph}

MuxHasAlpha(m) == \E i \in DOMAIN m.images : m.images[i].hasAlpha

KeepVP8X(m) == m                                                   \* (faulty)

WithoutVP8X(m) == Deleted(m, "VP8X")

\* CreateVP8XChunk(): the object and the error.
WithVP8X(m) ==
  IF m.images = <<>> THEN [mux |-> m, err |-> "INVALID"]
  ELSE
    LET d == WithoutVP8X(m)
        canvas == IF m.canvas # 0 THEN m.canvas ELSE TightCanvas(m)
        alpha == {f \in {"ALPHA"} : MuxHasAlpha(m)}
    IN CASE TightCanvas(m) > canvas -> [mux |-> d, err |-> "INVALID"]
         [] TightCanvas(m) <= canvas /\ Flags(m) = {} /\ m.lists["unknown"] = <<>> ->
              [mux |-> d, err |-> "OK"]
         [] OTHER ->
              IF ~CanSet(d, "VP8X") THEN [mux |-> d, err |-> "NOT_FOUND"]
              ELSE [mux |-> Set(d, ChunkOf("VP8X", [flags |-> Flags(m) \cup alpha,
                                                    canvas |-> canvas])),
                    err |-> "OK"]

\* MuxGetCanvasInfo()
Features(m) ==
  IF m.lists["VP8X"] # <<>> THEN m.lists["VP8X"][1].info.flags
  ELSE {f \in {"ALPHA"} : m.images[1].hasAlpha}

\* MuxValidate()
Valid(m) ==
  /\ m.images # <<>>
  /\ \A t \in MetadataTags :
       Len(m.lists[t]) = (IF t \in Features(m) THEN 1 ELSE 0)
  /\ Len(m.lists["ANIM"]) <= 1 /\ Len(m.lists["VP8X"]) <= 1
  /\ IF "ANIMATION" \in Features(m)
     THEN m.lists["ANIM"] # <<>> /\ NumFrames(m) > 0
     ELSE /\ m.lists["ANIM"] = <<>> /\ NumFrames(m) = 0
          /\ Len(m.images) = 1 /\ m.canvas \in {0, m.images[1].width}
  /\ m.lists["VP8X"] = <<>> => Len(m.images) = 1
  /\ MuxHasAlpha(m) =>
       IF m.lists["VP8X"] # <<>> THEN "ALPHA" \in Features(m)
       ELSE ~\E i \in DOMAIN m.images : m.images[i].alph

------------------------------------------------------------------------------
(* Writing.                                                                *)

ImageChunks(image) ==
  LET inside ==
        (IF image.alph THEN <<ChunkOf("ALPH", <<>>)>> ELSE <<>>)
          \o <<ChunkOf(IF image.lossless THEN "VP8L" ELSE "VP8",
                       [width |-> image.width, alpha |-> image.inAlpha])>>
          \o image.unknown
  IN IF HasHeader(image)
     THEN AnmfAround([x |-> image.anmf[1].x, width |-> image.anmf[1].width], inside)
     ELSE inside

Emitted(m) ==
  FileOf(m.lists["VP8X"] \o m.lists["ICCP"] \o m.lists["ANIM"]
           \o FlattenSeq([i \in DOMAIN m.images |-> ImageChunks(m.images[i])])
           \o m.lists["EXIF"] \o m.lists["XMP"] \o m.lists["unknown"])

------------------------------------------------------------------------------
(* Reading a file: WebPMuxCreate() and MuxImageParse().  The state of the  *)
(* loop is the object so far, the image being read (wpi), the end of the   *)
(* ANMF chunk around the current one (0 outside) and that of the file.     *)

NoImage == [anmf |-> <<>>, alph |-> FALSE, image |-> <<>>, unknown |-> <<>>,
            partial |-> FALSE]

\* A wpi with an image, as it stands in the list.
ImageOf(w) ==
  [Finalized([width |-> w.image[1].info.width, inAlpha |-> w.image[1].info.alpha,
              lossless |-> w.image[1].tag = "VP8L", alph |-> w.alph], w.anmf)
     EXCEPT !.unknown = w.unknown]

Pushed(s) ==
  [s EXCEPT !.mux.images = Append(@, ImageOf(s.wpi)), !.wpi = NoImage, !.inside = 0]

Failed(s) == [s EXCEPT !.ok = FALSE]

\* One chunk inside an ANMF.
ReadInside(s, c) ==
  LET w == s.wpi
      t == CASE c.tag = "ALPH" /\ ~w.alph ->
                  [s EXCEPT !.wpi.alph = TRUE, !.wpi.partial = TRUE]
             [] c.tag \in ImageTags /\ w.image = <<>> ->
                  [s EXCEPT !.wpi.image = <<c>>, !.wpi.partial = FALSE]
             [] c.tag \in UnknownTags /\ ~w.partial ->
                  [s EXCEPT !.wpi.unknown = Append(@, Plain(c))]
             [] OTHER -> Failed(s)
  IN IF t.ok /\ c.at + DiskSize(c) = s.inside
     THEN IF t.wpi.partial THEN Failed(t) ELSE Pushed(t)
     ELSE t

\* One chunk of the file.
ReadOutside(s, c) ==
  CASE c.tag = "ALPH" /\ ~s.wpi.alph ->
         [s EXCEPT !.wpi.alph = TRUE, !.wpi.partial = TRUE]
    [] c.tag \in ImageTags -> Pushed([s EXCEPT !.wpi.image = <<c>>])
    [] c.tag = "ANMF" /\ ~s.wpi.partial /\ c.size > AnmfSize ->
         [s EXCEPT !.wpi.anmf = <<c.info>>, !.wpi.partial = TRUE,
                   !.inside = c.at + ChunkHeaderSize + c.size]
    [] c.tag \in Lists \cup UnknownTags /\ ~s.wpi.partial ->
         [s EXCEPT !.mux.lists[ListOf(c.tag)] = Append(@, Plain(c)),
                   !.mux.canvas = IF c.tag = "VP8X" THEN c.info.canvas ELSE @]
    [] OTHER -> Failed(s)

\* ChunkVerifyAndAssign(): a chunk is inside the file, or the ANMF around it.
\* What follows the end of the file is not read.
ReadChunk(s, c) ==
  LET limit == IF s.inside > 0 THEN s.inside ELSE s.size IN
  IF c.at >= s.size THEN s
  ELSE IF ~s.ok \/ c.at + ChunkHeaderSize + Padded(c.size) > limit THEN Failed(s)
  ELSE IF s.inside > 0 THEN ReadInside(s, c) ELSE ReadOutside(s, c)

\* <<the object>>, or <<>> if the file is refused.
Create(f) ==
  LET s == FoldLeft(ReadChunk, [mux |-> NewMux, wpi |-> NoImage, inside |-> 0,
                                size |-> f.size, ok |-> TRUE], f.chunks)
  IN IF /\ f.chunks # <<>> /\ f.chunks[1].tag \in ImageTags \cup {"VP8X"}
        /\ s.ok /\ s.inside = 0 /\ ~s.wpi.partial /\ Valid(s.mux)
     THEN <<s.mux>> ELSE <<>>

------------------------------------------------------------------------------
(* The calls.  Each allocation may fail, after what was done before it.    *)

Return(m, r) == mux' = m /\ result' = r /\ file' = NoFile

SetChunk(tag) ==
  LET d == Deleted(mux, tag) IN
  IF ~CanSet(d, tag) THEN Return(d, "NOT_FOUND")
  ELSE Return(Set(d, ChunkOf(tag, <<>>)), "OK") \/ Return(d, "MEMORY")

DeleteChunk(tag) ==
  LET d == Deleted(mux, tag) IN
  Return(d, IF d = mux THEN "NOT_FOUND" ELSE "OK")

\* The images go before the new one is looked at.
SetImage(b) ==
  LET d == [mux EXCEPT !.images = <<>>] IN
  IF ~IsImage(b) THEN Return(d, "INVALID")
  ELSE \/ Return([d EXCEPT !.images = <<Finalized(b, <<>>)>>], "OK")
       \/ Return(d, "MEMORY")

Conflicting == mux.images # <<>> /\ ~HasHeader(mux.images[1])

\* Offsets are snapped to even numbers.
PushFrame(b, x) ==
  /\ Len(mux.images) < MaxFrames
  /\ IF Conflicting \/ ~IsImage(b) THEN Return(mux, "INVALID")
     ELSE LET anmf == [x |-> 2 * (x \div 2), width |-> b.width] IN
          \/ Return([mux EXCEPT !.images = Append(@, Finalized(b, <<anmf>>))], "OK")
          \/ Return(mux, "MEMORY")

DeleteFrame(nth) ==
  LET n == IF nth = 0 THEN Len(mux.images) ELSE nth IN
  IF n \in DOMAIN mux.images
  THEN Return([mux EXCEPT !.images = RemoveAt(@, n)], "OK")
  ELSE Return(mux, "NOT_FOUND")

SetAnimationParams ==
  LET d == Deleted(mux, "ANIM") IN
  Return(Set(d, ChunkOf("ANIM", <<>>)), "OK") \/ Return(d, "MEMORY")

SetCanvasSize(width) ==
  Return([Deleted(mux, "VP8X") EXCEPT !.canvas = width], "OK")

\* What WebPMuxAssemble() leaves of the object, and its result if memory lasts.
Assembled(m) ==
  LET v == WithVP8X(Cleanup(m)) IN
  [mux |-> v.mux,
   err |-> IF v.err # "OK" THEN v.err ELSE IF Valid(v.mux) THEN "OK" ELSE "INVALID"]

\* What GetAdjustedCanvasSize() and GetImageInfo() assert: the images of a chain
\* are frames.
ChainIsFrames(m) == Len(m.images) > 1 => \A i \in DOMAIN m.images : HasHeader(m.images[i])

Assemble ==
  LET c == Cleanup(mux)
      v == WithVP8X(c)
      a == Assembled(mux)
  IN /\ ChainIsFrames(c)
     /\ \/ /\ mux' = a.mux /\ result' = a.err
           /\ file' = (IF a.err = "OK" THEN Emitted(a.mux) ELSE NoFile)
        \/ /\ v.err = "OK" /\ v.mux.lists["VP8X"] # <<>>
           /\ Return(Deleted(c, "VP8X"), "MEMORY")
        \/ v.err = "OK" /\ Return(v.mux, "MEMORY")

\* WebPMuxDelete() and WebPMuxCreate() on the file just assembled.
Reopen ==
  /\ file # NoFile /\ Create(file) # <<>>
  /\ Return(Create(file)[1], "OK")

MuxNext ==
  \/ \E tag \in Settable : SetChunk(tag)
  \/ \E tag \in Settable \cup {"ANIM"} : DeleteChunk(tag)
  \/ \E b \in Bitstreams :
       SetImage(b) \/ \E x \in Offsets : PushFrame(b, x)
  \/ \E nth \in 0..MaxFrames : DeleteFrame(nth)
  \/ \E width \in Canvases : SetCanvasSize(width)
  \/ SetAnimationParams
  \/ Assemble
  \/ Reopen
=============================================================================
