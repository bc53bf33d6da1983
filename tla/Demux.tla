-------------------------------- MODULE Demux --------------------------------
(***************************************************************************)
(* WebPDemux (src/demux/demux.c): one call of WebPDemuxPartial() or        *)
(* WebPDemux() on the first bytes of a file.  One action per chunk.        *)
(* The names are the code's: start and available are mem_.start_ and       *)
(* mem_.end_, file.size is mem_.riff_end_, status is the ParseStatus of    *)
(* the function at hand.  A frame is a Frame; fragment is the one being    *)
(* filled.  Left out: raw bitstreams without a RIFF header, bytes after    *)
(* the RIFF chunk, background color, loop count and the limits on sizes.   *)
(***************************************************************************)
EXTENDS WebPFile

VARIABLES
  pc,        \* "none", "header", "master", "chunks", "frame", "stored", "returned"
  available, start, status,
  demuxer,   \* state, ext, flags, canvas, frames, numFrames, chunks, animChunks
  fragment,  \* the Frame of StoreFrame()
  storing    \* its locals alpha_chunks and image_chunks, and those of its caller

parser == <<pc, available, start, status, demuxer, fragment, storing>>

NewDemuxer ==
  [state |-> "PARSING_HEADER", ext |-> FALSE, flags |-> {}, canvas |-> -1,
   frames |-> <<>>, numFrames |-> 0, chunks |-> <<>>, animChunks |-> 0]

NoData == [at |-> 0, size |-> 0]

NewFrame == [x |-> 0, width |-> 0, hasAlpha |-> FALSE, num |-> 0,
             complete |-> FALSE, image |-> NoData, alpha |-> NoData]

NotStoring == [alphas |-> 0, images |-> 0, payload |-> 0, from |-> 0, caller |-> "none"]

DemuxInit ==
  /\ pc = "none" /\ available = 0 /\ start = 0 /\ status = "OK"
  /\ demuxer = NewDemuxer /\ fragment = NewFrame /\ storing = NotStoring

\* MemDataSize() and SizeIsInvalid(), with the reading position at pos.
Left(pos) == available - pos
SizeIsInvalid(pos, n) == n > file.size - pos

\* The chunk at the reading position, and where its payload starts.
Chunk ==
  file.chunks[CHOOSE i \in DOMAIN file.chunks : file.chunks[i].at = start]
Payload == start + ChunkHeaderSize

\* The end of each iteration of both loops: the last chunk, or too little data.
AtEnd(pos) == pos = file.size
Starved(pos) == ~AtEnd(pos) /\ Left(pos) < ChunkHeaderSize

------------------------------------------------------------------------------
(* WebPDemuxInternal() and its last part.                                  *)

\* On n bytes.
ReadHeader(n) ==
  /\ IF n < RiffHeaderSize + ChunkHeaderSize
     THEN pc' = "returned" /\ status' = "MORE" /\ UNCHANGED start
     ELSE pc' = "master" /\ status' = "OK" /\ start' = RiffHeaderSize
  /\ UNCHANGED demuxer

\* WebPDemuxPartial() on the first n bytes; an empty buffer is an error.
DemuxOpen(n) ==
  /\ pc = "none" /\ file # NoFile /\ n \in 0..file.size
  /\ available' = n
  /\ IF n = 0
     THEN /\ pc' = "returned" /\ status' = "ERROR" /\ UNCHANGED start
          /\ demuxer' = [NewDemuxer EXCEPT !.state = "PARSE_ERROR"]
     ELSE ReadHeader(n)
  /\ UNCHANGED <<file, fragment, storing>>

IsValidSimpleFormat(d) ==
  d.state # "PARSING_HEADER" =>
    /\ d.canvas > 0
    /\ d.state = "DONE" => d.frames # <<>>
    /\ d.frames[1].width > 0

InCanvas(f, d) ==
  IF "ANIMATION" \in d.flags THEN f.x + f.width <= d.canvas
  ELSE f.x = 0 /\ f.width = d.canvas

BoundsOnly(d, i) == d.frames[i].width > 0 => InCanvas(d.frames[i], d)  \* (faulty)

FrameIsValid(d, i) ==
  LET f == d.frames[i] IN
  /\ "ANIMATION" \in d.flags \/ f.num <= 1
  /\ IF f.complete
     THEN /\ f.alpha.size > 0 => f.alpha.at <= f.image.at
          /\ f.width > 0 /\ f.image.size + f.alpha.size > 0
     ELSE /\ d.state # "DONE" /\ i = Len(d.frames)
          /\ f.alpha.size > 0 /\ f.image.size > 0 => f.alpha.at <= f.image.at
  /\ f.width > 0 => InCanvas(f, d)

IsValidExtendedFormat(d) ==
  d.state # "PARSING_HEADER" =>
    /\ d.canvas > 0
    /\ d.state = "DONE" => d.frames # <<>>
    /\ \A i \in DOMAIN d.frames : FrameIsValid(d, i)

\* The return of the master parser with status s and the demuxer d.
Returned(s, d) ==
  LET partial == available < file.size
      t == IF s = "MORE" /\ ~partial THEN "ERROR" ELSE s
      e == IF s = "OK" THEN [d EXCEPT !.state = "DONE"] ELSE d
      valid == IF d.ext THEN IsValidExtendedFormat(e) ELSE IsValidSimpleFormat(e)
      ok == t # "ERROR" /\ valid
  IN /\ pc' = "returned"
     /\ status' = IF ok THEN t ELSE "ERROR"
     /\ demuxer' = IF ok THEN e ELSE [NewDemuxer EXCEPT !.state = "PARSE_ERROR"]

------------------------------------------------------------------------------
(* The master chunk.                                                       *)

\* ParseVP8X() up to ParseVP8XChunks().
ParseVP8X ==
  /\ pc = "master" /\ Chunk.tag = "VP8X"
  /\ LET end == Payload + Padded(Chunk.size)
         d == [demuxer EXCEPT !.ext = TRUE, !.state = "PARSED_HEADER",
                              !.flags = Chunk.info.flags, !.canvas = Chunk.info.canvas]
     IN IF SizeIsInvalid(Payload, Padded(Chunk.size))
        THEN Returned("ERROR", demuxer) /\ UNCHANGED start
        ELSE IF Left(Payload) < Padded(Chunk.size)
        THEN Returned("MORE", [demuxer EXCEPT !.ext = TRUE]) /\ UNCHANGED start
        ELSE /\ start' = end
             /\ IF SizeIsInvalid(end, ChunkHeaderSize) THEN Returned("ERROR", d)
                ELSE IF Left(end) < ChunkHeaderSize THEN Returned("MORE", d)
                ELSE pc' = "chunks" /\ demuxer' = d /\ UNCHANGED status
  /\ UNCHANGED <<file, available, fragment, storing>>

\* The start of StoreFrame(), which reads chunks at pos.
StoreFrame(f, pos, minSize, caller) ==
  /\ fragment' = f /\ start' = pos
  /\ storing' = [NotStoring EXCEPT !.payload = minSize, !.from = pos,
                                   !.caller = caller]
  /\ IF Left(pos) < ChunkHeaderSize \/ Left(pos) < minSize
     THEN pc' = "stored" /\ status' = "MORE"
     ELSE pc' = "frame" /\ status' = "OK"

\* ParseSingleImage() up to the end of StoreFrame(), and after it.
ParseSimple ==
  /\ pc = "master" /\ Chunk.tag \in ImageTags
  /\ StoreFrame(NewFrame, start, 0, "simple")
  /\ UNCHANGED <<file, available, demuxer>>

NotWebP ==
  /\ pc = "master" /\ Chunk.tag \notin ImageTags \cup {"VP8X"}
  /\ Returned("ERROR", demuxer)
  /\ UNCHANGED <<file, available, start, fragment, storing>>

------------------------------------------------------------------------------
(* One iteration of StoreFrame().                                          *)

\* The payload of the chunk, as far as it is there.
Cut == Padded(Chunk.size) > Left(Payload)

There == IF Cut THEN Left(Payload) ELSE Padded(Chunk.size)

Fits == ~SizeIsInvalid(Payload, Padded(Chunk.size))

\* VP8L has its own alpha.
SecondAlpha == Chunk.tag = "VP8L" /\ storing.alphas > 0

StoreFails ==
  /\ pc = "frame" /\ (~Fits \/ SecondAlpha)
  /\ pc' = "stored" /\ status' = "ERROR" /\ start' = Payload
  /\ UNCHANGED <<file, available, demuxer, fragment, storing>>

\* frame_num
Number == IF storing.caller = "animation" THEN demuxer.numFrames + 1 ELSE 1

\* The chunk is part of the frame, which becomes f.
Stored(f, isImage) ==
  LET end == Payload + There
      s == IF Cut \/ Starved(end) THEN "MORE" ELSE "OK"
  IN /\ fragment' = f /\ start' = end /\ status' = s
     /\ storing' = [storing EXCEPT !.images = @ + (IF isImage THEN 1 ELSE 0),
                                   !.alphas = @ + (IF isImage THEN 0 ELSE 1)]
     /\ pc' = IF s = "OK" /\ ~AtEnd(end) THEN "frame" ELSE "stored"

StoreAlpha ==
  /\ pc = "frame" /\ Chunk.tag = "ALPH" /\ storing.alphas = 0 /\ Fits
  /\ Stored([fragment EXCEPT !.alpha = [at |-> start, size |-> ChunkHeaderSize + There],
                             !.hasAlpha = TRUE, !.num = Number], FALSE)
  /\ UNCHANGED <<file, available, demuxer>>

FeaturesAreEnough == TRUE                                               \* (faulty)

IsComplete == ~Cut

StoreImage ==
  /\ pc = "frame" /\ Chunk.tag \in ImageTags /\ storing.images = 0
  /\ Fits /\ ~SecondAlpha
  /\ IF There < FeaturesSize
     THEN /\ pc' = "stored" /\ status' = (IF Cut THEN "MORE" ELSE "ERROR")
          /\ start' = Payload /\ UNCHANGED <<fragment, storing>>
     ELSE Stored([fragment EXCEPT
                    !.image = [at |-> start, size |-> ChunkHeaderSize + There],
                    !.width = Chunk.info.width,
                    !.hasAlpha = @ \/ Chunk.info.alpha,
                    !.num = Number, !.complete = IsComplete], TRUE)
  /\ UNCHANGED <<file, available, demuxer>>

\* Another chunk: its header is left to the caller.
EndOfFrame ==
  /\ pc = "frame" /\ Fits /\ ~SecondAlpha
  /\ Chunk.tag = "ALPH" => storing.alphas > 0
  /\ Chunk.tag \in ImageTags => storing.images > 0
  /\ pc' = "stored" /\ status' = (IF Cut THEN "MORE" ELSE "OK")
  /\ UNCHANGED <<file, available, start, demuxer, fragment, storing>>

------------------------------------------------------------------------------
(* After StoreFrame().                                                     *)

\* The end of an iteration of ParseVP8XChunks(): loops, or returns.
Loop(pos, s, d) ==
  IF AtEnd(pos) THEN Returned(s, d)
  ELSE IF Starved(pos) THEN Returned("MORE", d)
  ELSE IF s # "OK" THEN Returned(s, d)
  ELSE pc' = "chunks" /\ status' = "OK" /\ demuxer' = d

Add(d, f) == [d EXCEPT !.frames = Append(@, f), !.numFrames = @ + 1]

\* ParseAnimationFrame(): what was read must be inside the ANMF.
FrameStored ==
  /\ pc = "stored" /\ storing.caller = "animation"
  /\ LET s == IF start - storing.from > storing.payload THEN "ERROR" ELSE status
         kept == s # "ERROR" /\ "ANIMATION" \in demuxer.flags /\ fragment.num > 0
     IN Loop(start, s, IF kept THEN Add(demuxer, fragment) ELSE demuxer)
  /\ UNCHANGED <<file, available, start, fragment, storing>>

\* ParseSingleImage(): alpha counts only if VP8X says so.
Cleared(f) ==
  IF "ALPHA" \notin demuxer.flags /\ f.alpha.size > 0
  THEN [f EXCEPT !.alpha = NoData, !.hasAlpha = FALSE] ELSE f

WithImage(f) ==
  LET d == [Add(demuxer, f) EXCEPT !.numFrames = 1] IN
  IF ~demuxer.ext /\ f.width > 0
  THEN [d EXCEPT !.state = "PARSED_HEADER", !.canvas = f.width,
                 !.flags = @ \cup {a \in {"ALPHA"} : f.hasAlpha}]
  ELSE d

ImageStored ==
  /\ pc = "stored" /\ storing.caller \in {"simple", "extended"}
  /\ LET d == IF status = "ERROR" THEN demuxer ELSE WithImage(Cleared(fragment)) IN
     IF storing.caller = "simple" THEN Returned(status, d)
     ELSE Loop(start, status, d)
  /\ UNCHANGED <<file, available, start, fragment, storing>>

------------------------------------------------------------------------------
(* One iteration of ParseVP8XChunks().                                     *)

Reading(tags) == pc = "chunks" /\ Chunk.tag \in tags

BadChunk ==
  /\ pc = "chunks"
  /\ \/ ~Fits \/ Chunk.tag = "VP8X"
     \/ /\ Chunk.tag \in ImageTags \cup {"ALPH"}
        /\ \/ demuxer.animChunks > 0 \/ "ANIMATION" \in demuxer.flags
           \/ demuxer.frames # <<>>
     \/ Chunk.tag = "ANMF" /\ demuxer.animChunks = 0
  /\ Returned("ERROR", demuxer)
  /\ UNCHANGED <<file, available, start, fragment, storing>>

ParseImage ==
  /\ Reading(ImageTags \cup {"ALPH"}) /\ Fits
  /\ demuxer.animChunks = 0 /\ "ANIMATION" \notin demuxer.flags
  /\ demuxer.frames = <<>>
  /\ StoreFrame(NewFrame, start, 0, "extended")
  /\ UNCHANGED <<file, available, demuxer>>

\* The frame is stored when all of it is there.
ParseAnimationFrame ==
  /\ Reading({"ANMF"}) /\ Fits /\ demuxer.animChunks > 0
  /\ IF Padded(Chunk.size) < AnmfSize \/ Left(Payload) < AnmfSize
     THEN /\ Loop(Payload, IF Padded(Chunk.size) < AnmfSize THEN "ERROR" ELSE "MORE",
                  demuxer)
          /\ start' = Payload /\ UNCHANGED <<fragment, storing>>
     ELSE /\ StoreFrame([NewFrame EXCEPT !.x = Chunk.info.x, !.width = Chunk.info.width],
                        Payload + AnmfSize, Padded(Chunk.size) - AnmfSize, "animation")
          /\ UNCHANGED demuxer
  /\ UNCHANGED <<file, available>>

\* ANIM, and the chunks that are stored if the flags announce them.
SkipChunk ==
  /\ Reading({"ANIM"} \cup MetadataTags \cup UnknownTags) /\ Fits
  /\ IF Cut THEN Loop(Payload, "MORE", demuxer) /\ start' = Payload
     ELSE LET end == Payload + Padded(Chunk.size)
              first == Chunk.tag = "ANIM" /\ demuxer.animChunks = 0
              keep == CASE Chunk.tag = "ANIM" -> FALSE
                        [] Chunk.tag \in MetadataTags -> Chunk.tag \in demuxer.flags
                        [] OTHER -> TRUE
              d == IF keep THEN [demuxer EXCEPT !.chunks = Append(@, Chunk.tag)]
                   ELSE IF first THEN [demuxer EXCEPT !.animChunks = 1] ELSE demuxer
          IN start' = end /\ Loop(end, "OK", d)
  /\ UNCHANGED <<file, available, fragment, storing>>

\* WebPDemuxDelete(), before the next call on more data.
DemuxDelete ==
  /\ pc = "returned"
  /\ pc' = "none" /\ available' = 0 /\ start' = 0 /\ status' = "OK"
  /\ demuxer' = NewDemuxer /\ fragment' = NewFrame /\ storing' = NotStoring
  /\ UNCHANGED file

DemuxNext ==
  \/ \E n \in 0..file.size : DemuxOpen(n)
  \/ ParseVP8X \/ ParseSimple \/ NotWebP
  \/ StoreFails \/ StoreAlpha \/ StoreImage \/ EndOfFrame \/ FrameStored \/ ImageStored
  \/ BadChunk \/ ParseImage \/ ParseAnimationFrame \/ SkipChunk \/ DemuxDelete

------------------------------------------------------------------------------
\* GetFramePayload(): the bytes from the alpha chunk to the end of the image.
FramePayload(f) ==
  LET inter == IF f.image.at > 0 THEN f.image.at - (f.alpha.at + f.alpha.size) ELSE 0
  IN IF f.alpha.size > 0
     THEN [at |-> f.alpha.at, size |-> f.image.size + f.alpha.size + inter]
     ELSE f.image
=============================================================================
