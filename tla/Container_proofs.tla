---------------------------- MODULE Container_proofs -----------------------------
(***************************************************************************)
(* The demuxer and the muxer, for any file that is chunks to its end and   *)
(* any calls on an object of any size.  The parser stays within what it    *)
(* was given: every frame it holds is bytes that are there, and what it    *)
(* declares valid can be used.  The muxer keeps its lists of the chunks    *)
(* they are for, assembling twice is assembling once, and what was         *)
(* written is read back.                                                   *)
(***************************************************************************)
EXTENDS Container, SequenceTheorems, FiniteSetTheorems, WellFoundedInduction, TLAPS

-----------------------------------------------------------------------------
(* The parser, on any file.                                                *)

Data == [at : Nat, size : Nat]
Frames == [x : Nat, width : Nat, hasAlpha : BOOLEAN, num : Nat, complete : BOOLEAN,
           image : Data, alpha : Data]
FlagNames == MetadataTags \cup {"ANIMATION", "ALPHA"}
FlagSets == SUBSET FlagNames
Demuxers ==
  [state : {"PARSING_HEADER", "PARSED_HEADER", "DONE", "PARSE_ERROR"},
   ext : BOOLEAN, flags : FlagSets, canvas : Int, frames : Seq(Frames),
   numFrames : Nat, chunks : Seq(Tags), animChunks : Nat]

ParserType ==
  /\ pc \in {"none", "master", "chunks", "frame", "stored", "returned"}
  /\ available \in Nat /\ start \in Nat /\ status \in {"OK", "MORE", "ERROR"}
  /\ demuxer \in Demuxers /\ fragment \in Frames
  /\ storing \in [alphas : Nat, images : Nat, payload : Nat, from : Nat,
                  caller : {"none", "simple", "extended", "animation"}]

\* The file, and what of it is there.
FileInv == file # NoFile => IsFile(file)
OpenInv == pc # "none" => file # NoFile /\ available <= file.size
IdleInv ==
  pc = "none" => demuxer = NewDemuxer /\ fragment = NewFrame /\ storing = NotStoring

\* Where the next chunk is read its header is there.
AtChunk(pos) == \E i \in DOMAIN file.chunks : file.chunks[i].at = pos
PlaceInv ==
  /\ pc \notin {"none", "returned"} => start > 0
  /\ pc \in {"master", "chunks", "frame"} =>
       AtChunk(start) /\ start + ChunkHeaderSize <= available
  /\ pc = "stored" /\ status = "OK" => AtChunk(start) \/ start = file.size

\* Bytes of a frame: there, and alpha that precedes the image ends where the
\* image starts.
IsThere(d) == d = NoData \/ (d.at > 0 /\ d.size > 0 /\ d.at + d.size <= available)
Sound(f) ==
  /\ IsThere(f.image) /\ IsThere(f.alpha)
  /\ f.image # NoData /\ f.alpha # NoData =>
       f.alpha.at > f.image.at \/ f.alpha.at + f.alpha.size = f.image.at
  /\ f.complete => f.num # 0 /\ f.image # NoData

FramesInv ==
  /\ demuxer.numFrames = Len(demuxer.frames)
  /\ \A i \in DOMAIN demuxer.frames :
       Sound(demuxer.frames[i]) /\ demuxer.frames[i].num \in {0, i}

\* The frame at hand.
Storing == pc \in {"frame", "stored"}
FragmentInv ==
  Storing =>
    /\ Sound(fragment) /\ fragment.num \in {0, Number} /\ storing.caller # "none"
    /\ storing.caller # "animation" => demuxer.frames = <<>> /\ fragment.x = 0
StoringInv ==
  pc = "frame" =>
    /\ storing.alphas = 0 => fragment.alpha = NoData
    /\ storing.images = 0 /\ storing.alphas > 0 =>
         /\ fragment.alpha # NoData
         /\ fragment.alpha.at + fragment.alpha.size = start
    /\ IF storing.images = 0 THEN fragment.image = NoData
       ELSE fragment.image # NoData /\ fragment.image.at < start

\* A simple file begins with its image.
FormatInv ==
  /\ pc \in {"none", "master"} => demuxer = NewDemuxer
  /\ pc = "chunks" => demuxer.ext
  /\ Storing => (storing.caller = "simple" <=> ~demuxer.ext)
SimpleInv ==
  Storing /\ storing.caller = "simple" =>
    /\ demuxer = NewDemuxer
    /\ pc = "frame" =>
         IF storing.images = 0 THEN Chunk.tag \in ImageTags /\ storing.alphas = 0
         ELSE fragment.complete
    /\ pc = "stored" /\ status = "OK" => fragment.complete

DoneInv == demuxer.state = "DONE" => pc = "returned"

ParserInv ==
  /\ ParserType /\ FileInv /\ OpenInv /\ IdleInv /\ PlaceInv /\ FramesInv
  /\ FragmentInv /\ StoringInv /\ FormatInv /\ SimpleInv /\ DoneInv
-----------------------------------------------------------------------------
(* The muxer.                                                              *)

\* The chunks of a list, and those that an image may have.
TagsOf(list) == IF list = "unknown" THEN UnknownTags ELSE {list}
ChunksOf(list) == {c \in Chunks : c.tag \in TagsOf(list)}

Headers == {<<>>} \cup {<<a>> : a \in AnmfInfo}
ImageFields ==
  [anmf : Headers, alph : BOOLEAN, lossless : BOOLEAN, width : Nat, inAlpha : BOOLEAN,
   hasAlpha : BOOLEAN, unknown : Seq(ChunksOf("unknown"))]
Images ==
  {i \in ImageFields : (i.hasAlpha <=> i.inAlpha \/ i.alph) /\ (i.alph => ~i.lossless)}

ListsOfChunks ==
  {f \in [Lists -> Seq(Chunks)] : \A l \in Lists : f[l] \in Seq(ChunksOf(l))}
Muxes == [lists : ListsOfChunks, images : Seq(Images), canvas : Nat]
-----------------------------------------------------------------------------
(* A chunk, and what comes after it.                                       *)

\* A demuxer that parsing goes on with, and a simple file's once it is read.
Going(d) ==
  /\ d \in Demuxers /\ d.numFrames = Len(d.frames) /\ d.state # "DONE"
  /\ \A i \in DOMAIN d.frames : Sound(d.frames[i]) /\ d.frames[i].num \in {0, i}
SimpleRead(d) ==
  /\ "ANIMATION" \notin d.flags /\ Len(d.frames) = 1
  /\ LET f == d.frames[1] IN
     /\ f.complete /\ f.x = 0 /\ f.alpha = NoData
     /\ f.width > 0 => f.width = d.canvas

\* Where a chunk is, CHOOSE finds one with a type, and the next one or the
\* end of the file is behind it.
LEMMA ChunkIsThere ==
  ASSUME IsFile(file), AtChunk(start)
  PROVE  /\ Plain(Chunk) \in Chunks
         /\ AtChunk(start + DiskSize(Chunk)) \/ file.size <= start + DiskSize(Chunk)
<1> DEFINE i == CHOOSE k \in DOMAIN file.chunks : file.chunks[k].at = start
<1>1. i \in DOMAIN file.chunks /\ file.chunks[i].at = start
  BY DEF AtChunk
<1>2. Chunk = file.chunks[i]
  BY DEF Chunk
<1> HIDE DEF i
<1>3. Plain(Chunk) \in Chunks
  <2>1. [k \in DOMAIN file.chunks |-> Plain(file.chunks[k])] \in Seq(Chunks)
    BY DEF IsFile
  <2> DEFINE p == [k \in DOMAIN file.chunks |-> Plain(file.chunks[k])]
  <2>2. p[i] \in Chunks
    BY <2>1, <1>1, DOMAIN p = DOMAIN file.chunks, ElementOfSeq
  <2> QED BY <2>2, <1>1, <1>2
<1>4. LET end == start + DiskSize(Chunk)
      IN  IF i + 1 \in DOMAIN file.chunks THEN file.chunks[i + 1].at = end
          ELSE file.size <= end
  BY <1>1, <1>2 DEF IsFile
<1> QED BY <1>3, <1>4 DEF AtChunk

\* What is known of a chunk by its tag.
LEMMA ChunkTypes ==
  ASSUME NEW c, Plain(c) \in Chunks
  PROVE  /\ c.tag \in Tags /\ c.size \in Nat /\ Padded(c.size) \in Nat
         /\ c.tag = "VP8X" => c.info.flags \in FlagSets /\ c.info.canvas \in Nat
         /\ c.tag \in ImageTags => c.info.width \in Nat /\ c.info.alpha \in BOOLEAN
         /\ c.tag = "ANMF" => c.info.x \in Nat /\ c.info.width \in Nat
         /\ DiskSize(c) \in Nat
<1>0. /\ Plain(c).tag = c.tag /\ Plain(c).size = c.size /\ Plain(c).info = c.info
  BY DEF Plain
<1>1. c.tag \in Tags /\ c.size \in Nat
  BY <1>0 DEF Chunks, Tags, KnownTags, ImageTags, MetadataTags
<1>2. Padded(c.size) \in Nat
  BY <1>1 DEF Padded
<1>3. c.tag = "VP8X" => c.info \in VP8XInfo
  BY <1>0 DEF Chunks, ImageTags
<1>4. c.tag \in ImageTags => c.info \in ImageInfo
  BY <1>0 DEF Chunks, ImageTags
<1>5. c.tag = "ANMF" => c.info \in AnmfInfo
  BY <1>0 DEF Chunks, ImageTags
<1>6. DiskSize(c) \in Nat
  BY <1>1, <1>2, FormatAssumption DEF DiskSize
<1> QED BY <1>1, <1>2, <1>3, <1>4, <1>5, <1>6 DEF VP8XInfo, ImageInfo, AnmfInfo, FlagNames, FlagSets

\* The payload of a frame that is sound and valid.
LEMMA PayloadIsImage ==
  ASSUME NEW f \in Frames, Sound(f), f.complete,
         f.alpha.size > 0 => f.alpha.at <= f.image.at, available \in Nat
  PROVE  /\ FramePayload(f).size = f.image.size + f.alpha.size
         /\ FramePayload(f).at + FramePayload(f).size <= available
<1>1. f.image \in Data /\ f.alpha \in Data
  BY DEF Frames
<1>2. f.image # NoData /\ f.image.at > 0 /\ f.image.at + f.image.size <= available
  BY DEF Sound, IsThere
<1>3. CASE f.alpha = NoData
  BY <1>1, <1>2, <1>3 DEF FramePayload, NoData, Data
<1>4. CASE f.alpha # NoData
  <2>1. f.alpha.size > 0 /\ f.alpha.at + f.alpha.size = f.image.at
    BY <1>1, <1>2, <1>4 DEF Sound, IsThere, Data
  <2> QED BY <1>1, <1>2, <2>1 DEF FramePayload, Data
<1> QED BY <1>3, <1>4
-----------------------------------------------------------------------------
(* The ends of a call and of a turn of the loops.                          *)

\* What every step of a call leaves alone, and what it may leave behind.
Quiet == UNCHANGED <<file, available>> /\ pc # "none"
LocalsType ==
  /\ start' \in Nat /\ fragment' \in Frames
  /\ storing' \in [alphas : Nat, images : Nat, payload : Nat, from : Nat,
                   caller : {"none", "simple", "extended", "animation"}]

\* A demuxer that was just validated as done, has frames that can be used.
LEMMA DoneFrames ==
  ASSUME NEW d, Going(d), NEW e, e = [d EXCEPT !.state = "DONE"], available \in Nat,
         IF d.ext THEN IsValidExtendedFormat(e) ELSE IsValidSimpleFormat(e),
         ~d.ext => SimpleRead(d)
  PROVE  /\ e.frames # <<>>
         /\ \A i \in DOMAIN e.frames :
              LET f == e.frames[i]
                  payload == FramePayload(f)
              IN /\ f.complete /\ f.num = i /\ InCanvas(f, e)
                 /\ payload.size = f.image.size + f.alpha.size
                 /\ payload.at + payload.size <= available
<1>1. /\ d \in Demuxers /\ e \in Demuxers /\ e.state = "DONE"
      /\ e.frames = d.frames /\ e.flags = d.flags /\ e.canvas = d.canvas
  BY DEF Going, Demuxers
<1>2. d.frames \in Seq(Frames)
  BY <1>1 DEF Demuxers
<1>3. e.frames # <<>>
  BY <1>1 DEF IsValidExtendedFormat, IsValidSimpleFormat
<1>4. ASSUME NEW i \in DOMAIN d.frames
      PROVE  LET f == d.frames[i] IN
             /\ f.complete /\ InCanvas(f, e)
             /\ f.alpha.size > 0 => f.alpha.at <= f.image.at
  <2>1. CASE d.ext
    <3>1. FrameIsValid(e, i)
      BY <1>1, <2>1 DEF IsValidExtendedFormat
    <3> QED BY <3>1, <1>1 DEF FrameIsValid
  <2>2. CASE ~d.ext
    <3>1. i = 1
      BY <1>2, <2>2 DEF SimpleRead
    <3>2. d.frames[1].width > 0
      BY <1>1, <2>2 DEF IsValidSimpleFormat
    <3> QED BY <3>1, <3>2, <1>1, <2>2 DEF SimpleRead, InCanvas, NoData
  <2> QED BY <2>1, <2>2
<1>5. ASSUME NEW i \in DOMAIN d.frames
      PROVE  LET f == d.frames[i]
                 payload == FramePayload(f)
             IN /\ f.num = i
                /\ payload.size = f.image.size + f.alpha.size
                /\ payload.at + payload.size <= available
  <2>1. d.frames[i] \in Frames
    BY <1>2, ElementOfSeq
  <2>2. Sound(d.frames[i]) /\ d.frames[i].num \in {0, i}
    BY DEF Going
  <2>3. d.frames[i].num = i
    BY <1>4, <2>2 DEF Sound
  <2> QED BY <2>1, <2>2, <2>3, <1>4, PayloadIsImage
<1> QED BY <1>1, <1>3, <1>4, <1>5

\* A new demuxer is one.
LEMMA NewIsTyped == NewDemuxer \in Demuxers /\ NewFrame \in Frames
<1>1. <<>> \in Seq(Frames) /\ <<>> \in Seq(Tags)
  OBVIOUS
<1>2. {} \in FlagSets /\ -1 \in Int
  BY DEF FlagSets
<1>3. NewDemuxer \in Demuxers
  BY <1>1, <1>2 DEF NewDemuxer, Demuxers
<1>4. NewFrame \in Frames
  BY DEF NewFrame, Frames, NoData, Data
<1> QED BY <1>3, <1>4

\* A call returns with the frames it found, or none.
LEMMA ReturnedKeeps ==
  ASSUME ParserInv, Quiet, LocalsType,
         NEW s \in {"OK", "MORE", "ERROR"}, NEW d, Going(d), Returned(s, d),
         s = "OK" /\ ~d.ext => SimpleRead(d)
  PROVE  ParserInv' /\ DoneIsUsable'
<1> DEFINE e == IF s = "OK" THEN [d EXCEPT !.state = "DONE"] ELSE d
           partial == available < file.size
           t == IF s = "MORE" /\ ~partial THEN "ERROR" ELSE s
           valid == IF d.ext THEN IsValidExtendedFormat(e) ELSE IsValidSimpleFormat(e)
           ok == t # "ERROR" /\ (IF e.ext THEN IsValidExtendedFormat(e) ELSE IsValidSimpleFormat(e))
           bad == [NewDemuxer EXCEPT !.state = "PARSE_ERROR"]
<1>1. /\ d \in Demuxers /\ e \in Demuxers /\ e.ext = d.ext
      /\ e.frames = d.frames /\ e.numFrames = d.numFrames
  BY DEF Going, Demuxers
<1>2. /\ pc' = "returned" /\ status' \in {"OK", "MORE", "ERROR"}
      /\ demuxer' \in {e, bad} /\ (demuxer' = e => (t # "ERROR" /\ valid) \/ e = bad)
  <2> HIDE DEF bad
  <2> QED BY DEF Returned, bad
<1>3. bad \in Demuxers /\ bad.frames = <<>> /\ bad.numFrames = 0 /\ bad.state = "PARSE_ERROR"
  BY NewIsTyped DEF NewDemuxer, Demuxers
<1>4. demuxer' \in Demuxers /\ available \in Nat
  BY <1>1, <1>2, <1>3 DEF ParserInv, ParserType
<1>5. ParserType'
  BY <1>2, <1>4 DEF ParserInv, ParserType, Quiet, LocalsType
<1>6. FramesInv'
  <2>1. CASE demuxer' = e
    BY <2>1, <1>1 DEF FramesInv, Going, Quiet, Sound, IsThere
  <2>2. CASE demuxer' = bad
    BY <2>2, <1>3 DEF FramesInv
  <2> QED BY <2>1, <2>2, <1>2
<1>7. FileInv' /\ OpenInv' /\ IdleInv' /\ DoneInv'
  BY <1>2 DEF ParserInv, FileInv, OpenInv, IdleInv, DoneInv, Quiet
<1>8. PlaceInv' /\ FragmentInv' /\ StoringInv' /\ FormatInv' /\ SimpleInv'
  BY <1>2 DEF PlaceInv, FragmentInv, StoringInv, FormatInv, SimpleInv, Storing
<1>9. ASSUME demuxer'.state = "DONE"
      PROVE  /\ demuxer' = [d EXCEPT !.state = "DONE"] /\ s = "OK"
             /\ IF d.ext THEN IsValidExtendedFormat(demuxer')
                ELSE IsValidSimpleFormat(demuxer')
  BY <1>1, <1>2, <1>3, <1>9 DEF Going
<1>10. DoneIsUsable'
  <2> SUFFICES ASSUME demuxer'.state = "DONE" PROVE DoneIsUsable'
    BY DEF DoneIsUsable
  <2> PICK g : g = demuxer'
    OBVIOUS
  <2>1. /\ g.frames # <<>>
        /\ \A i \in DOMAIN g.frames :
             LET f == g.frames[i]
                 payload == FramePayload(f)
             IN /\ f.complete /\ f.num = i /\ InCanvas(f, g)
                /\ payload.size = f.image.size + f.alpha.size
                /\ payload.at + payload.size <= available
    BY <1>4, <1>9, DoneFrames
  <2> QED BY <2>1 DEF DoneIsUsable, Quiet, InCanvas, FramePayload
<1> QED BY <1>5, <1>6, <1>7, <1>8, <1>10 DEF ParserInv

\* A turn of ParseVP8XChunks() ends where there is another chunk, or returns.
LEMMA LoopKeeps ==
  ASSUME ParserInv, Quiet, LocalsType, demuxer.state # "DONE",
         NEW s \in {"OK", "MORE", "ERROR"}, NEW d, Going(d), d.ext,
         NEW pos \in Nat, start' = pos, pos > 0,
         Loop(pos, s, d), s = "OK" => AtChunk(pos) \/ file.size <= pos
  PROVE  ParserInv' /\ DoneIsUsable'
<1>0. available \in Nat /\ file.size \in Nat /\ available <= file.size
  BY DEF ParserInv, ParserType, LocalsType, OpenInv, FileInv, IsFile, Quiet
<1>1. CASE \E u \in {"OK", "MORE", "ERROR"} : Returned(u, d)
  BY <1>1, ReturnedKeeps
<1>2. CASE /\ ~AtEnd(pos) /\ ~Starved(pos) /\ s = "OK"
           /\ pc' = "chunks" /\ status' = "OK" /\ demuxer' = d
  <2>1. AtChunk(pos) /\ pos + ChunkHeaderSize <= available
    <3>1. ChunkHeaderSize \in Nat
      BY FormatAssumption
    <3>2. pos # file.size /\ ~(available - pos < ChunkHeaderSize)
      BY <1>2 DEF AtEnd, Starved, Left
    <3>3. pos < file.size /\ pos + ChunkHeaderSize <= available
      BY <1>0, <3>1, <3>2
    <3>4. AtChunk(pos)
      BY <1>0, <1>2, <3>3
    <3> QED BY <3>3, <3>4
  <2>2. ParserType'
    BY <1>2 DEF ParserInv, ParserType, LocalsType, Quiet, Going
  <2>3. PlaceInv'
    BY <1>2, <2>1 DEF PlaceInv, AtChunk, Quiet
  <2>4. FramesInv'
    BY <1>2 DEF FramesInv, Going, Sound, IsThere, Quiet
  <2>5. FileInv' /\ OpenInv' /\ IdleInv' /\ DoneInv' /\ FormatInv'
    BY <1>2 DEF ParserInv, FileInv, OpenInv, IdleInv, DoneInv, FormatInv, Quiet, Going, Storing
  <2>6. FragmentInv' /\ StoringInv' /\ SimpleInv'
    BY <1>2 DEF FragmentInv, StoringInv, SimpleInv, Storing
  <2>7. DoneIsUsable'
    BY <1>2 DEF DoneIsUsable, Going
  <2> QED BY <2>2, <2>3, <2>4, <2>5, <2>6, <2>7 DEF ParserInv
<1> QED BY <1>1, <1>2 DEF Loop
-----------------------------------------------------------------------------
(* StoreFrame().                                                           *)

\* The chunk at hand, and how much of it is there.
LEMMA ChunkAtHand ==
  ASSUME ParserInv, pc \in {"master", "chunks", "frame"}
  PROVE  /\ IsFile(file) /\ file.size \in Nat /\ start \in Nat /\ available \in Nat
         /\ start > 0
         /\ ChunkHeaderSize \in Nat \ {0} /\ available <= file.size
         /\ AtChunk(start) /\ start + ChunkHeaderSize <= available
         /\ Plain(Chunk) \in Chunks /\ Padded(Chunk.size) \in Nat /\ There \in Nat
         /\ Payload = start + ChunkHeaderSize /\ Payload + There <= available
         /\ ~Cut => There = Padded(Chunk.size)
         /\ Chunk.tag # "ANMF" =>
              \/ AtChunk(Payload + Padded(Chunk.size))
              \/ file.size <= Payload + Padded(Chunk.size)
<1>1. /\ IsFile(file) /\ start \in Nat /\ available \in Nat /\ available <= file.size
      /\ start > 0
      /\ AtChunk(start) /\ start + ChunkHeaderSize <= available
  BY DEF ParserInv, ParserType, OpenInv, FileInv, PlaceInv
<1>2. file.size \in Nat
  BY <1>1 DEF IsFile
<1>3. ChunkHeaderSize \in Nat \ {0}
  BY FormatAssumption
<1>4. /\ Plain(Chunk) \in Chunks
      /\ AtChunk(start + DiskSize(Chunk)) \/ file.size <= start + DiskSize(Chunk)
  BY <1>1, ChunkIsThere
<1>5. Padded(Chunk.size) \in Nat
  BY <1>4, ChunkTypes
<1>6. Chunk.tag # "ANMF" => start + DiskSize(Chunk) = Payload + Padded(Chunk.size)
  BY <1>1, <1>3, <1>5 DEF DiskSize, Payload
<1>7. /\ There \in Nat /\ Payload = start + ChunkHeaderSize /\ Payload + There <= available
      /\ ~Cut => There = Padded(Chunk.size)
  BY <1>1, <1>3, <1>5 DEF There, Cut, Left, Payload
<1> QED BY <1>1, <1>2, <1>3, <1>4, <1>5, <1>6, <1>7

\* StoreFrame() starts with an empty frame, where a chunk is or none is left.
LEMMA StoreFrameKeeps ==
  ASSUME ParserInv, Quiet, pc \in {"master", "chunks"}, UNCHANGED demuxer,
         NEW f \in Frames, f.image = NoData, f.alpha = NoData, f.num = 0, ~f.complete,
         NEW pos \in Nat, pos > 0, AtChunk(pos) \/ file.size <= pos,
         NEW minSize \in Nat, NEW caller \in {"simple", "extended", "animation"},
         caller = "simple" <=> ~demuxer.ext,
         caller # "animation" => demuxer.frames = <<>> /\ f.x = 0,
         caller = "simple" =>
           demuxer = NewDemuxer /\ pos = start /\ Chunk.tag \in ImageTags,
         StoreFrame(f, pos, minSize, caller)
  PROVE  ParserInv' /\ DoneIsUsable'
<1>0. /\ available \in Nat /\ file.size \in Nat /\ available <= file.size
      /\ ChunkHeaderSize \in Nat \ {0}
  BY ChunkAtHand
<1>1. /\ fragment' = f /\ start' = pos /\ pc' \in {"frame", "stored"}
      /\ status' \in {"OK", "MORE"} /\ (pc' = "stored" => status' = "MORE")
      /\ pc' = "frame" => available - pos >= ChunkHeaderSize
      /\ storing' = [alphas |-> 0, images |-> 0, payload |-> minSize, from |-> pos,
                     caller |-> caller]
  <2>1. /\ fragment' = f /\ start' = pos
        /\ storing' = [NotStoring EXCEPT !.payload = minSize, !.from = pos,
                                         !.caller = caller]
    BY DEF StoreFrame
  <2>2. IF available - pos < ChunkHeaderSize \/ available - pos < minSize
        THEN pc' = "stored" /\ status' = "MORE"
        ELSE pc' = "frame" /\ status' = "OK"
    BY DEF StoreFrame, Left
  <2>3. storing' = [alphas |-> 0, images |-> 0, payload |-> minSize, from |-> pos,
                    caller |-> caller]
    BY <2>1 DEF NotStoring
  <2>4. pc' = "frame" => ~(available - pos < ChunkHeaderSize)
    BY <2>2
  <2>5. pc' = "frame" => available - pos >= ChunkHeaderSize
    BY <1>0, <2>4
  <2> QED BY <2>1, <2>2, <2>3, <2>5
<1>2. pc' = "frame" => AtChunk(pos) /\ pos + ChunkHeaderSize <= available
  BY <1>0, <1>1
<1>3. ParserType'
  BY <1>1 DEF ParserInv, ParserType, Quiet
<1>4. PlaceInv'
  BY <1>1, <1>2 DEF PlaceInv, AtChunk, Quiet
<1>5. Sound(fragment)' /\ (fragment.num = 0 /\ fragment.alpha = NoData
                           /\ fragment.image = NoData)'
  BY <1>1 DEF Sound, IsThere
<1>6. FragmentInv' /\ StoringInv'
  BY <1>1, <1>5 DEF FragmentInv, StoringInv
<1>7. FramesInv'
  BY DEF ParserInv, FramesInv, Sound, IsThere, Quiet
<1>8. FileInv' /\ OpenInv' /\ IdleInv' /\ FormatInv'
  BY <1>1 DEF ParserInv, FileInv, OpenInv, IdleInv, FormatInv, Quiet, Storing
<1>9. SimpleInv'
  <2>1. caller = "simple" => Chunk' = Chunk
    BY <1>1 DEF Chunk, Quiet
  <2> QED BY <1>1, <2>1 DEF SimpleInv, Storing
<1>10. demuxer.state # "DONE"
  BY DEF ParserInv, DoneInv
<1>11. DoneInv' /\ DoneIsUsable'
  BY <1>10 DEF DoneInv, DoneIsUsable
<1> QED BY <1>3, <1>4, <1>6, <1>7, <1>8, <1>9, <1>11 DEF ParserInv

\* What a frame is once the chunk at hand is part of it.
Continues(f, isImage) ==
  LET alphas == storing.alphas + (IF isImage THEN 0 ELSE 1)
      images == storing.images + (IF isImage THEN 1 ELSE 0)
      end == Payload + There
  IN /\ f \in Frames /\ Sound(f) /\ f.num \in {0, Number}
     /\ storing.caller # "animation" => f.x = 0
     /\ alphas = 0 => f.alpha = NoData
     /\ images = 0 /\ alphas > 0 =>
          f.alpha # NoData /\ f.alpha.at + f.alpha.size = end
     /\ IF images = 0 THEN f.image = NoData ELSE f.image # NoData /\ f.image.at < end
     /\ storing.caller = "simple" => images # 0 /\ (Cut \/ f.complete)

\* A chunk that is kept leaves the frame, and the position, as they should be.
LEMMA StoredKeeps ==
  ASSUME ParserInv, Quiet, pc = "frame", UNCHANGED demuxer, Fits, Chunk.tag # "ANMF",
         NEW f, NEW isImage \in BOOLEAN, Continues(f, isImage), Stored(f, isImage)
  PROVE  ParserInv' /\ DoneIsUsable'
<1>0. /\ available \in Nat /\ file.size \in Nat /\ available <= file.size
      /\ ChunkHeaderSize \in Nat \ {0} /\ start \in Nat /\ There \in Nat
      /\ Payload = start + ChunkHeaderSize /\ Payload + There <= available
      /\ ~Cut => There = Padded(Chunk.size)
      /\ \/ AtChunk(Payload + Padded(Chunk.size))
         \/ file.size <= Payload + Padded(Chunk.size)
  BY ChunkAtHand
<1> PICK end : end = Payload + There
  OBVIOUS
<1>1. end \in Nat /\ end <= available /\ end <= file.size /\ end > 0
  BY <1>0
<1>2. /\ fragment' = f /\ start' = end /\ pc' \in {"frame", "stored"}
      /\ status' \in {"OK", "MORE"}
      /\ status' = "OK" => ~Cut /\ ~Starved(end)
      /\ pc' = "frame" => status' = "OK" /\ ~AtEnd(end)
      /\ storing' = [storing EXCEPT !.images = @ + (IF isImage THEN 1 ELSE 0),
                                    !.alphas = @ + (IF isImage THEN 0 ELSE 1)]
  BY DEF Stored
<1>3. storing' \in [alphas : Nat, images : Nat, payload : Nat, from : Nat,
                    caller : {"none", "simple", "extended", "animation"}]
  <2>1. (IF isImage THEN 1 ELSE 0) \in Nat /\ (IF isImage THEN 0 ELSE 1) \in Nat
    OBVIOUS
  <2> PICK di \in Nat, da \in Nat : di = (IF isImage THEN 1 ELSE 0)
                                  /\ da = (IF isImage THEN 0 ELSE 1)
    BY <2>1
  <2>2. storing' = [storing EXCEPT !.images = @ + di, !.alphas = @ + da]
    BY <1>2
  <2>3. storing \in [alphas : Nat, images : Nat, payload : Nat, from : Nat,
                     caller : {"none", "simple", "extended", "animation"}]
    BY DEF ParserInv, ParserType
  <2>4. storing.images + di \in Nat /\ storing.alphas + da \in Nat
    BY <2>3
  <2> QED BY <2>2, <2>3, <2>4
<1>4. /\ storing'.caller = storing.caller
      /\ storing'.images = storing.images + (IF isImage THEN 1 ELSE 0)
      /\ storing'.alphas = storing.alphas + (IF isImage THEN 0 ELSE 1)
      /\ storing.images \in Nat /\ storing.alphas \in Nat
  BY <1>2 DEF ParserInv, ParserType
<1>5. status' = "OK" => AtChunk(end) \/ end = file.size
  BY <1>0, <1>1, <1>2
<1>6. pc' = "frame" => AtChunk(end) /\ end + ChunkHeaderSize <= available
  BY <1>0, <1>1, <1>2, <1>5 DEF AtEnd, Starved, Left
<1>7. ParserType'
  BY <1>1, <1>2, <1>3 DEF ParserInv, ParserType, Quiet, Continues
<1>8. PlaceInv'
  BY <1>1, <1>2, <1>5, <1>6 DEF PlaceInv, AtChunk, Quiet
<1>9. FragmentInv'
  <2>1. Sound(fragment)' /\ Number' = Number
    BY <1>2, <1>4 DEF Continues, Sound, IsThere, Quiet, Number
  <2>2. storing.caller # "none"
        /\ (storing.caller # "animation" => demuxer.frames = <<>>)
    BY DEF ParserInv, FragmentInv, Storing
  <2> QED BY <1>2, <1>4, <2>1, <2>2 DEF FragmentInv, Continues
<1>10. StoringInv'
  BY <1>2, <1>4 DEF StoringInv, Continues
<1>11. FramesInv'
  BY DEF ParserInv, FramesInv, Sound, IsThere, Quiet
<1>12. FileInv' /\ OpenInv' /\ IdleInv' /\ FormatInv'
  BY <1>2, <1>4 DEF ParserInv, FileInv, OpenInv, IdleInv, FormatInv, Quiet, Storing
<1>13. SimpleInv'
  BY <1>2, <1>4 DEF ParserInv, SimpleInv, Storing, Continues
<1>14. demuxer.state # "DONE"
  BY DEF ParserInv, DoneInv
<1>15. DoneInv' /\ DoneIsUsable'
  BY <1>14 DEF DoneInv, DoneIsUsable
<1> QED BY <1>7, <1>8, <1>9, <1>10, <1>11, <1>12, <1>13, <1>15 DEF ParserInv
-----------------------------------------------------------------------------
(* The actions of the parser.                                              *)

\* WebPDemux() starts at the RIFF header, if there is any data.
LEMMA DemuxOpenKeeps ==
  ASSUME ParserInv, NEW n \in 0..file.size, DemuxOpen(n)
  PROVE  ParserInv' /\ DoneIsUsable'
<1> DEFINE refused == [NewDemuxer EXCEPT !.state = "PARSE_ERROR"]
<1>1. IsFile(file) /\ file # NoFile
  BY DEF DemuxOpen, ParserInv, FileInv
<1>2. RiffHeaderSize \in Nat \ {0} /\ ChunkHeaderSize \in Nat \ {0} /\ file.size \in Nat
  BY <1>1, FormatAssumption DEF IsFile
<1>3. AtChunk(RiffHeaderSize)
  BY <1>1 DEF IsFile, AtChunk
<1>4. /\ pc = "none" /\ available' = n /\ file' = file
      /\ fragment' = fragment /\ storing' = storing
      /\ \/ pc' = "returned" /\ status' \in {"ERROR", "MORE"} /\ start' = start
         \/ /\ pc' = "master" /\ status' = "OK" /\ start' = RiffHeaderSize
            /\ demuxer' = NewDemuxer /\ n >= RiffHeaderSize + ChunkHeaderSize
      /\ demuxer' \in {NewDemuxer, refused}
  <2>1. demuxer = NewDemuxer
    BY DEF DemuxOpen, ParserInv, IdleInv
  <2> QED BY <1>2, <2>1 DEF DemuxOpen, ReadHeader
<1>5. /\ demuxer' \in Demuxers /\ demuxer'.frames = <<>> /\ demuxer'.numFrames = 0
      /\ demuxer'.state # "DONE"
  <2>1. /\ refused \in Demuxers /\ refused.frames = <<>> /\ refused.numFrames = 0
        /\ refused.state = "PARSE_ERROR"
    BY NewIsTyped DEF NewDemuxer, Demuxers
  <2>2. /\ NewDemuxer \in Demuxers /\ NewDemuxer.frames = <<>> /\ NewDemuxer.numFrames = 0
        /\ NewDemuxer.state = "PARSING_HEADER"
    BY NewIsTyped DEF NewDemuxer
  <2> QED BY <1>4, <2>1, <2>2
<1>7. ParserType'
  BY <1>2, <1>4, <1>5 DEF ParserInv, ParserType
<1>8. PlaceInv'
  BY <1>2, <1>3, <1>4 DEF PlaceInv, AtChunk
<1>9. FramesInv'
  BY <1>5 DEF FramesInv
<1>10. FileInv' /\ OpenInv' /\ IdleInv' /\ FormatInv' /\ DoneInv'
  BY <1>1, <1>2, <1>4, <1>5
  DEF FileInv, OpenInv, IdleInv, FormatInv, DoneInv, Storing
<1>11. FragmentInv' /\ StoringInv' /\ SimpleInv'
  BY <1>4 DEF FragmentInv, StoringInv, SimpleInv, Storing
<1>12. DoneIsUsable'
  BY <1>5 DEF DoneIsUsable
<1> QED BY <1>7, <1>8, <1>9, <1>10, <1>11, <1>12 DEF ParserInv

\* The demuxer of a call that is under way, and one with other header fields.
LEMMA GoingOn ==
  ASSUME ParserInv, pc \notin {"none", "returned"}
  PROVE  Going(demuxer)
BY DEF ParserInv, ParserType, FramesInv, DoneInv, Going

\* A demuxer with the fields that VP8X gives it.
WithHeader(m, x, fl, ca) ==
  [m EXCEPT !.ext = x, !.state = "PARSED_HEADER", !.flags = fl, !.canvas = ca]

\* It is a demuxer with the same frames.
LEMMA HeaderRead ==
  ASSUME NEW m \in Demuxers, NEW x \in BOOLEAN, NEW fl \in FlagSets, NEW ca \in Int
  PROVE  /\ WithHeader(m, x, fl, ca) \in Demuxers
         /\ WithHeader(m, x, fl, ca).ext = x
         /\ WithHeader(m, x, fl, ca).state = "PARSED_HEADER"
         /\ WithHeader(m, x, fl, ca).frames = m.frames
         /\ WithHeader(m, x, fl, ca).numFrames = m.numFrames
BY DEF Demuxers, WithHeader

\* ParseVP8X()
LEMMA ParseVP8XKeeps ==
  ASSUME ParserInv, ParseVP8X PROVE ParserInv' /\ DoneIsUsable'
<1> DEFINE end == Payload + Padded(Chunk.size)
           d == [demuxer EXCEPT !.ext = TRUE, !.state = "PARSED_HEADER",
                   !.flags = Chunk.info.flags, !.canvas = Chunk.info.canvas]
           x == [demuxer EXCEPT !.ext = TRUE]
<1>0. pc = "master" /\ Chunk.tag = "VP8X" /\ UNCHANGED <<file, available, fragment, storing>>
  BY DEF ParseVP8X
<1>1. Quiet
  BY <1>0 DEF Quiet
<1>2. /\ IsFile(file) /\ file.size \in Nat /\ start \in Nat /\ available \in Nat
      /\ start > 0 /\ ChunkHeaderSize \in Nat \ {0} /\ available <= file.size
      /\ Plain(Chunk) \in Chunks /\ Padded(Chunk.size) \in Nat
      /\ Payload = start + ChunkHeaderSize
      /\ AtChunk(end) \/ file.size <= end
  BY <1>0, ChunkAtHand
<1>3. end \in Nat /\ end > 0
  BY <1>2
<1>4. Going(demuxer) /\ demuxer = NewDemuxer /\ ~demuxer.ext /\ demuxer.frames = <<>>
  BY <1>0, GoingOn DEF ParserInv, FormatInv, NewDemuxer
<1>5. Chunk.info.flags \in FlagSets /\ Chunk.info.canvas \in Nat
  BY <1>0, <1>2, ChunkTypes
<1>6. Going(d) /\ Going(x) /\ d.ext /\ x.ext
  <2> PICK fl \in FlagSets, ca \in Int :
             fl = Chunk.info.flags /\ ca = Chunk.info.canvas
    BY <1>5
  <2>1. demuxer \in Demuxers /\ demuxer.state # "DONE"
    BY <1>4 DEF Going
  <2>2. x \in Demuxers /\ x.ext /\ x.state = demuxer.state
        /\ x.frames = demuxer.frames /\ x.numFrames = demuxer.numFrames
    BY <2>1 DEF Demuxers
  <2>3. d \in Demuxers /\ d.ext /\ d.state = "PARSED_HEADER"
        /\ d.frames = demuxer.frames /\ d.numFrames = demuxer.numFrames
    <3> PICK b \in BOOLEAN : b = TRUE
      OBVIOUS
    <3>1. d = WithHeader(demuxer, b, fl, ca)
      BY DEF WithHeader
    <3> HIDE DEF d
    <3>2. /\ d \in Demuxers /\ d.ext = b /\ d.state = "PARSED_HEADER"
          /\ d.frames = demuxer.frames /\ d.numFrames = demuxer.numFrames
      <4>1. WithHeader(demuxer, b, fl, ca) \in Demuxers
        BY <2>1, HeaderRead
      <4>2. WithHeader(demuxer, b, fl, ca).ext = b
        BY <2>1, HeaderRead
      <4>3. WithHeader(demuxer, b, fl, ca).state = "PARSED_HEADER"
        BY <2>1, HeaderRead
      <4>4. WithHeader(demuxer, b, fl, ca).frames = demuxer.frames
        BY DEF WithHeader, Demuxers
      <4>5. WithHeader(demuxer, b, fl, ca).numFrames = demuxer.numFrames
        BY DEF WithHeader, Demuxers
      <4> QED BY <3>1, <4>1, <4>2, <4>3, <4>4, <4>5, Zenon
    <3> QED BY <3>2
  <2> HIDE DEF d, x
  <2> QED BY <1>4, <2>1, <2>2, <2>3 DEF Going
<1> HIDE DEF d, x, end
<1>7. fragment' \in Frames /\ storing' \in [alphas : Nat, images : Nat, payload : Nat,
         from : Nat, caller : {"none", "simple", "extended", "animation"}]
  BY <1>0 DEF ParserInv, ParserType
<1>8. CASE Returned("ERROR", demuxer) /\ start' = start
  <2>1. LocalsType
    BY <1>2, <1>7, <1>8 DEF LocalsType
  <2> QED BY <1>1, <1>4, <1>8, <2>1, ReturnedKeeps
<1>9. CASE Returned("MORE", x) /\ start' = start
  <2>1. LocalsType
    BY <1>2, <1>7, <1>9 DEF LocalsType
  <2> QED BY <1>1, <1>6, <1>9, <2>1, ReturnedKeeps
<1>10. CASE start' = end /\ (Returned("ERROR", d) \/ Returned("MORE", d))
  <2>1. LocalsType
    BY <1>3, <1>7, <1>10 DEF LocalsType
  <2> QED BY <1>1, <1>6, <1>10, <2>1, ReturnedKeeps
<1>11. CASE /\ start' = end /\ pc' = "chunks" /\ demuxer' = d /\ status' = status
            /\ ~SizeIsInvalid(end, ChunkHeaderSize) /\ ~(Left(end) < ChunkHeaderSize)
  <2>1. end + ChunkHeaderSize <= available
    BY <1>2, <1>3, <1>11 DEF Left
  <2>2. AtChunk(end)
    BY <1>2, <1>3, <2>1
  <2>3. ParserType'
    BY <1>0, <1>3, <1>6, <1>11 DEF ParserInv, ParserType, Going
  <2>4. PlaceInv'
    BY <1>0, <1>3, <1>11, <2>1, <2>2 DEF PlaceInv, AtChunk
  <2>5. FramesInv'
    BY <1>0, <1>6, <1>11 DEF FramesInv, Going, Sound, IsThere
  <2>6. FileInv' /\ OpenInv' /\ IdleInv' /\ FormatInv' /\ DoneInv'
    BY <1>0, <1>6, <1>11
    DEF ParserInv, FileInv, OpenInv, IdleInv, FormatInv, DoneInv, Storing, Going
  <2>7. FragmentInv' /\ StoringInv' /\ SimpleInv'
    BY <1>11 DEF FragmentInv, StoringInv, SimpleInv, Storing
  <2>8. DoneIsUsable'
    BY <1>6, <1>11 DEF DoneIsUsable, Going
  <2> QED BY <2>3, <2>4, <2>5, <2>6, <2>7, <2>8 DEF ParserInv
<1>12. \/ Returned("ERROR", demuxer) /\ start' = start
       \/ Returned("MORE", x) /\ start' = start
       \/ start' = end /\ (Returned("ERROR", d) \/ Returned("MORE", d))
       \/ /\ start' = end /\ pc' = "chunks" /\ demuxer' = d /\ status' = status
          /\ ~SizeIsInvalid(end, ChunkHeaderSize) /\ ~(Left(end) < ChunkHeaderSize)
  BY DEF ParseVP8X, d, x, end
<1> QED BY <1>8, <1>9, <1>10, <1>11, <1>12
-----------------------------------------------------------------------------
(* The actions of StoreFrame().                                            *)

\* ParseSingleImage() of a simple file.
LEMMA ParseSimpleKeeps ==
  ASSUME ParserInv, ParseSimple PROVE ParserInv' /\ DoneIsUsable'
<1>0. /\ pc = "master" /\ Chunk.tag \in ImageTags /\ UNCHANGED <<file, available, demuxer>>
      /\ StoreFrame(NewFrame, start, 0, "simple")
  BY DEF ParseSimple
<1>1. Quiet
  BY <1>0 DEF Quiet
<1>2. start \in Nat /\ start > 0 /\ AtChunk(start)
  BY <1>0, ChunkAtHand
<1>3. demuxer = NewDemuxer /\ ~demuxer.ext /\ demuxer.frames = <<>>
  BY <1>0 DEF ParserInv, FormatInv, NewDemuxer
<1>4. /\ NewFrame \in Frames /\ NewFrame.image = NoData /\ NewFrame.alpha = NoData
      /\ NewFrame.num = 0 /\ ~NewFrame.complete /\ NewFrame.x = 0
  BY NewIsTyped DEF NewFrame
<1> QED BY <1>0, <1>1, <1>2, <1>3, <1>4, StoreFrameKeeps

\* Another first chunk.
LEMMA NotWebPKeeps ==
  ASSUME ParserInv, NotWebP PROVE ParserInv' /\ DoneIsUsable'
<1>0. /\ pc = "master" /\ Returned("ERROR", demuxer)
      /\ UNCHANGED <<file, available, start, fragment, storing>>
  BY DEF NotWebP
<1>1. Quiet /\ LocalsType
  BY <1>0 DEF Quiet, LocalsType, ParserInv, ParserType
<1>2. Going(demuxer)
  BY <1>0, GoingOn
<1> QED BY <1>0, <1>1, <1>2, ReturnedKeeps

\* A turn of StoreFrame() that ends without a chunk for the frame.
LEMMA StopsKeeps ==
  ASSUME ParserInv, Quiet, pc = "frame", UNCHANGED <<demuxer, fragment, storing>>,
         pc' = "stored", status' \in {"OK", "MORE", "ERROR"},
         NEW pos \in Nat, start' = pos, pos > 0,
         status' = "OK" => AtChunk(pos) /\ (storing.caller = "simple" => fragment.complete)
  PROVE  ParserInv' /\ DoneIsUsable'
<1>1. ParserType'
  BY DEF ParserInv, ParserType, Quiet
<1>2. PlaceInv'
  BY DEF PlaceInv, AtChunk, Quiet
<1>3. FragmentInv'
  BY DEF ParserInv, FragmentInv, Storing, Sound, IsThere, Number, Quiet
<1>4. FramesInv'
  BY DEF ParserInv, FramesInv, Sound, IsThere, Quiet
<1>5. FileInv' /\ OpenInv' /\ IdleInv' /\ FormatInv'
  BY DEF ParserInv, FileInv, OpenInv, IdleInv, FormatInv, Storing, Quiet
<1>6. StoringInv' /\ SimpleInv'
  BY DEF ParserInv, StoringInv, SimpleInv, Storing
<1>7. DoneInv' /\ DoneIsUsable'
  BY DEF ParserInv, DoneInv, DoneIsUsable
<1> QED BY <1>1, <1>2, <1>3, <1>4, <1>5, <1>6, <1>7 DEF ParserInv

\* A chunk that does not fit, or a VP8L with an alpha chunk.
LEMMA StoreFailsKeeps ==
  ASSUME ParserInv, StoreFails PROVE ParserInv' /\ DoneIsUsable'
<1>0. /\ pc = "frame" /\ pc' = "stored" /\ status' = "ERROR" /\ start' = Payload
      /\ UNCHANGED <<file, available, demuxer, fragment, storing>>
  BY DEF StoreFails
<1>1. Quiet
  BY <1>0 DEF Quiet
<1>2. Payload \in Nat /\ Payload > 0
  <2>1. start \in Nat /\ ChunkHeaderSize \in Nat \ {0} /\ Payload = start + ChunkHeaderSize
    BY <1>0, ChunkAtHand
  <2> QED BY <2>1
<1> PICK pos \in Nat : pos = Payload
  BY <1>2
<1> QED BY <1>0, <1>1, <1>2, StopsKeeps

\* What the caller of StoreFrame() expects of the frame at hand.
LEMMA FrameAtHand ==
  ASSUME ParserInv, pc = "frame"
  PROVE  /\ fragment \in Frames /\ Sound(fragment) /\ fragment.num \in {0, Number}
         /\ storing.images \in Nat /\ storing.alphas \in Nat /\ Number \in Nat \ {0}
         /\ storing.caller # "animation" => fragment.x = 0
         /\ storing.alphas = 0 => fragment.alpha = NoData
         /\ storing.images = 0 /\ storing.alphas > 0 =>
              fragment.alpha # NoData /\ fragment.alpha.at + fragment.alpha.size = start
         /\ IF storing.images = 0 THEN fragment.image = NoData
            ELSE fragment.image # NoData /\ fragment.image.at < start
         /\ storing.caller = "simple" =>
              IF storing.images = 0 THEN Chunk.tag \in ImageTags /\ storing.alphas = 0
              ELSE fragment.complete
<1>1. Number \in Nat \ {0}
  BY DEF ParserInv, ParserType, Demuxers, Number
<1>2. fragment \in Frames /\ storing.images \in Nat /\ storing.alphas \in Nat
  BY DEF ParserInv, ParserType
<1>3. /\ Sound(fragment) /\ fragment.num \in {0, Number}
      /\ storing.caller # "animation" => fragment.x = 0
  BY DEF ParserInv, FragmentInv, Storing
<1>4. /\ storing.alphas = 0 => fragment.alpha = NoData
      /\ storing.images = 0 /\ storing.alphas > 0 =>
           fragment.alpha # NoData /\ fragment.alpha.at + fragment.alpha.size = start
      /\ IF storing.images = 0 THEN fragment.image = NoData
         ELSE fragment.image # NoData /\ fragment.image.at < start
  BY DEF ParserInv, StoringInv
<1>5. storing.caller = "simple" =>
        IF storing.images = 0 THEN Chunk.tag \in ImageTags /\ storing.alphas = 0
        ELSE fragment.complete
  BY DEF ParserInv, SimpleInv, Storing
<1> QED BY <1>1, <1>2, <1>3, <1>4, <1>5

\* The bytes of the chunk at hand.
Bytes == [at |-> start, size |-> ChunkHeaderSize + There]

\* They are there.
LEMMA BytesAreThere ==
  ASSUME ParserInv, pc = "frame"
  PROVE  /\ Bytes \in Data /\ Bytes # NoData /\ IsThere(Bytes)
         /\ Bytes.at = start /\ Bytes.at + Bytes.size = Payload + There
         /\ start \in Nat /\ There \in Nat /\ start < Payload + There
<1>1. /\ start \in Nat /\ start > 0 /\ There \in Nat /\ available \in Nat
      /\ ChunkHeaderSize \in Nat \ {0}
      /\ Payload = start + ChunkHeaderSize /\ Payload + There <= available
  BY ChunkAtHand
<1>2. Bytes.at = start /\ Bytes.size = ChunkHeaderSize + There
  BY DEF Bytes
<1>3. Bytes \in Data
  BY <1>1 DEF Bytes, Data
<1>4. Bytes # NoData
  BY <1>1, <1>2 DEF NoData
<1>5. IsThere(Bytes) /\ Bytes.at + Bytes.size = Payload + There
  BY <1>1, <1>2 DEF IsThere
<1> QED BY <1>1, <1>2, <1>3, <1>4, <1>5

\* The alpha chunk of a frame.
LEMMA StoreAlphaKeeps ==
  ASSUME ParserInv, StoreAlpha PROVE ParserInv' /\ DoneIsUsable'
<1> PICK f : f = [fragment EXCEPT !.alpha = Bytes, !.hasAlpha = TRUE, !.num = Number]
  OBVIOUS
<1>0. /\ pc = "frame" /\ Chunk.tag = "ALPH" /\ storing.alphas = 0 /\ Fits
      /\ Stored(f, FALSE) /\ UNCHANGED <<file, available, demuxer>>
  BY DEF StoreAlpha, Bytes
<1>1. Quiet /\ Chunk.tag # "ANMF" /\ Chunk.tag \notin ImageTags
  BY <1>0 DEF Quiet, ImageTags
<1>2. /\ fragment \in Frames /\ Sound(fragment)
      /\ storing.images \in Nat /\ storing.alphas \in Nat /\ Number \in Nat \ {0}
      /\ storing.caller # "animation" => fragment.x = 0
      /\ IF storing.images = 0 THEN fragment.image = NoData
         ELSE fragment.image # NoData /\ fragment.image.at < start
      /\ storing.caller = "simple" => storing.images # 0 /\ fragment.complete
  BY <1>0, <1>1, FrameAtHand
<1>3. /\ Bytes \in Data /\ Bytes # NoData /\ IsThere(Bytes)
      /\ Bytes.at = start /\ Bytes.at + Bytes.size = Payload + There
      /\ start \in Nat /\ There \in Nat /\ start < Payload + There
  BY <1>0, BytesAreThere
<1>4. /\ f \in Frames /\ f.alpha = Bytes /\ f.num = Number /\ f.image = fragment.image
      /\ f.x = fragment.x /\ f.complete = fragment.complete
  BY <1>2, <1>3 DEF Frames
<1>5. Payload + There \in Nat
  BY <1>0, ChunkAtHand
<1>6. fragment.image.at \in Nat
  BY <1>2 DEF Frames, Data
<1>7. Sound(f)
  BY <1>2, <1>3, <1>4, <1>6 DEF Sound
<1>8. f.image # NoData => f.image.at < Payload + There
  BY <1>2, <1>3, <1>4, <1>5, <1>6
<1>9. Continues(f, FALSE)
  BY <1>2, <1>3, <1>4, <1>7, <1>8 DEF Continues
<1> QED BY <1>0, <1>1, <1>9, StoredKeeps

\* The frame with its image.
Imaged(f, w, a, n, c) ==
  [f EXCEPT !.image = Bytes, !.width = w, !.hasAlpha = a, !.num = n, !.complete = c]

\* The image of a frame.
LEMMA StoreImageKeeps ==
  ASSUME ParserInv, StoreImage PROVE ParserInv' /\ DoneIsUsable'
<1> PICK f : f = Imaged(fragment, Chunk.info.width, fragment.hasAlpha \/ Chunk.info.alpha,
                        Number, IsComplete)
  OBVIOUS
<1>0. /\ pc = "frame" /\ Chunk.tag \in ImageTags /\ storing.images = 0 /\ Fits
      /\ UNCHANGED <<file, available, demuxer>>
      /\ IF There < FeaturesSize
         THEN /\ pc' = "stored" /\ status' = (IF Cut THEN "MORE" ELSE "ERROR")
              /\ start' = Payload /\ UNCHANGED <<fragment, storing>>
         ELSE Stored(f, TRUE)
  BY DEF StoreImage, Imaged, Bytes
<1>1. Quiet /\ Chunk.tag # "ANMF"
  BY <1>0 DEF Quiet, ImageTags
<1>2. /\ fragment \in Frames /\ Sound(fragment)
      /\ storing.images \in Nat /\ storing.alphas \in Nat /\ Number \in Nat \ {0}
      /\ storing.caller # "animation" => fragment.x = 0
      /\ storing.alphas = 0 => fragment.alpha = NoData
      /\ storing.alphas > 0 =>
              fragment.alpha # NoData /\ fragment.alpha.at + fragment.alpha.size = start
  BY <1>0, FrameAtHand
<1>3. /\ Bytes \in Data /\ Bytes # NoData /\ IsThere(Bytes)
      /\ Bytes.at = start /\ Bytes.at + Bytes.size = Payload + There
      /\ start \in Nat /\ There \in Nat /\ start < Payload + There
  BY <1>0, BytesAreThere
<1>4. /\ f \in Frames /\ f.image = Bytes /\ f.num = Number /\ f.alpha = fragment.alpha
      /\ f.x = fragment.x /\ f.complete = IsComplete
  <2>1. Chunk.info.width \in Nat /\ Chunk.info.alpha \in BOOLEAN
    BY <1>0, ChunkAtHand, ChunkTypes
  <2>2. IsComplete \in BOOLEAN /\ fragment.hasAlpha \in BOOLEAN
    BY <1>2 DEF IsComplete, Cut, Frames
  <2> PICK w \in Nat, a \in BOOLEAN, n \in Nat, c \in BOOLEAN :
             /\ w = Chunk.info.width /\ a = (fragment.hasAlpha \/ Chunk.info.alpha)
             /\ n = Number /\ c = IsComplete
    BY <1>2, <2>1, <2>2
  <2>3. f = Imaged(fragment, w, a, n, c)
    OBVIOUS
  <2>4. /\ f \in Frames /\ f.image = Bytes /\ f.num = n /\ f.alpha = fragment.alpha
        /\ f.x = fragment.x /\ f.complete = c
    BY <1>2, <1>3, <2>3 DEF Imaged, Frames
  <2> QED BY <2>4
<1>5. Payload + There \in Nat
  BY <1>0, ChunkAtHand
<1>6. Sound(f)
  BY <1>2, <1>3, <1>4 DEF Sound
<1>7. Continues(f, TRUE)
  <2>1. storing.images + 1 # 0 /\ storing.images + 1 \in Nat
    BY <1>2
  <2>2. storing.alphas + 0 = storing.alphas /\ (storing.alphas = 0 => f.alpha = NoData)
    BY <1>2, <1>4
  <2>3. f.image # NoData /\ f.image.at < Payload + There
    BY <1>3, <1>4
  <2>4. Cut \/ f.complete
    BY <1>4 DEF IsComplete
  <2> QED BY <1>2, <1>4, <1>6, <2>1, <2>2, <2>3, <2>4 DEF Continues
<1>8. CASE Stored(f, TRUE)
  BY <1>0, <1>1, <1>7, <1>8, StoredKeeps
<1>9. CASE /\ pc' = "stored" /\ status' = (IF Cut THEN "MORE" ELSE "ERROR")
           /\ start' = Payload /\ UNCHANGED <<fragment, storing>>
  <2>1. Payload \in Nat /\ Payload > 0
    <3>1. start \in Nat /\ ChunkHeaderSize \in Nat \ {0} /\ Payload = start + ChunkHeaderSize
      BY <1>0, ChunkAtHand
    <3> QED BY <3>1
  <2> PICK pos \in Nat : pos = Payload
    BY <2>1
  <2>2. status' \in {"MORE", "ERROR"}
    BY <1>9
  <2> QED BY <1>0, <1>1, <1>9, <2>1, <2>2, StopsKeeps
<1> QED BY <1>0, <1>8, <1>9

\* A chunk that is not the frame's.
LEMMA EndOfFrameKeeps ==
  ASSUME ParserInv, EndOfFrame PROVE ParserInv' /\ DoneIsUsable'
<1>0. /\ pc = "frame" /\ (Chunk.tag \in ImageTags => storing.images > 0)
      /\ pc' = "stored" /\ status' = (IF Cut THEN "MORE" ELSE "OK")
      /\ UNCHANGED <<file, available, start, demuxer, fragment, storing>>
  BY DEF EndOfFrame
<1>1. Quiet /\ status' \in {"OK", "MORE"}
  BY <1>0 DEF Quiet
<1>2. start \in Nat /\ start > 0 /\ AtChunk(start)
  BY <1>0, ChunkAtHand
<1>3. storing.caller = "simple" => fragment.complete
  BY <1>0, FrameAtHand
<1> PICK pos \in Nat : pos = start
  BY <1>2
<1> QED BY <1>0, <1>1, <1>2, <1>3, StopsKeeps
-----------------------------------------------------------------------------
(* After StoreFrame(), and the turns of ParseVP8XChunks().                 *)

\* A frame joins the others.
LEMMA AddKeeps ==
  ASSUME NEW d, Going(d), NEW f \in Frames, Sound(f), f.num \in {0, d.numFrames + 1}
  PROVE  /\ Going(Add(d, f)) /\ Add(d, f).ext = d.ext /\ Add(d, f).flags = d.flags
         /\ Add(d, f).canvas = d.canvas /\ Add(d, f).frames = Append(d.frames, f)
         /\ Add(d, f).numFrames = d.numFrames + 1 /\ Add(d, f).state = d.state
<1> PICK fs \in Seq(Frames), n \in Nat : fs = Append(d.frames, f) /\ n = d.numFrames + 1
  <2>1. d.frames \in Seq(Frames) /\ d.numFrames \in Nat
    BY DEF Going, Demuxers
  <2>2. Append(d.frames, f) \in Seq(Frames) /\ d.numFrames + 1 \in Nat
    BY <2>1
  <2> QED BY <2>2
<1>1. Add(d, f) = [d EXCEPT !.frames = fs, !.numFrames = n]
  BY DEF Add
<1>2. /\ Add(d, f) \in Demuxers /\ Add(d, f).ext = d.ext /\ Add(d, f).flags = d.flags
      /\ Add(d, f).canvas = d.canvas /\ Add(d, f).frames = fs
      /\ Add(d, f).numFrames = n /\ Add(d, f).state = d.state
  BY <1>1 DEF Going, Demuxers
<1>3. d.frames \in Seq(Frames) /\ d.numFrames = Len(d.frames)
  BY DEF Going, Demuxers
<1>4. ASSUME NEW i \in DOMAIN fs PROVE Sound(fs[i]) /\ fs[i].num \in {0, i}
  <2>1. CASE i \in DOMAIN d.frames
    BY <1>3, <2>1 DEF Going
  <2>2. CASE i = Len(d.frames) + 1
    BY <1>3, <2>2
  <2> QED BY <1>3, <2>1, <2>2
<1>5. Going(Add(d, f))
  BY <1>2, <1>3, <1>4 DEF Going
<1> QED BY <1>2, <1>5

\* What is left of the frame, and where the next chunk is.
LEMMA AfterFrame ==
  ASSUME ParserInv, pc = "stored"
  PROVE  /\ Going(demuxer) /\ fragment \in Frames /\ Sound(fragment)
         /\ fragment.num \in {0, Number} /\ start \in Nat /\ start > 0
         /\ status \in {"OK", "MORE", "ERROR"}
         /\ status = "OK" => AtChunk(start) \/ file.size <= start
         /\ storing.caller = "simple" <=> ~demuxer.ext
         /\ storing.caller # "animation" => demuxer.frames = <<>> /\ fragment.x = 0
         /\ storing.caller = "simple" =>
              demuxer = NewDemuxer /\ (status = "OK" => fragment.complete)
<1>1. Going(demuxer)
  BY GoingOn
<1>2. /\ fragment \in Frames /\ start \in Nat /\ status \in {"OK", "MORE", "ERROR"}
  BY DEF ParserInv, ParserType
<1>3. file.size \in Nat
  BY DEF ParserInv, OpenInv, FileInv, IsFile
<1>4. start > 0 /\ (status = "OK" => AtChunk(start) \/ file.size <= start)
  BY <1>2, <1>3 DEF ParserInv, PlaceInv
<1>5. /\ Sound(fragment) /\ fragment.num \in {0, Number}
      /\ storing.caller # "animation" => demuxer.frames = <<>> /\ fragment.x = 0
  BY DEF ParserInv, FragmentInv, Storing
<1>6. storing.caller = "simple" <=> ~demuxer.ext
  BY DEF ParserInv, FormatInv, Storing
<1>7. storing.caller = "simple" =>
              demuxer = NewDemuxer /\ (status = "OK" => fragment.complete)
  BY DEF ParserInv, SimpleInv, Storing
<1> QED BY <1>1, <1>2, <1>4, <1>5, <1>6, <1>7

\* ParseAnimationFrame() after StoreFrame().
LEMMA FrameStoredKeeps ==
  ASSUME ParserInv, FrameStored PROVE ParserInv' /\ DoneIsUsable'
<1> PICK s : s = IF start - storing.from > storing.payload THEN "ERROR" ELSE status
  OBVIOUS
<1> PICK d : d = IF s # "ERROR" /\ "ANIMATION" \in demuxer.flags /\ fragment.num > 0
                 THEN Add(demuxer, fragment) ELSE demuxer
  OBVIOUS
<1>0. /\ pc = "stored" /\ storing.caller = "animation" /\ Loop(start, s, d)
      /\ UNCHANGED <<file, available, start, fragment, storing>>
  BY DEF FrameStored
<1>1. Quiet /\ LocalsType
  BY <1>0 DEF Quiet, LocalsType, ParserInv, ParserType
<1>2. /\ Going(demuxer) /\ fragment \in Frames /\ Sound(fragment)
      /\ fragment.num \in {0, Number} /\ start \in Nat /\ start > 0
      /\ status \in {"OK", "MORE", "ERROR"}
      /\ status = "OK" => AtChunk(start) \/ file.size <= start
      /\ demuxer.ext
  BY <1>0, AfterFrame
<1>3. Number = demuxer.numFrames + 1
  BY <1>0 DEF Number
<1>4. Going(d) /\ d.ext
  BY <1>2, <1>3, AddKeeps
<1>5. s \in {"OK", "MORE", "ERROR"} /\ (s = "OK" => status = "OK")
  BY <1>2
<1>6. demuxer.state # "DONE"
  BY <1>2 DEF Going
<1> PICK pos \in Nat : pos = start
  BY <1>2
<1> QED BY <1>0, <1>1, <1>2, <1>4, <1>5, <1>6, LoopKeeps

\* A frame without alpha that VP8X did not announce.
LEMMA ClearedKeeps ==
  ASSUME NEW f \in Frames, Sound(f)
  PROVE  /\ Cleared(f) \in Frames /\ Sound(Cleared(f)) /\ Cleared(f).num = f.num
         /\ Cleared(f).x = f.x /\ Cleared(f).complete = f.complete
         /\ Cleared(f).width = f.width
         /\ "ALPHA" \notin demuxer.flags => Cleared(f).alpha = NoData
<1>1. NoData \in Data
  BY DEF NoData, Data
<1>2. CASE "ALPHA" \notin demuxer.flags /\ f.alpha.size > 0
  <2>1. /\ Cleared(f) \in Frames /\ Cleared(f).num = f.num /\ Cleared(f).x = f.x
        /\ Cleared(f).complete = f.complete /\ Cleared(f).width = f.width
        /\ Cleared(f).alpha = NoData /\ Cleared(f).image = f.image
    BY <1>1, <1>2 DEF Cleared, Frames
  <2>2. Sound(Cleared(f))
    BY <2>1 DEF Sound, IsThere
  <2> QED BY <2>1, <2>2
<1>3. CASE "ALPHA" \in demuxer.flags \/ ~(f.alpha.size > 0)
  <2>1. Cleared(f) = f
    BY <1>3 DEF Cleared
  <2>2. "ALPHA" \notin demuxer.flags => f.alpha = NoData
    BY <1>3 DEF Sound, IsThere
  <2> QED BY <2>1, <2>2
<1> QED BY <1>2, <1>3

\* ParseSingleImage() after StoreFrame().
LEMMA ImageStoredKeeps ==
  ASSUME ParserInv, ImageStored PROVE ParserInv' /\ DoneIsUsable'
<1> PICK f : f = Cleared(fragment)
  OBVIOUS
<1> PICK d : d = IF status = "ERROR" THEN demuxer ELSE WithImage(f)
  OBVIOUS
<1>0. /\ pc = "stored" /\ storing.caller \in {"simple", "extended"}
      /\ UNCHANGED <<file, available, start, fragment, storing>>
      /\ IF storing.caller = "simple" THEN Returned(status, d)
         ELSE Loop(start, status, d)
  BY DEF ImageStored
<1>1. Quiet /\ LocalsType
  BY <1>0 DEF Quiet, LocalsType, ParserInv, ParserType
<1>2. /\ Going(demuxer) /\ fragment \in Frames /\ Sound(fragment)
      /\ fragment.num \in {0, Number} /\ start \in Nat /\ start > 0
      /\ status \in {"OK", "MORE", "ERROR"}
      /\ status = "OK" => AtChunk(start) \/ file.size <= start
      /\ storing.caller = "simple" <=> ~demuxer.ext
      /\ demuxer.frames = <<>> /\ fragment.x = 0
      /\ storing.caller = "simple" =>
           demuxer = NewDemuxer /\ (status = "OK" => fragment.complete)
  BY <1>0, AfterFrame
<1>3. Number = 1 /\ demuxer.numFrames = 0 /\ demuxer.state # "DONE"
  BY <1>0, <1>2 DEF Number, Going
<1>4. /\ f \in Frames /\ Sound(f) /\ f.num = fragment.num /\ f.x = 0
      /\ f.complete = fragment.complete
      /\ "ALPHA" \notin demuxer.flags => f.alpha = NoData
  BY <1>2, ClearedKeeps
<1> PICK a : a = Add(demuxer, f)
  OBVIOUS
<1>5. /\ Going(a) /\ a.ext = demuxer.ext /\ a.flags = demuxer.flags
      /\ a.canvas = demuxer.canvas /\ a.frames = Append(<<>>, f) /\ a.numFrames = 1
  BY <1>2, <1>3, <1>4, AddKeeps
<1>6. [a EXCEPT !.numFrames = 1] = a
  BY <1>5 DEF Going, Demuxers
<1>7. CASE status = "ERROR" \/ demuxer.ext
  <2>1. d = demuxer \/ d = a
    BY <1>6, <1>7 DEF WithImage
  <2>2. Going(d) /\ d.ext = demuxer.ext
    BY <1>2, <1>5, <2>1
  <2>3. CASE storing.caller = "simple"
    BY <1>0, <1>1, <1>2, <1>7, <2>2, <2>3, ReturnedKeeps
  <2>4. CASE storing.caller # "simple"
    <3> PICK pos \in Nat : pos = start
      BY <1>2
    <3> QED BY <1>0, <1>1, <1>2, <1>3, <2>2, <2>4, LoopKeeps
  <2> QED BY <2>3, <2>4
<1>8. CASE status # "ERROR" /\ ~demuxer.ext
  <2>1. f.alpha = NoData /\ demuxer.flags = {} /\ (status = "OK" => f.complete)
    BY <1>2, <1>4, <1>8 DEF NewDemuxer
  <2>2. /\ Going(d) /\ ~d.ext /\ d.frames = Append(<<>>, f) /\ "ANIMATION" \notin d.flags
        /\ f.width > 0 => f.width = d.canvas
    <3>1. CASE ~(f.width > 0)
      BY <1>5, <1>6, <1>8, <2>1, <3>1 DEF WithImage
    <3>2. CASE f.width > 0
      <4> PICK fl : fl = {} \cup {x \in {"ALPHA"} : f.hasAlpha}
        OBVIOUS
      <4>1. fl \in FlagSets /\ "ANIMATION" \notin fl
        BY DEF FlagSets, FlagNames
      <4>2. d = [a EXCEPT !.state = "PARSED_HEADER", !.canvas = f.width, !.flags = fl]
        BY <1>5, <1>6, <1>8, <2>1, <3>2 DEF WithImage
      <4>3. a \in Demuxers /\ f.width \in Int
        BY <1>4, <1>5 DEF Going, Frames
      <4>4. /\ d \in Demuxers /\ d.ext = a.ext /\ d.state = "PARSED_HEADER"
            /\ d.frames = a.frames /\ d.numFrames = a.numFrames
            /\ d.canvas = f.width /\ d.flags = fl
        BY <4>1, <4>2, <4>3 DEF Demuxers
      <4> QED BY <1>5, <1>8, <4>1, <4>4 DEF Going
    <3> QED BY <3>1, <3>2
  <2>3. d.frames = <<f>>
    BY <2>2
  <2>4. status = "OK" => SimpleRead(d)
    BY <1>4, <2>1, <2>2, <2>3 DEF SimpleRead
  <2> QED BY <1>0, <1>1, <1>2, <1>8, <2>2, <2>4, ReturnedKeeps
<1> QED BY <1>7, <1>8

\* ParseVP8XChunks(): a chunk that may not be there.
LEMMA BadChunkKeeps ==
  ASSUME ParserInv, BadChunk PROVE ParserInv' /\ DoneIsUsable'
<1>0. /\ pc = "chunks" /\ Returned("ERROR", demuxer)
      /\ UNCHANGED <<file, available, start, fragment, storing>>
  BY DEF BadChunk
<1>1. Quiet /\ LocalsType
  BY <1>0 DEF Quiet, LocalsType, ParserInv, ParserType
<1>2. Going(demuxer)
  BY <1>0, GoingOn
<1> QED BY <1>0, <1>1, <1>2, ReturnedKeeps

\* Its image.
LEMMA ParseImageKeeps ==
  ASSUME ParserInv, ParseImage PROVE ParserInv' /\ DoneIsUsable'
<1>0. /\ pc = "chunks" /\ demuxer.frames = <<>> /\ UNCHANGED <<file, available, demuxer>>
      /\ StoreFrame(NewFrame, start, 0, "extended")
  BY DEF ParseImage, Reading
<1>1. Quiet
  BY <1>0 DEF Quiet
<1>2. start \in Nat /\ start > 0 /\ AtChunk(start)
  BY <1>0, ChunkAtHand
<1>3. demuxer.ext
  BY <1>0 DEF ParserInv, FormatInv
<1>4. /\ NewFrame \in Frames /\ NewFrame.image = NoData /\ NewFrame.alpha = NoData
      /\ NewFrame.num = 0 /\ ~NewFrame.complete /\ NewFrame.x = 0
  BY NewIsTyped DEF NewFrame
<1> QED BY <1>0, <1>1, <1>2, <1>3, <1>4, StoreFrameKeeps

\* A turn of the loop with a chunk that is no frame's.
LEMMA TurnKeeps ==
  ASSUME ParserInv, pc = "chunks", UNCHANGED <<file, available, fragment, storing>>,
         NEW d, Going(d), d.ext,
         NEW t \in {"OK", "MORE", "ERROR"}, NEW pos \in Nat, pos > 0, start' = pos,
         t = "OK" => AtChunk(pos) \/ file.size <= pos, Loop(pos, t, d)
  PROVE  ParserInv' /\ DoneIsUsable'
<1>1. Quiet /\ LocalsType
  BY DEF Quiet, LocalsType, ParserInv, ParserType
<1>2. demuxer.state # "DONE"
  BY DEF ParserInv, DoneInv
<1> QED BY <1>1, <1>2, LoopKeeps

\* ParseAnimationFrame() up to StoreFrame().
LEMMA ParseAnimationFrameKeeps ==
  ASSUME ParserInv, ParseAnimationFrame PROVE ParserInv' /\ DoneIsUsable'
<1> PICK f : f = [NewFrame EXCEPT !.x = Chunk.info.x, !.width = Chunk.info.width]
  OBVIOUS
<1> PICK pos : pos = Payload + AnmfSize
  OBVIOUS
<1> PICK size : size = Padded(Chunk.size)
  OBVIOUS
<1>0. /\ pc = "chunks" /\ Chunk.tag = "ANMF" /\ UNCHANGED <<file, available>>
      /\ IF size < AnmfSize \/ Left(Payload) < AnmfSize
         THEN /\ Loop(Payload, IF size < AnmfSize THEN "ERROR" ELSE "MORE", demuxer)
              /\ start' = Payload /\ UNCHANGED <<fragment, storing>>
         ELSE /\ StoreFrame(f, pos, size - AnmfSize, "animation")
              /\ UNCHANGED demuxer
  BY DEF ParseAnimationFrame, Reading
<1>1. /\ IsFile(file) /\ start \in Nat /\ start > 0 /\ ChunkHeaderSize \in Nat \ {0}
      /\ Plain(Chunk) \in Chunks /\ size \in Nat /\ Payload = start + ChunkHeaderSize
      /\ AtChunk(start)
  BY <1>0, ChunkAtHand
<1>2. AnmfSize \in Nat /\ Payload \in Nat /\ Payload > 0 /\ pos \in Nat /\ pos > 0
  BY <1>1, FormatAssumption
<1>3. Going(demuxer) /\ demuxer.ext
  BY <1>0, GoingOn DEF ParserInv, FormatInv
<1>4. CASE /\ Loop(Payload, IF size < AnmfSize THEN "ERROR" ELSE "MORE", demuxer)
           /\ start' = Payload /\ UNCHANGED <<fragment, storing>>
  <2> PICK t \in {"MORE", "ERROR"} : t = IF size < AnmfSize THEN "ERROR" ELSE "MORE"
    OBVIOUS
  <2> PICK at \in Nat : at = Payload
    BY <1>2
  <2> QED BY <1>0, <1>2, <1>3, <1>4, TurnKeeps
<1>5. CASE /\ StoreFrame(f, pos, size - AnmfSize, "animation") /\ UNCHANGED demuxer
           /\ ~(size < AnmfSize)
  <2>1. size - AnmfSize \in Nat
    BY <1>1, <1>2, <1>5
  <2>2. Chunk.info.x \in Nat /\ Chunk.info.width \in Nat
    BY <1>0, <1>1, ChunkTypes
  <2>3. /\ f \in Frames /\ f.image = NoData /\ f.alpha = NoData /\ f.num = 0 /\ ~f.complete
    <3>1. NewFrame \in Frames
      BY NewIsTyped
    <3> QED BY <2>2, <3>1 DEF NewFrame, Frames
  <2>4. AtChunk(pos) \/ file.size <= pos
    <3>1. AtChunk(start + DiskSize(Chunk)) \/ file.size <= start + DiskSize(Chunk)
      BY <1>1, ChunkIsThere
    <3>2. start + DiskSize(Chunk) = pos
      BY <1>0, <1>1, <1>2 DEF DiskSize
    <3> QED BY <3>1, <3>2
  <2>5. Quiet
    BY <1>0 DEF Quiet
  <2> QED BY <1>0, <1>2, <1>3, <1>5, <2>1, <2>3, <2>4, <2>5, StoreFrameKeeps
<1> QED BY <1>0, <1>4, <1>5

\* A demuxer with one more chunk, or one that saw ANIM.
LEMMA ChunksKeep ==
  ASSUME NEW d, Going(d), NEW tag \in Tags
  PROVE  LET k == [d EXCEPT !.chunks = Append(@, tag)]
             a == [d EXCEPT !.animChunks = 1]
         IN Going(k) /\ k.ext = d.ext /\ Going(a) /\ a.ext = d.ext
<1>1. d \in Demuxers /\ d.chunks \in Seq(Tags)
  BY DEF Going, Demuxers
<1> PICK cs \in Seq(Tags) : cs = Append(d.chunks, tag)
  <2>1. Append(d.chunks, tag) \in Seq(Tags)
    BY <1>1
  <2> QED BY <2>1
<1> PICK k : k = [d EXCEPT !.chunks = cs]
  OBVIOUS
<1> PICK a : a = [d EXCEPT !.animChunks = 1]
  OBVIOUS
<1>2. /\ k \in Demuxers /\ k.ext = d.ext /\ k.state = d.state /\ k.frames = d.frames
      /\ k.numFrames = d.numFrames
  BY <1>1 DEF Demuxers
<1>3. /\ a \in Demuxers /\ a.ext = d.ext /\ a.state = d.state /\ a.frames = d.frames
      /\ a.numFrames = d.numFrames
  BY <1>1 DEF Demuxers
<1>4. Going(k) /\ Going(a)
  BY <1>2, <1>3 DEF Going
<1> QED BY <1>2, <1>3, <1>4

\* SkipChunk() and StoreChunk().
LEMMA SkipChunkKeeps ==
  ASSUME ParserInv, SkipChunk PROVE ParserInv' /\ DoneIsUsable'
<1> PICK end : end = Payload + Padded(Chunk.size)
  OBVIOUS
<1> PICK k : k = [demuxer EXCEPT !.chunks = Append(@, Chunk.tag)]
  OBVIOUS
<1> PICK a : a = [demuxer EXCEPT !.animChunks = 1]
  OBVIOUS
<1>0. /\ pc = "chunks" /\ Chunk.tag # "ANMF"
      /\ UNCHANGED <<file, available, fragment, storing>>
      /\ \/ Loop(Payload, "MORE", demuxer) /\ start' = Payload
         \/ \E d \in {k, a, demuxer} : start' = end /\ Loop(end, "OK", d)
  BY FormatAssumption DEF SkipChunk, Reading, MetadataTags, KnownTags
<1>1. /\ start \in Nat /\ start > 0 /\ ChunkHeaderSize \in Nat \ {0}
      /\ Plain(Chunk) \in Chunks /\ Padded(Chunk.size) \in Nat
      /\ Payload = start + ChunkHeaderSize
      /\ AtChunk(end) \/ file.size <= end
  BY <1>0, ChunkAtHand
<1>2. Payload \in Nat /\ Payload > 0 /\ end \in Nat /\ end > 0
  BY <1>1
<1>3. Going(demuxer) /\ demuxer.ext
  BY <1>0, GoingOn DEF ParserInv, FormatInv
<1>4. Going(k) /\ k.ext /\ Going(a) /\ a.ext
  <2>1. Chunk.tag \in Tags
    BY <1>1, ChunkTypes
  <2> QED BY <1>3, <2>1, ChunksKeep
<1>5. CASE Loop(Payload, "MORE", demuxer) /\ start' = Payload
  <2> PICK pos \in Nat : pos = Payload
    BY <1>2
  <2> QED BY <1>0, <1>2, <1>3, <1>5, TurnKeeps
<1>6. ASSUME NEW d \in {k, a, demuxer}, start' = end, Loop(end, "OK", d)
      PROVE  ParserInv' /\ DoneIsUsable'
  <2>1. Going(d) /\ d.ext
    BY <1>3, <1>4
  <2> PICK pos \in Nat : pos = end
    BY <1>2
  <2> QED BY <1>0, <1>1, <1>2, <1>6, <2>1, TurnKeeps
<1> QED BY <1>0, <1>5, <1>6

\* A parser that was not called.
LEMMA IdleIsInv ==
  ASSUME FileInv, pc = "none", available \in Nat, start = 0, status = "OK",
         demuxer = NewDemuxer, fragment = NewFrame, storing = NotStoring
  PROVE  ParserInv
<1>1. /\ NewDemuxer.frames = <<>> /\ NewDemuxer.numFrames = 0
      /\ NewDemuxer.state = "PARSING_HEADER"
  BY DEF NewDemuxer
<1>2. ParserType
  BY NewIsTyped DEF ParserType, NotStoring
<1>3. FramesInv
  BY <1>1 DEF FramesInv
<1>4. OpenInv /\ IdleInv /\ PlaceInv /\ FormatInv /\ DoneInv
  BY <1>1 DEF OpenInv, IdleInv, PlaceInv, FormatInv, DoneInv, Storing
<1>5. FragmentInv /\ StoringInv /\ SimpleInv
  BY DEF FragmentInv, StoringInv, SimpleInv, Storing
<1> QED BY <1>2, <1>3, <1>4, <1>5 DEF ParserInv

\* WebPDemuxDelete()
LEMMA DemuxDeleteKeeps ==
  ASSUME ParserInv, DemuxDelete PROVE ParserInv' /\ DoneIsUsable'
<1>0. /\ pc' = "none" /\ available' = 0 /\ start' = 0 /\ status' = "OK"
      /\ demuxer' = NewDemuxer /\ fragment' = NewFrame /\ storing' = NotStoring
      /\ file' = file
  BY DEF DemuxDelete
<1>1. /\ NewDemuxer.frames = <<>> /\ NewDemuxer.numFrames = 0
      /\ NewDemuxer.state = "PARSING_HEADER"
  BY DEF NewDemuxer
<1>2. ParserType'
  BY <1>0, NewIsTyped DEF ParserType, NotStoring
<1>3. FramesInv'
  BY <1>0, <1>1 DEF FramesInv
<1>4. FileInv' /\ OpenInv' /\ IdleInv' /\ PlaceInv' /\ FormatInv' /\ DoneInv'
  BY <1>0, <1>1 DEF ParserInv, FileInv, OpenInv, IdleInv, PlaceInv, FormatInv, DoneInv, Storing
<1>5. FragmentInv' /\ StoringInv' /\ SimpleInv'
  BY <1>0 DEF FragmentInv, StoringInv, SimpleInv, Storing
<1>6. DoneIsUsable'
  BY <1>0, <1>1 DEF DoneIsUsable
<1> QED BY <1>2, <1>3, <1>4, <1>5, <1>6 DEF ParserInv

\* Every step of the parser.
LEMMA ParseKeeps ==
  ASSUME ParserInv, DemuxNext PROVE ParserInv' /\ DoneIsUsable'
<1>1. CASE \E n \in 0..file.size : DemuxOpen(n)
  BY <1>1, DemuxOpenKeeps
<1>2. CASE ParseVP8X \/ ParseSimple \/ NotWebP
  BY <1>2, ParseVP8XKeeps, ParseSimpleKeeps, NotWebPKeeps
<1>3. CASE StoreFails \/ StoreAlpha \/ StoreImage \/ EndOfFrame
  BY <1>3, StoreFailsKeeps, StoreAlphaKeeps, StoreImageKeeps, EndOfFrameKeeps
<1>4. CASE FrameStored \/ ImageStored
  BY <1>4, FrameStoredKeeps, ImageStoredKeeps
<1>5. CASE BadChunk \/ ParseImage \/ ParseAnimationFrame \/ SkipChunk \/ DemuxDelete
  BY <1>5, BadChunkKeeps, ParseImageKeeps, ParseAnimationFrameKeeps, SkipChunkKeeps,
     DemuxDeleteKeeps
<1> QED BY <1>1, <1>2, <1>3, <1>4, <1>5 DEF DemuxNext
-----------------------------------------------------------------------------
(* Recursion over sequences.                                               *)

\* A nonempty set of natural numbers has a least element.
LEMMA Least ==
  ASSUME NEW S \in SUBSET Nat, S # {}
  PROVE  \E x \in S : \A y \in S : x <= y
<1>1. PICK x \in S : \A y \in S : ~ (<<y, x>> \in OpToRel(<, Nat))
  BY WFMin, NatLessThanWellFounded
<1>2. ASSUME NEW y \in S PROVE x <= y
  <2>1. ~ (y < x)
    BY <1>1 DEF OpToRel
  <2> QED BY <2>1
<1> QED BY <1>2

\* A set that holds zero, and the next number with each, holds them all.
LEMMA Induct ==
  ASSUME NEW S, 0 \in S, \A n \in Nat : n \in S => n + 1 \in S
  PROVE  \A n \in Nat : n \in S
<1> DEFINE Others == {n \in Nat : n \notin S}
<1> SUFFICES ASSUME Others # {} PROVE FALSE
  OBVIOUS
<1>1. PICK x \in Others : \A y \in Others : x <= y
  BY Least
<1>2. x # 0 /\ x \in Nat
  OBVIOUS
<1>3. x - 1 \in Nat /\ (x - 1) + 1 = x /\ ~ (x <= x - 1)
  BY <1>2
<1>4. x - 1 \in S
  BY <1>1, <1>3
<1>5. x \in S
  BY <1>3, <1>4
<1> QED BY <1>5

\* What is defined step by step on 0..n is a function g that begins with a and
\* takes the step i from i - 1 to i.
Steps(g, a, step, n) == g[0] = a /\ \A i \in 1..n : g[i] = step[<<g[i - 1], i>>]

\* There is one.
LEMMA StepsExist ==
  ASSUME NEW A, NEW a \in A, NEW n \in Nat, NEW step \in [A \X (1..n) -> A]
  PROVE  \E g \in [0..n -> A] : Steps(g, a, step, n)
<1> DEFINE S == {k \in Nat : k <= n => \E g \in [0..k -> A] : Steps(g, a, step, k)}
<1>1. 0 \in S
  <2>1. [i \in 0..0 |-> a] \in [0..0 -> A] /\ Steps([i \in 0..0 |-> a], a, step, 0)
    BY DEF Steps
  <2> QED BY <2>1
<1>2. ASSUME NEW k \in Nat, k \in S PROVE k + 1 \in S
  <2> SUFFICES ASSUME k + 1 <= n
               PROVE  \E g \in [0..(k + 1) -> A] : Steps(g, a, step, k + 1)
    OBVIOUS
  <2> PICK g \in [0..k -> A] : Steps(g, a, step, k)
    BY <1>2
  <2> PICK h : h = [i \in 0..(k + 1) |-> IF i <= k THEN g[i] ELSE step[<<g[k], k + 1>>]]
    OBVIOUS
  <2>1. step[<<g[k], k + 1>>] \in A
    OBVIOUS
  <2>2. h \in [0..(k + 1) -> A]
    BY <2>1
  <2>3. h[0] = a
    BY DEF Steps
  <2>4. ASSUME NEW i \in 1..(k + 1) PROVE h[i] = step[<<h[i - 1], i>>]
    <3>1. i - 1 \in 0..k /\ h[i - 1] = g[i - 1]
      OBVIOUS
    <3>2. CASE i <= k
      BY <3>1, <3>2 DEF Steps
    <3>3. CASE i = k + 1
      <4>1. h[k + 1] = step[<<g[k], k + 1>>] /\ h[k] = g[k] /\ (k + 1) - 1 = k
        OBVIOUS
      <4> QED BY <3>3, <4>1
    <3> QED BY <3>2, <3>3
  <2> QED BY <2>2, <2>3, <2>4 DEF Steps
<1> HIDE DEF S
<1>3. n \in S
  BY <1>1, <1>2, Induct
<1> QED BY <1>3 DEF S

\* The greatest element of a set of numbers.
LEMMA GreatestIsMax ==
  ASSUME NEW S \in SUBSET Int, NEW x \in S, \A y \in S : x >= y
  PROVE  Max(S) = x
<1>1. \A y \in S : (\A z \in S : y >= z) => y = x
  OBVIOUS
<1> QED BY <1>1 DEF Max

\* What FoldLeft() defines on the sets of positions.
Positions(n) == SUBSET (1..n)
Folds(g, a, step, n) ==
  \A s \in Positions(n) :
    g[s] = IF s = {} THEN a ELSE step[<<g[s \ {Max(s)}], Max(s)>>]

\* There is such a function.
HasFolds(A, a, step, n) == \E g \in [Positions(n) -> A] : Folds(g, a, step, n)

\* There is one, too.
LEMMA FoldsExist ==
  ASSUME NEW A, NEW a \in A, NEW n \in Nat, NEW step \in [A \X (1..n) -> A]
  PROVE  HasFolds(A, a, step, n)
<1> DEFINE S == {k \in Nat : k <= n => HasFolds(A, a, step, k)}
<1>1. 0 \in S
  <2>1. 1..0 = {} /\ Positions(0) = {{}}
    BY DEF Positions
  <2>2. [s \in {{}} |-> a] \in [{{}} -> A]
    OBVIOUS
  <2>3. Folds([s \in {{}} |-> a], a, step, 0)
    BY <2>1 DEF Folds
  <2> QED BY <2>1, <2>2, <2>3 DEF HasFolds
<1>2. ASSUME NEW k \in Nat, k \in S PROVE k + 1 \in S
  <2> SUFFICES ASSUME k + 1 <= n PROVE HasFolds(A, a, step, k + 1)
    OBVIOUS
  <2>0. HasFolds(A, a, step, k)
    BY <1>2
  <2> PICK g \in [Positions(k) -> A] : Folds(g, a, step, k)
    BY <2>0, Zenon DEF HasFolds
  <2> PICK h : h = [s \in Positions(k + 1) |->
                      IF k + 1 \in s THEN step[<<g[s \ {k + 1}], k + 1>>] ELSE g[s]]
    OBVIOUS
  <2>1. ASSUME NEW s \in Positions(k + 1)
        PROVE  /\ s \ {k + 1} \in Positions(k)
               /\ k + 1 \in s => Max(s) = k + 1
               /\ k + 1 \notin s => s \in Positions(k) /\ s \ {k + 1} = s
    <3>1. s \ {k + 1} \in Positions(k)
      BY DEF Positions
    <3>2. k + 1 \in s => Max(s) = k + 1
      <4>1. s \in SUBSET Int /\ \A y \in s : k + 1 >= y
        BY DEF Positions
      <4> QED BY <4>1, GreatestIsMax
    <3>3. k + 1 \notin s => s \ {k + 1} = s
      OBVIOUS
    <3> QED BY <3>1, <3>2, <3>3
  <2>2. ASSUME NEW s \in Positions(k + 1), k + 1 \in s
        PROVE  step[<<g[s \ {k + 1}], k + 1>>] \in A
    <3>1. g[s \ {k + 1}] \in A
      BY <2>1
    <3>2. k + 1 \in 1..n
      OBVIOUS
    <3> QED BY <3>1, <3>2
  <2>3. h \in [Positions(k + 1) -> A]
    <3>1. ASSUME NEW s \in Positions(k + 1)
          PROVE  (IF k + 1 \in s THEN step[<<g[s \ {k + 1}], k + 1>>] ELSE g[s]) \in A
      BY <2>1, <2>2
    <3> QED BY <3>1
  <2>4. ASSUME NEW s \in Positions(k + 1)
        PROVE  h[s] = IF s = {} THEN a ELSE step[<<h[s \ {Max(s)}], Max(s)>>]
    <3>1. CASE k + 1 \in s
      <4>1. s \ {k + 1} \in Positions(k + 1) /\ k + 1 \notin s \ {k + 1} /\ s # {}
        BY <3>1 DEF Positions
      <4>2. h[s \ {k + 1}] = g[s \ {k + 1}]
        BY <4>1
      <4>3. h[s] = step[<<g[s \ {k + 1}], k + 1>>] /\ Max(s) = k + 1
        BY <3>1, <2>1
      <4> QED BY <4>1, <4>2, <4>3
    <3>2. CASE k + 1 \notin s
      <4>1. s \in Positions(k) /\ h[s] = g[s]
        BY <3>2, <2>1
      <4>2. s \ {Max(s)} \in Positions(k + 1) /\ k + 1 \notin s \ {Max(s)}
        BY <3>2 DEF Positions
      <4>3. h[s \ {Max(s)}] = g[s \ {Max(s)}]
        BY <4>2
      <4>4. g[s] = IF s = {} THEN a ELSE step[<<g[s \ {Max(s)}], Max(s)>>]
        BY <4>1 DEF Folds
      <4> QED BY <4>1, <4>3, <4>4
    <3> QED BY <3>1, <3>2
  <2>5. Folds(h, a, step, k + 1)
    BY <2>4, Zenon DEF Folds
  <2> QED BY <2>3, <2>5, Zenon DEF HasFolds
<1> HIDE DEF S
<1>3. n \in S
  BY <1>1, <1>2, Induct
<1> QED BY <1>3 DEF S

\* On the prefixes of a sequence a fold takes one step after the other.
LEMMA FoldTakesSteps ==
  ASSUME NEW A, NEW a \in A, NEW n \in Nat, NEW step \in [A \X (1..n) -> A],
         NEW g, Folds(g, a, step, n), NEW h, h = [k \in 0..n |-> g[1..k]]
  PROVE  Steps(h, a, step, n)
<1>1. h[0] = a
  <2>1. 1..0 = {} /\ {} \in Positions(n)
    BY DEF Positions
  <2>2. g[{}] = a
    BY <2>1 DEF Folds
  <2> QED BY <2>1, <2>2
<1>2. ASSUME NEW k \in 1..n PROVE h[k] = step[<<h[k - 1], k>>]
  <2>1. 1..k \in Positions(n) /\ k \in 1..k /\ 1..k # {}
    <3>1. \A j \in 1..k : j \in 1..n
      OBVIOUS
    <3>2. 1..k \in Positions(n)
      BY <3>1 DEF Positions
    <3>3. k \in 1..k
      OBVIOUS
    <3> QED BY <3>2, <3>3
  <2>2. (1..k) \ {k} = 1..(k - 1) /\ k - 1 \in 0..n
    OBVIOUS
  <2>3. Max(1..k) = k
    <3>1. 1..k \in SUBSET Int /\ \A y \in 1..k : k >= y
      OBVIOUS
    <3> QED BY <2>1, <3>1, GreatestIsMax
  <2>4. g[1..k] = step[<<g[(1..k) \ {Max(1..k)}], Max(1..k)>>]
    BY <2>1, Zenon DEF Folds
  <2>5. g[1..k] = step[<<g[1..(k - 1)], k>>]
    BY <2>2, <2>3, <2>4, Zenon
  <2> QED BY <2>2, <2>5
<1> QED BY <1>1, <1>2 DEF Steps

\* Two runs of the same steps are the same, and stay in A.
LEMMA StepsAreTyped ==
  ASSUME NEW A, NEW a \in A, NEW n \in Nat, NEW step \in [A \X (1..n) -> A],
         NEW g, Steps(g, a, step, n)
  PROVE  \A k \in 0..n : g[k] \in A
<1> DEFINE S == {k \in Nat : k <= n => g[k] \in A}
<1>1. 0 \in S
  BY DEF Steps
<1>2. ASSUME NEW k \in Nat, k \in S PROVE k + 1 \in S
  <2> SUFFICES ASSUME k + 1 <= n PROVE g[k + 1] \in A
    OBVIOUS
  <2>1. g[k] \in A /\ k + 1 \in 1..n /\ (k + 1) - 1 = k
    BY <1>2
  <2>2. g[k + 1] = step[<<g[k], k + 1>>]
    BY <2>1 DEF Steps
  <2> QED BY <2>1, <2>2
<1> HIDE DEF S
<1>3. \A k \in Nat : k \in S
  BY <1>1, <1>2, Induct
<1> QED BY <1>3 DEF S

\* A nonempty set of positions has a greatest one.
LEMMA GreatestExists ==
  ASSUME NEW n \in Nat, NEW s \in Positions(n), s # {}
  PROVE  Max(s) \in s /\ \A y \in s : Max(s) >= y
<1> DEFINE Below == {k \in Nat : \A t \in Positions(k) :
                       t # {} => \E x \in t : \A y \in t : x >= y}
<1>1. 0 \in Below
  <2>1. Positions(0) = {{}}
    BY DEF Positions
  <2> QED BY <2>1
<1>2. ASSUME NEW k \in Nat, k \in Below PROVE k + 1 \in Below
  <2> SUFFICES ASSUME NEW t \in Positions(k + 1), t # {}
               PROVE  \E x \in t : \A y \in t : x >= y
    OBVIOUS
  <2>1. CASE k + 1 \in t
    BY <2>1 DEF Positions
  <2>2. CASE k + 1 \notin t
    <3>1. t \in Positions(k)
      BY <2>2 DEF Positions
    <3> QED BY <1>2, <3>1
  <2> QED BY <2>1, <2>2
<1> HIDE DEF Below
<1>3. n \in Below
  BY <1>1, <1>2, Induct
<1>4. \E x \in s : \A y \in s : x >= y
  BY <1>3 DEF Below
<1> QED BY <1>4 DEF Max

\* What a fold computes when its step only is known on A.
FoldsIn(A, f, a, step, n) ==
  \A s \in Positions(n) :
    IF s = {} THEN f[s] = a
    ELSE f[s \ {Max(s)}] \in A => f[s] = step[<<f[s \ {Max(s)}], Max(s)>>]

\* It stays in A, and takes the steps.
LEMMA FoldStaysIn ==
  ASSUME NEW A, NEW a \in A, NEW n \in Nat, NEW step \in [A \X (1..n) -> A],
         NEW f, FoldsIn(A, f, a, step, n)
  PROVE  /\ \A s \in Positions(n) : f[s] \in A
         /\ Folds(f, a, step, n)
<1> DEFINE S == {k \in Nat : k <= n => \A s \in Positions(k) : f[s] \in A}
<1>1. 0 \in S
  <2>1. Positions(0) = {{}} /\ {} \in Positions(n)
    BY DEF Positions
  <2> QED BY <2>1 DEF FoldsIn
<1>2. ASSUME NEW k \in Nat, k \in S PROVE k + 1 \in S
  <2> SUFFICES ASSUME k + 1 <= n, NEW s \in Positions(k + 1) PROVE f[s] \in A
    OBVIOUS
  <2>1. s \in Positions(n)
    BY DEF Positions
  <2>2. CASE s = {}
    BY <2>1, <2>2 DEF FoldsIn
  <2>3. CASE s # {}
    <3>1. Max(s) \in s /\ \A y \in s : Max(s) >= y
      BY <2>1, <2>3, GreatestExists
    <3>2. s \ {Max(s)} \in Positions(k)
      <4>1. ASSUME NEW y \in s \ {Max(s)} PROVE y \in 1..k
        <5>1. y \in 1..(k + 1) /\ Max(s) \in 1..(k + 1) /\ Max(s) >= y /\ y # Max(s)
          BY <3>1 DEF Positions
        <5> QED BY <5>1
      <4> QED BY <4>1 DEF Positions
    <3>3. f[s \ {Max(s)}] \in A
      BY <1>2, <3>2
    <3>4. f[s] = step[<<f[s \ {Max(s)}], Max(s)>>]
      BY <2>1, <2>3, <3>3 DEF FoldsIn
    <3>5. Max(s) \in 1..n
      BY <2>1, <3>1 DEF Positions
    <3> QED BY <3>3, <3>4, <3>5
  <2> QED BY <2>2, <2>3
<1> HIDE DEF S
<1>3. n \in S
  BY <1>1, <1>2, Induct
<1>4. \A s \in Positions(n) : f[s] \in A
  BY <1>3 DEF S
<1>5. ASSUME NEW s \in Positions(n), s # {}
      PROVE  f[s] = step[<<f[s \ {Max(s)}], Max(s)>>]
  <2>1. s \ {Max(s)} \in Positions(n)
    BY DEF Positions
  <2> QED BY <1>4, <1>5, <2>1 DEF FoldsIn
<1>6. {} \in Positions(n) => f[{}] = a
  BY DEF FoldsIn
<1>7. Folds(f, a, step, n)
  BY <1>5, <1>6, Zenon DEF Folds
<1> QED BY <1>4, <1>7
-----------------------------------------------------------------------------
(* Sizes, and a file from its chunks.                                      *)

\* The sizes of the prefixes of a sequence of chunks.
Sizes(g, chunks) ==
  g[0] = 0 /\ \A i \in 1..Len(chunks) : g[i] = g[i - 1] + DiskSize(chunks[i])

\* A chunk of a sequence has a size.
LEMMA ChunkHasSize ==
  ASSUME NEW chunks \in Seq(Chunks), NEW i \in 1..Len(chunks)
  PROVE  chunks[i] \in Chunks /\ Plain(chunks[i]) = chunks[i] /\ DiskSize(chunks[i]) \in Nat
<1>1. chunks[i] \in Chunks
  BY ElementOfSeq
<1>2. Plain(chunks[i]) = chunks[i]
  BY <1>1 DEF Plain, Chunks
<1>3. DiskSize(chunks[i]) \in Nat
  BY <1>1, <1>2, ChunkTypes
<1> QED BY <1>1, <1>2, <1>3

\* There are such sizes.
LEMMA SizesExist ==
  ASSUME NEW chunks \in Seq(Chunks)
  PROVE  \E g \in [0..Len(chunks) -> Nat] : Sizes(g, chunks)
<1> PICK n \in Nat : n = Len(chunks)
  OBVIOUS
<1> PICK step : step = [p \in Nat \X (1..n) |-> p[1] + DiskSize(chunks[p[2]])]
  OBVIOUS
<1>1. step \in [Nat \X (1..n) -> Nat]
  <2>1. ASSUME NEW p \in Nat \X (1..n) PROVE p[1] + DiskSize(chunks[p[2]]) \in Nat
    <3>1. p[1] \in Nat /\ p[2] \in 1..n
      OBVIOUS
    <3>2. DiskSize(chunks[p[2]]) \in Nat
      BY <3>1, ChunkHasSize
    <3> QED BY <3>1, <3>2
  <2> QED BY <2>1
<1> PICK g \in [0..n -> Nat] : Steps(g, 0, step, n)
  BY <1>1, StepsExist
<1>2. ASSUME NEW i \in 1..n PROVE g[i] = g[i - 1] + DiskSize(chunks[i])
  <2>0. g[i] = step[<<g[i - 1], i>>]
    BY Zenon DEF Steps
  <2>1. g[i] = step[<<g[i - 1], i>>] /\ i - 1 \in 0..n
    BY <2>0
  <2>2. <<g[i - 1], i>> \in Nat \X (1..n)
    BY <2>1
  <2> QED BY <2>1, <2>2
<1> QED BY <1>2 DEF Steps, Sizes

\* TotalSize() is the last of them.
LEMMA TotalSizeIs ==
  ASSUME NEW chunks \in Seq(Chunks), NEW n \in Nat, n = Len(chunks),
         NEW g, Sizes(g, chunks)
  PROVE  TotalSize(chunks) = g[n] /\ g[n] \in Nat
<1> DEFINE body(f) == [i \in 0..Len(chunks) |->
                         IF i = 0 THEN 0 ELSE f[i - 1] + DiskSize(chunks[i])]
           size == CHOOSE f : f = body(f)
<1>1. TotalSize(chunks) = size[Len(chunks)]
  BY DEF TotalSize
<1>2. \E f : f = body(f)
  <2> PICK f \in [0..n -> Nat] : Sizes(f, chunks)
    BY SizesExist
  <2>1. ASSUME NEW i \in 0..n
        PROVE  f[i] = IF i = 0 THEN 0 ELSE f[i - 1] + DiskSize(chunks[i])
    BY DEF Sizes
  <2>2. f = body(f)
    BY <2>1
  <2> QED BY <2>2
<1> HIDE DEF size
<1>3. size = body(size)
  BY <1>2 DEF size
<1>4. ASSUME NEW i \in 0..n
      PROVE  size[i] = IF i = 0 THEN 0 ELSE size[i - 1] + DiskSize(chunks[i])
  BY <1>3
<1> DEFINE S == {k \in Nat : k <= n => size[k] = g[k] /\ g[k] \in Nat}
<1>5. 0 \in S
  BY <1>4 DEF Sizes
<1>6. ASSUME NEW k \in Nat, k \in S PROVE k + 1 \in S
  <2> SUFFICES ASSUME k + 1 <= n PROVE size[k + 1] = g[k + 1] /\ g[k + 1] \in Nat
    OBVIOUS
  <2>1. k + 1 \in 1..n /\ k + 1 \in 0..n /\ (k + 1) - 1 = k /\ size[k] = g[k] /\ g[k] \in Nat
    BY <1>6
  <2>2. size[k + 1] = size[k] + DiskSize(chunks[k + 1])
    BY <1>4, <2>1
  <2>3. g[k + 1] = g[k] + DiskSize(chunks[k + 1])
    BY <2>1 DEF Sizes
  <2>4. DiskSize(chunks[k + 1]) \in Nat
    BY <2>1, ChunkHasSize
  <2> QED BY <2>1, <2>2, <2>3, <2>4
<1> HIDE DEF S
<1>7. n \in S
  BY <1>5, <1>6, Induct
<1> QED BY <1>1, <1>7 DEF S

\* A prefix of a sequence of chunks is one.
LEMMA PrefixIsTyped ==
  ASSUME NEW T, NEW s \in Seq(T), NEW k \in 0..Len(s)
  PROVE  /\ SubSeq(s, 1, k) \in Seq(T) /\ Len(SubSeq(s, 1, k)) = k
         /\ \A i \in 1..k : SubSeq(s, 1, k)[i] = s[i]
OBVIOUS

\* The size of a prefix is one of the sizes.
LEMMA PrefixSize ==
  ASSUME NEW chunks \in Seq(Chunks), NEW g, Sizes(g, chunks), NEW k \in 0..Len(chunks)
  PROVE  TotalSize(SubSeq(chunks, 1, k)) = g[k] /\ g[k] \in Nat
<1> PICK s : s = SubSeq(chunks, 1, k)
  OBVIOUS
<1>1. s \in Seq(Chunks) /\ Len(s) = k /\ \A i \in 1..k : s[i] = chunks[i]
  BY PrefixIsTyped
<1>2. Sizes(g, s)
  BY <1>1 DEF Sizes
<1> PICK n \in Nat : n = k
  OBVIOUS
<1>3. TotalSize(s) = g[n] /\ g[n] \in Nat
  BY <1>1, <1>2, TotalSizeIs
<1> QED BY <1>3

\* The fields of a chunk that was given its position.
LEMMA PlacedFields ==
  ASSUME NEW c, NEW at, NEW p, p = Placed(c, at)
  PROVE  p.tag = c.tag /\ p.size = c.size /\ p.info = c.info /\ p.at = at
BY DEF Placed

\* What FileOf() makes of chunks is a file.
LEMMA FileOfIsFile ==
  ASSUME NEW chunks \in Seq(Chunks), chunks # <<>>
  PROVE  IsFile(FileOf(chunks))
<1>n. PICK n \in Nat : n = Len(chunks)
  OBVIOUS
<1> PICK g \in [0..n -> Nat] : Sizes(g, chunks)
  BY <1>n, SizesExist
<1>0. PICK f : f = FileOf(chunks)
  OBVIOUS
<1>1. RiffHeaderSize \in Nat
  BY FormatAssumption
<1>2. TotalSize(chunks) = g[n]
  BY <1>n, TotalSizeIs
<1>3. f.size = RiffHeaderSize + g[n] /\ DOMAIN f.chunks = 1..n
  BY <1>n, <1>0, <1>2 DEF FileOf
<1>4. ASSUME NEW i \in 1..n
      PROVE  f.chunks[i] = Placed(chunks[i], RiffHeaderSize + g[i - 1])
  <2>1. f.chunks[i] = Placed(chunks[i], RiffHeaderSize + TotalSize(SubSeq(chunks, 1, i - 1)))
    BY <1>n, <1>0 DEF FileOf
  <2>2. i - 1 \in 0..Len(chunks)
    BY <1>n
  <2>3. TotalSize(SubSeq(chunks, 1, i - 1)) = g[i - 1]
    BY <2>2, PrefixSize
  <2> QED BY <2>1, <2>3
<1>5. ASSUME NEW i \in 1..n
      PROVE  /\ Plain(f.chunks[i]) = chunks[i] /\ f.chunks[i].at = RiffHeaderSize + g[i - 1]
             /\ DiskSize(f.chunks[i]) = DiskSize(chunks[i])
  <2>1. chunks[i] \in Chunks /\ Plain(chunks[i]) = chunks[i]
    BY <1>n, ChunkHasSize
  <2>2. /\ f.chunks[i].tag = chunks[i].tag /\ f.chunks[i].size = chunks[i].size
        /\ f.chunks[i].info = chunks[i].info /\ f.chunks[i].at = RiffHeaderSize + g[i - 1]
    <3>1. f.chunks[i] = Placed(chunks[i], RiffHeaderSize + g[i - 1])
      BY <1>4
    <3> QED BY <3>1, PlacedFields
  <2>3. Plain(f.chunks[i]) = Plain(chunks[i])
    BY <2>2 DEF Plain
  <2>4. DiskSize(f.chunks[i]) = DiskSize(chunks[i])
    BY <2>2 DEF DiskSize
  <2> QED BY <2>1, <2>2, <2>3, <2>4
<1>6. f.size \in Nat
  BY <1>1, <1>3
<1>7. [i \in DOMAIN f.chunks |-> Plain(f.chunks[i])] \in Seq(Chunks)
  <2>1. [i \in DOMAIN f.chunks |-> Plain(f.chunks[i])] = chunks
    BY <1>n, <1>3, <1>5
  <2> QED BY <2>1
<1>8. [i \in DOMAIN f.chunks |-> f.chunks[i].at] \in Seq(Nat)
  <2>1. ASSUME NEW i \in 1..n PROVE f.chunks[i].at \in Nat
    <3>1. g[i - 1] \in Nat
      OBVIOUS
    <3>2. f.chunks[i].at = RiffHeaderSize + g[i - 1]
      BY <1>5
    <3> QED BY <1>1, <3>1, <3>2
  <2> QED BY <1>3, <2>1
<1>9. 1 \in DOMAIN f.chunks /\ f.chunks[1].at = RiffHeaderSize
  <2>1. 1 \in 1..n
    BY <1>n, EmptySeq
  <2> QED BY <1>1, <1>3, <1>5, <2>1 DEF Sizes
<1>10. ASSUME NEW i \in DOMAIN f.chunks
       PROVE  LET end == f.chunks[i].at + DiskSize(f.chunks[i])
              IN  IF i + 1 \in DOMAIN f.chunks THEN f.chunks[i + 1].at = end
                  ELSE f.size <= end
  <2> PICK end : end = f.chunks[i].at + DiskSize(f.chunks[i])
    OBVIOUS
  <2>1. i \in 1..n /\ g[i - 1] \in Nat /\ g[i] = g[i - 1] + DiskSize(chunks[i])
        /\ DiskSize(chunks[i]) \in Nat
    BY <1>n, <1>3, ChunkHasSize DEF Sizes
  <2>2. end = RiffHeaderSize + g[i]
    <3>1. /\ f.chunks[i].at = RiffHeaderSize + g[i - 1]
          /\ DiskSize(f.chunks[i]) = DiskSize(chunks[i])
      BY <1>5, <2>1
    <3> QED BY <1>1, <2>1, <3>1
  <2>3. CASE i + 1 \in 1..n
    <3>1. f.chunks[i + 1].at = RiffHeaderSize + g[(i + 1) - 1]
      BY <1>5, <2>3
    <3>2. (i + 1) - 1 = i
      BY <2>1
    <3>3. f.chunks[i + 1].at = end /\ i + 1 \in DOMAIN f.chunks
      BY <1>3, <2>2, <2>3, <3>1, <3>2
    <3> QED BY <3>3
  <2>4. CASE i + 1 \notin 1..n
    <3>1. i = n
      BY <2>1, <2>4
    <3> QED BY <1>3, <1>6, <2>2, <2>4, <3>1
  <2> QED BY <2>3, <2>4
<1> QED BY <1>0, <1>6, <1>7, <1>8, <1>9, <1>10 DEF IsFile

\* Joining two sequences.
LEMMA Joined ==
  ASSUME NEW T, NEW s \in Seq(T), NEW t \in Seq(T)
  PROVE  /\ s \o t \in Seq(T) /\ <<>> \o t = t /\ s \o <<>> = s
         /\ Len(s \o t) = Len(s) + Len(t)
OBVIOUS

\* What joins the sequences of a sequence.
Joins(g, seqs) == g[0] = <<>> /\ \A i \in 1..Len(seqs) : g[i] = g[i - 1] \o seqs[i]

\* Sequences can be joined.
LEMMA JoinsExist ==
  ASSUME NEW T, NEW seqs \in Seq(Seq(T))
  PROVE  \E g \in [0..Len(seqs) -> Seq(T)] : Joins(g, seqs)
<1> PICK n \in Nat : n = Len(seqs)
  OBVIOUS
<1> PICK A : A = Seq(T)
  OBVIOUS
<1>0. <<>> \in A /\ \A a, b \in A : a \o b \in A
  OBVIOUS
<1>1. \A i \in 1..n : seqs[i] \in A
  BY ElementOfSeq
<1> PICK step : step = [p \in A \X (1..n) |-> p[1] \o seqs[p[2]]]
  OBVIOUS
<1>2. step \in [A \X (1..n) -> A]
  BY <1>0, <1>1
<1>3. PICK g \in [0..n -> A] : Steps(g, <<>>, step, n)
  BY <1>0, <1>2, StepsExist
<1>4. ASSUME NEW i \in 1..n PROVE g[i] = g[i - 1] \o seqs[i]
  <2>1. g[i] = step[<<g[i - 1], i>>]
    BY <1>3, Zenon DEF Steps
  <2>2. <<g[i - 1], i>> \in A \X (1..n)
    <3>1. i - 1 \in 0..n
      OBVIOUS
    <3>2. g[i - 1] \in A
      BY <3>1
    <3> QED BY <3>2
  <2> QED BY <2>1, <2>2
<1>5. Joins(g, seqs)
  BY <1>3, <1>4 DEF Steps, Joins
<1> QED BY <1>3, <1>5

\* FlattenSeq() joins all of them.
LEMMA FlattenIs ==
  ASSUME NEW T, NEW seqs \in Seq(Seq(T)), NEW n \in Nat, n = Len(seqs), NEW g, Joins(g, seqs)
  PROVE  FlattenSeq(seqs) = g[n] /\ g[n] \in Seq(T)
<1> DEFINE body(f) == [i \in 1..Len(seqs) |->
                         IF i = 1 THEN seqs[i] ELSE f[i - 1] \o seqs[i]]
           flat == CHOOSE f : f = body(f)
<1>1. CASE n = 0
  <2>1. seqs = <<>>
    BY <1>1, EmptySeq
  <2>2. FlattenSeq(seqs) = seqs
    BY <1>1 DEF FlattenSeq
  <2>3. g[n] = <<>> /\ <<>> \in Seq(T)
    BY <1>1 DEF Joins
  <2> QED BY <2>1, <2>2, <2>3
<1>2. CASE n # 0
  <2>1. FlattenSeq(seqs) = flat[n]
    BY <1>2 DEF FlattenSeq
  <2>2. \E f : f = body(f)
    <3> PICK h \in [0..n -> Seq(T)] : Joins(h, seqs)
      BY JoinsExist
    <3> PICK f : f = [i \in 1..n |-> h[i]]
      OBVIOUS
    <3>1. ASSUME NEW i \in 1..n
          PROVE  f[i] = IF i = 1 THEN seqs[i] ELSE f[i - 1] \o seqs[i]
      <4>1. h[i] = h[i - 1] \o seqs[i] /\ f[i] = h[i] /\ seqs[i] \in Seq(T)
        BY ElementOfSeq DEF Joins
      <4>2. CASE i = 1
        <5>1. h[0] = <<>> /\ i - 1 = 0
          BY <4>2 DEF Joins
        <5> QED BY <4>1, <4>2, <5>1, Joined
      <4>3. CASE i # 1
        <5>1. i - 1 \in 1..n
          BY <4>3
        <5>2. f[i - 1] = h[i - 1]
          BY <5>1
        <5> QED BY <4>1, <4>3, <5>2, Zenon
      <4> QED BY <4>2, <4>3
    <3>2. f = body(f)
      BY <3>1
    <3> HIDE DEF body
    <3> QED BY <3>2
  <2> HIDE DEF flat
  <2>3. flat = body(flat)
    BY <2>2 DEF flat
  <2>4. ASSUME NEW i \in 1..n
        PROVE  flat[i] = IF i = 1 THEN seqs[i] ELSE flat[i - 1] \o seqs[i]
    BY <2>3
  <2> DEFINE S == {k \in Nat : k + 1 <= n => flat[k + 1] = g[k + 1] /\ g[k + 1] \in Seq(T)}
  <2>5. 0 \in S
    <3>1. 1 \in 1..n /\ flat[1] = seqs[1] /\ seqs[1] \in Seq(T)
      BY <1>2, <2>4, ElementOfSeq
    <3>2. g[1] = g[1 - 1] \o seqs[1]
      BY <3>1 DEF Joins
    <3>3. g[1] = seqs[1]
      <4>1. 1 - 1 = 0 /\ g[0] = <<>>
        BY DEF Joins
      <4> QED BY <3>1, <3>2, <4>1, Joined
    <3> QED BY <3>1, <3>3
  <2>6. ASSUME NEW k \in Nat, k \in S PROVE k + 1 \in S
    <3> SUFFICES ASSUME (k + 1) + 1 <= n
                 PROVE  flat[(k + 1) + 1] = g[(k + 1) + 1] /\ g[(k + 1) + 1] \in Seq(T)
      OBVIOUS
    <3> PICK j \in 1..n : j = (k + 1) + 1
      OBVIOUS
    <3>1. j # 1 /\ j - 1 = k + 1 /\ flat[k + 1] = g[k + 1] /\ g[k + 1] \in Seq(T)
      BY <2>6
    <3>2. flat[j] = flat[j - 1] \o seqs[j] /\ seqs[j] \in Seq(T)
      BY <2>4, <3>1, ElementOfSeq
    <3>3. g[j] = g[j - 1] \o seqs[j]
      BY DEF Joins
    <3>4. flat[j] = g[j] /\ g[j] \in Seq(T)
      <4>1. flat[j] = g[k + 1] \o seqs[j] /\ g[j] = g[k + 1] \o seqs[j]
        BY <3>1, <3>2, <3>3, Zenon
      <4> QED BY <3>1, <3>2, <4>1, Joined
    <3> QED BY <3>4
  <2> HIDE DEF S
  <2>7. \A k \in Nat : k \in S
    BY <2>5, <2>6, Induct
  <2>8. n - 1 \in Nat /\ (n - 1) + 1 = n
    BY <1>2
  <2>9. n - 1 \in S
    BY <2>7, <2>8
  <2> QED BY <2>1, <2>8, <2>9 DEF S
<1> QED BY <1>1, <1>2

\* FlattenSeq() is a sequence of the same elements.
LEMMA FlattenIsTyped ==
  ASSUME NEW T, NEW seqs \in Seq(Seq(T))
  PROVE  FlattenSeq(seqs) \in Seq(T)
<1> PICK n \in Nat : n = Len(seqs)
  OBVIOUS
<1> PICK g \in [0..n -> Seq(T)] : Joins(g, seqs)
  BY JoinsExist
<1> QED BY FlattenIs

\* Joining with a sequence that is not empty.
LEMMA Longer ==
  ASSUME NEW T, NEW s \in Seq(T), NEW t \in Seq(T), Len(s) > 0 \/ Len(t) > 0
  PROVE  s \o t \in Seq(T) /\ Len(s \o t) > 0
<1>1. Len(s \o t) = Len(s) + Len(t) /\ s \o t \in Seq(T)
  BY Joined
<1>2. Len(s) \in Nat /\ Len(t) \in Nat
  OBVIOUS
<1> QED BY <1>1, <1>2

\* Joining sequences that are not empty.
LEMMA FlattenIsLonger ==
  ASSUME NEW T, NEW seqs \in Seq(Seq(T)), NEW n \in 1..Len(seqs), n = Len(seqs),
         Len(seqs[n]) > 0
  PROVE  Len(FlattenSeq(seqs)) > 0
<1> PICK g \in [0..n -> Seq(T)] : Joins(g, seqs)
  BY JoinsExist
<1>1. FlattenSeq(seqs) = g[n]
  BY FlattenIs
<1>2. g[n] = g[n - 1] \o seqs[n]
  BY Zenon DEF Joins
<1>4. n - 1 \in 0..n
  OBVIOUS
<1>3. g[n - 1] \in Seq(T) /\ seqs[n] \in Seq(T)
  BY <1>4, ElementOfSeq
<1> QED BY <1>1, <1>2, <1>3, Longer, Zenon

\* A list of chunks of one kind is a list of chunks.
LEMMA ListIsOfChunks ==
  ASSUME NEW l, NEW s \in Seq(ChunksOf(l)) PROVE s \in Seq(Chunks)
<1>1. ChunksOf(l) \subseteq Chunks
  BY DEF ChunksOf
<1> QED BY <1>1, SeqMonotonic

\* An object that differs in the list l, which is s.
ListIs(n, m, l, s) ==
  /\ n \in Muxes /\ n.images = m.images /\ n.canvas = m.canvas /\ n.lists[l] = s
  /\ \A k \in Lists \ {l} : n.lists[k] = m.lists[k]

\* An object with another list.
LEMMA ListChanged ==
  ASSUME NEW m \in Muxes, NEW l \in Lists, NEW s \in Seq(ChunksOf(l)),
         NEW n, n = [m EXCEPT !.lists[l] = s]
  PROVE  ListIs(n, m, l, s)
<1> PICK f : f = [m.lists EXCEPT ![l] = s]
  OBVIOUS
<1>1. m.lists \in [Lists -> Seq(Chunks)] /\ \A k \in Lists : m.lists[k] \in Seq(ChunksOf(k))
  BY DEF Muxes, ListsOfChunks
<1>2. s \in Seq(Chunks)
  BY ListIsOfChunks
<1>3. f \in [Lists -> Seq(Chunks)] /\ f[l] = s /\ \A k \in Lists \ {l} : f[k] = m.lists[k]
  BY <1>1, <1>2
<1>4. f \in ListsOfChunks
  BY <1>1, <1>3 DEF ListsOfChunks
<1>5. n = [m EXCEPT !.lists = f]
  OBVIOUS
<1>6. n \in Muxes /\ n.lists = f /\ n.images = m.images /\ n.canvas = m.canvas
  BY <1>4, <1>5 DEF Muxes
<1> QED BY <1>3, <1>6 DEF ListIs

\* An object with other images.
LEMMA ImagesChanged ==
  ASSUME NEW m \in Muxes, NEW s \in Seq(Images), NEW n, n = [m EXCEPT !.images = s]
  PROVE  n \in Muxes /\ n.images = s /\ n.lists = m.lists /\ n.canvas = m.canvas
BY DEF Muxes

\* An object with another canvas.
LEMMA CanvasChanged ==
  ASSUME NEW m \in Muxes, NEW w \in Nat, NEW n, n = [m EXCEPT !.canvas = w]
  PROVE  n \in Muxes /\ n.canvas = w /\ n.lists = m.lists /\ n.images = m.images
BY DEF Muxes

\* DeleteChunks() leaves chunks of the same kind.
LEMMA WithoutIsTyped ==
  ASSUME NEW C, NEW chunks \in Seq(C), NEW tag
  PROVE  Without(chunks, tag) \in Seq(C)
<1> PICK n \in Nat : n = Len(chunks)
  OBVIOUS
<1> PICK A : A = Seq(C)
  OBVIOUS
<1> DEFINE next(kept, c) == IF c.tag = tag THEN kept ELSE Append(kept, c)
<1> PICK step : step = [p \in A \X (1..n) |-> next(p[1], chunks[p[2]])]
  OBVIOUS
<1>1. \A i \in 1..n : chunks[i] \in C
  BY ElementOfSeq
<1>2. \A kept \in A : \A i \in 1..n : next(kept, chunks[i]) \in A
  <2>1. \A kept \in A : \A c \in C : Append(kept, c) \in A
    OBVIOUS
  <2> QED BY <1>1, <2>1
<1>3. step \in [A \X (1..n) -> A] /\ <<>> \in A
  BY <1>2
<1>4. PICK h \in [Positions(n) -> A] : Folds(h, <<>>, step, n)
  BY <1>3, FoldsExist, Zenon DEF HasFolds
<1> DEFINE body(f) == [s \in Positions(n) |->
             IF s = {} THEN <<>> ELSE next(f[s \ {Max(s)}], chunks[Max(s)])]
           iter == CHOOSE f : f = body(f)
<1>5. Without(chunks, tag) = iter[1..n]
  <2>1. DOMAIN chunks = 1..n
    OBVIOUS
  <2> QED BY <2>1 DEF Without, FoldLeft, MapThenFoldSet, Positions
<1> HIDE DEF next, iter
<1>6. ASSUME NEW s \in Positions(n), s # {}
      PROVE  Max(s) \in 1..n /\ s \ {Max(s)} \in Positions(n)
  <2>1. Max(s) \in s
    BY <1>6, GreatestExists
  <2> QED BY <2>1 DEF Positions
<1>7. \A b \in A : \A i \in 1..n : step[<<b, i>>] = next(b, chunks[i])
  OBVIOUS
<1>8. h = body(h)
  <2>1. ASSUME NEW s \in Positions(n)
        PROVE  h[s] = IF s = {} THEN <<>> ELSE next(h[s \ {Max(s)}], chunks[Max(s)])
    <3>1. CASE s = {}
      BY <1>4, <3>1 DEF Folds
    <3>2. CASE s # {}
      <4>1. h[s \ {Max(s)}] \in A /\ Max(s) \in 1..n
        BY <1>4, <1>6, <3>2
      <4>2. h[s] = step[<<h[s \ {Max(s)}], Max(s)>>]
        BY <1>4, <3>2 DEF Folds
      <4> QED BY <1>7, <3>2, <4>1, <4>2
    <3> QED BY <3>1, <3>2
  <2> QED BY <1>4, <2>1
<1>9. iter = body(iter)
  BY <1>8 DEF iter
<1>10. FoldsIn(A, iter, <<>>, step, n)
  <2>1. ASSUME NEW s \in Positions(n)
        PROVE  IF s = {} THEN iter[s] = <<>>
               ELSE iter[s \ {Max(s)}] \in A =>
                      iter[s] = step[<<iter[s \ {Max(s)}], Max(s)>>]
    <3>1. iter[s] = IF s = {} THEN <<>> ELSE next(iter[s \ {Max(s)}], chunks[Max(s)])
      BY <1>9
    <3> QED BY <1>6, <1>7, <3>1
  <2> QED BY <2>1 DEF FoldsIn
<1>11. 1..n \in Positions(n)
  BY DEF Positions
<1>12. iter[1..n] \in A
  BY <1>3, <1>10, <1>11, FoldStaysIn
<1> QED BY <1>5, <1>12
-----------------------------------------------------------------------------
(* Calls on the muxer.                                                     *)

\* Kinds of chunks, and the lists they are in.
ListTags == (Lists \ {"unknown"}) \cup UnknownTags

\* The list of a chunk has its tag.
LEMMA ListOfTag ==
  ASSUME NEW tag \in ListTags
  PROVE  /\ ListOf(tag) \in Lists /\ tag \in TagsOf(ListOf(tag)) /\ tag \in Tags
         /\ tag \notin ImageTags \cup {"ANMF", "ALPH"}
         /\ tag \in Lists => ListOf(tag) = tag
         /\ tag \in UnknownTags => ListOf(tag) = "unknown" /\ tag \notin Lists
<1>1. UnknownTags \cap (KnownTags \cup {"unknown"}) = {}
  BY FormatAssumption
<1>2. tag \in UnknownTags => tag \notin Lists /\ tag \notin ImageTags \cup {"ANMF", "ALPH"}
  BY <1>1 DEF KnownTags, Lists, MetadataTags, ImageTags
<1>3. tag \in Lists => tag \notin ImageTags \cup {"ANMF", "ALPH"} /\ tag # "unknown"
  BY <1>2 DEF ListTags, Lists, MetadataTags, ImageTags
<1>4. tag \in Tags
  BY DEF ListTags, Lists, MetadataTags, Tags, KnownTags
<1>5. tag \in TagsOf(ListOf(tag)) /\ ListOf(tag) \in Lists
  BY <1>2, <1>3 DEF ListOf, TagsOf, ListTags, Lists
<1> QED BY <1>2, <1>3, <1>4, <1>5 DEF ListOf, ListTags

\* The usual chunks are chunks.
LEMMA ChunkOfIsTyped ==
  /\ \A tag \in ListTags \ {"VP8X"} : ChunkOf(tag, <<>>) \in ChunksOf(ListOf(tag))
  /\ \A i \in VP8XInfo : ChunkOf("VP8X", i) \in ChunksOf("VP8X")
  /\ \A tag \in ImageTags : \A i \in ImageInfo : ChunkOf(tag, i) \in Chunks
  /\ ChunkOf("ALPH", <<>>) \in Chunks
<1>1. \A tag \in Tags \ {"ANMF"} : SizeOf[tag] \in Nat
  BY FormatAssumption
<1>2. ASSUME NEW tag \in ListTags \ {"VP8X"}
      PROVE  ChunkOf(tag, <<>>) \in ChunksOf(ListOf(tag))
  <2>1. /\ tag \in Tags \ (ImageTags \cup {"VP8X", "ANMF"}) /\ tag \in TagsOf(ListOf(tag))
    BY ListOfTag
  <2>2. SizeOf[tag] \in Nat
    BY <1>1, <2>1
  <2>3. ChunkOf(tag, <<>>) \in Chunks
    BY <2>1, <2>2 DEF ChunkOf, Chunks
  <2> QED BY <2>1, <2>3 DEF ChunksOf, ChunkOf
<1>3. ASSUME NEW i \in VP8XInfo PROVE ChunkOf("VP8X", i) \in ChunksOf("VP8X")
  <2>1. SizeOf["VP8X"] \in Nat
    BY <1>1 DEF Tags, KnownTags
  <2> QED BY <2>1 DEF ChunkOf, Chunks, ChunksOf, TagsOf
<1>4. ASSUME NEW tag \in ImageTags, NEW i \in ImageInfo PROVE ChunkOf(tag, i) \in Chunks
  <2>1. SizeOf[tag] \in Nat
    BY <1>1 DEF Tags, KnownTags, ImageTags
  <2> QED BY <2>1 DEF ChunkOf, Chunks
<1>5. ChunkOf("ALPH", <<>>) \in Chunks
  <2>1. SizeOf["ALPH"] \in Nat /\ "ALPH" \in Tags \ (ImageTags \cup {"VP8X", "ANMF"})
    BY <1>1 DEF Tags, KnownTags, ImageTags
  <2> QED BY <2>1 DEF ChunkOf, Chunks
<1> QED BY <1>2, <1>3, <1>4, <1>5

\* MuxDeleteAllNamedData()
LEMMA DeletedIsTyped ==
  ASSUME NEW m \in Muxes, NEW tag \in ListTags
  PROVE  /\ Deleted(m, tag) \in Muxes
         /\ tag \in Lists => ListIs(Deleted(m, tag), m, tag, <<>>)
<1> PICK l : l = ListOf(tag)
  OBVIOUS
<1> PICK s : s = IF tag \in Lists THEN <<>> ELSE Without(m.lists[l], tag)
  OBVIOUS
<1>1. l \in Lists /\ (tag \in Lists => l = tag)
  BY ListOfTag
<1>2. m.lists[l] \in Seq(ChunksOf(l))
  BY <1>1 DEF Muxes, ListsOfChunks
<1>3. Without(m.lists[l], tag) \in Seq(ChunksOf(l))
  BY <1>2, WithoutIsTyped
<1>4. s \in Seq(ChunksOf(l))
  BY <1>3
<1>5. Deleted(m, tag) = [m EXCEPT !.lists[l] = s]
  <2>1. l = tag \/ tag \notin Lists
    BY <1>1
  <2> QED BY <2>1 DEF Deleted
<1>6. ListIs(Deleted(m, tag), m, l, s)
  BY <1>1, <1>4, <1>5, ListChanged
<1> QED BY <1>1, <1>6 DEF ListIs

\* MuxSet()
LEMMA SetIsTyped ==
  ASSUME NEW m \in Muxes, NEW l \in Lists, NEW c \in ChunksOf(l), ListOf(c.tag) = l
  PROVE  ListIs(Set(m, c), m, l, <<c>>)
<1>1. <<c>> \in Seq(ChunksOf(l))
  OBVIOUS
<1>2. Set(m, c) = [m EXCEPT !.lists[l] = <<c>>]
  BY DEF Set
<1> QED BY <1>1, <1>2, ListChanged

\* MuxImageFinalize()
LEMMA FinalizedIsTyped ==
  ASSUME NEW b, b.width \in Nat, b.lossless \in BOOLEAN, b.alph \in BOOLEAN,
         b.inAlpha \in BOOLEAN, NEW h \in Headers
  PROVE  Finalized(b, h) \in Images
<1> PICK al \in BOOLEAN : al = (b.alph /\ ~b.lossless)
  OBVIOUS
<1> PICK ha \in BOOLEAN : ha = (b.inAlpha \/ al)
  OBVIOUS
<1>1. <<>> \in Seq(ChunksOf("unknown"))
  OBVIOUS
<1> PICK i : i = [anmf |-> h, alph |-> al, lossless |-> b.lossless, width |-> b.width,
                  inAlpha |-> b.inAlpha, hasAlpha |-> ha, unknown |-> <<>>]
  OBVIOUS
<1>2. Finalized(b, h) = i
  BY DEF Finalized
<1>3. i \in ImageFields
  BY <1>1 DEF ImageFields
<1>4. /\ i.hasAlpha = ha /\ i.inAlpha = b.inAlpha /\ i.alph = al
      /\ i.lossless = b.lossless
  OBVIOUS
<1>5. (i.hasAlpha <=> i.inAlpha \/ i.alph) /\ (i.alph => ~i.lossless)
  BY <1>4
<1> QED BY <1>2, <1>3, <1>5 DEF Images
-----------------------------------------------------------------------------
(* WebPMuxAssemble().                                                      *)

\* The frames of an object.
LEMMA FramesCounted ==
  ASSUME NEW m \in Muxes
  PROVE  /\ NumFrames(m) \in Nat
         /\ NumFrames(m) = 0 <=> \A i \in DOMAIN m.images : ~HasHeader(m.images[i])
         /\ NumFrames(m) = 1 /\ HasHeader(m.images[1]) =>
              /\ m.images # <<>> /\ 1 \in DOMAIN m.images
              /\ \A i \in DOMAIN m.images : HasHeader(m.images[i]) => i = 1
<1> PICK n \in Nat : n = Len(m.images)
  BY DEF Muxes
<1> PICK H : H = {i \in 1..n : HasHeader(m.images[i])}
  OBVIOUS
<1>1. DOMAIN m.images = 1..n /\ m.images \in Seq(Images)
  BY DEF Muxes
<1>2. NumFrames(m) = Cardinality(H)
  BY <1>1 DEF NumFrames
<1>3. IsFiniteSet(H)
  <2>1. IsFiniteSet(1..n)
    BY FS_Interval
  <2>2. H \in SUBSET (1..n)
    OBVIOUS
  <2> QED BY <2>1, <2>2, FS_Subset
<1>4. Cardinality(H) \in Nat
  BY <1>3, FS_CardinalityType
<1>5. Cardinality(H) = 0 <=> H = {}
  BY <1>3, FS_EmptySet
<1>6. Cardinality(H) = 1 => \E x : H = {x}
  BY <1>3, FS_Singleton
<1>7. ASSUME Cardinality(H) = 1, HasHeader(m.images[1])
      PROVE  /\ m.images # <<>> /\ 1 \in DOMAIN m.images
             /\ \A i \in DOMAIN m.images : HasHeader(m.images[i]) => i = 1
  <2> PICK x : H = {x}
    BY <1>6, <1>7
  <2>1. x \in 1..n
    OBVIOUS
  <2>2. 1 \in 1..n
    BY <2>1
  <2>3. 1 \in H
    BY <1>7, <2>2
  <2>4. \A i \in 1..n : HasHeader(m.images[i]) => i = 1
    BY <2>3
  <2>5. m.images # <<>>
    BY <1>1, <2>2
  <2> QED BY <1>1, <2>2, <2>4, <2>5
<1> QED BY <1>1, <1>2, <1>4, <1>5, <1>7

\* An image that is no longer a frame.
Dropped(n, m) == n = [m EXCEPT !.images[1].anmf = <<>>]

LEMMA HeaderDropped ==
  ASSUME NEW m \in Muxes, 1 \in DOMAIN m.images, NEW n, Dropped(n, m)
  PROVE  /\ n \in Muxes /\ n.lists = m.lists /\ n.canvas = m.canvas
         /\ DOMAIN n.images = DOMAIN m.images /\ ~HasHeader(n.images[1])
         /\ \A i \in DOMAIN m.images : i # 1 => n.images[i] = m.images[i]
<1> PICK e : e = [m.images[1] EXCEPT !.anmf = <<>>]
  OBVIOUS
<1> PICK s : s = [m.images EXCEPT ![1] = e]
  OBVIOUS
<1>1. m.images \in Seq(Images) /\ 1 \in 1..Len(m.images)
  BY DEF Muxes
<1>2. m.images[1] \in Images
  BY <1>1, ElementOfSeq
<1>3. e \in Images /\ e.anmf = <<>>
  <2>1. <<>> \in Headers
    BY DEF Headers
  <2>2. /\ e \in ImageFields /\ e.anmf = <<>> /\ e.hasAlpha = m.images[1].hasAlpha
        /\ e.inAlpha = m.images[1].inAlpha /\ e.alph = m.images[1].alph
        /\ e.lossless = m.images[1].lossless
    BY <1>2, <2>1 DEF Images, ImageFields
  <2> QED BY <1>2, <2>2 DEF Images
<1>4. /\ s \in Seq(Images) /\ DOMAIN s = DOMAIN m.images /\ s[1] = e
      /\ \A i \in DOMAIN m.images : i # 1 => s[i] = m.images[i]
  BY <1>1, <1>3, ExceptSeq
<1>5. n = [m EXCEPT !.images = s]
  BY DEF Dropped
<1>6. n \in Muxes /\ n.images = s /\ n.lists = m.lists /\ n.canvas = m.canvas
  <2>1. s \in Seq(Images)
    BY <1>4
  <2> QED BY <1>5, <2>1 DEF Muxes
<1> QED BY <1>3, <1>4, <1>6 DEF HasHeader

\* MuxCleanup(): what is left has no ANIM, or still has a frame.
LEMMA CleanupIsTyped ==
  ASSUME NEW m \in Muxes
  PROVE  /\ Cleanup(m) \in Muxes /\ Cleanup(m).canvas = m.canvas
         /\ DOMAIN Cleanup(m).images = DOMAIN m.images
<1> DEFINE alone == /\ NumFrames(m) = 1 /\ HasHeader(m.images[1])
                    /\ m.canvas \in {0, m.images[1].width}
           n == IF alone THEN [m EXCEPT !.images[1].anmf = <<>>] ELSE m
<1>1. n \in Muxes /\ n.canvas = m.canvas /\ DOMAIN n.images = DOMAIN m.images
  <2>1. CASE alone
    <3>1. 1 \in DOMAIN m.images
      BY <2>1, FramesCounted
    <3>2. Dropped(n, m)
      BY <2>1 DEF Dropped
    <3> QED BY <3>1, <3>2, HeaderDropped
  <2> QED BY <2>1
<1>2. Cleanup(m) = IF NumFrames(n) = 0 THEN Deleted(n, "ANIM") ELSE n
  BY DEF Cleanup
<1> HIDE DEF n
<1>3. "ANIM" \in ListTags /\ "ANIM" \in Lists
  BY DEF ListTags, Lists
<1>4. Deleted(n, "ANIM") \in Muxes /\ ListIs(Deleted(n, "ANIM"), n, "ANIM", <<>>)
  BY <1>1, <1>3, DeletedIsTyped
<1> QED BY <1>1, <1>2, <1>4 DEF ListIs

\* The position of the greatest of the first n numbers.
Greatest(s, n, i) == i \in 1..n /\ \A j \in 1..n : s[i] >= s[j]

\* A nonempty sequence of numbers has a greatest one.
LEMMA GreatestOf ==
  ASSUME NEW s \in Seq(Nat), NEW n \in Nat \ {0}, n <= Len(s)
  PROVE  \E i : Greatest(s, n, i)
<1>0. \A i \in 1..Len(s) : s[i] \in Nat
  BY ElementOfSeq
<1> DEFINE S == {k \in Nat : k + 1 <= n => \E i : Greatest(s, k + 1, i)}
<1>1. 0 \in S
  <2>1. s[1] \in Nat /\ 1 \in 1..1 /\ \A j \in 1..1 : j = 1
    BY <1>0
  <2>2. Greatest(s, 0 + 1, 1)
    BY <2>1 DEF Greatest
  <2> QED BY <2>2
<1>2. ASSUME NEW k \in Nat, k \in S PROVE k + 1 \in S
  <2> SUFFICES ASSUME (k + 1) + 1 <= n PROVE \E i : Greatest(s, (k + 1) + 1, i)
    OBVIOUS
  <2>0. PICK i : Greatest(s, k + 1, i)
    BY <1>2
  <2> PICK l \in 1..Len(s) : l = (k + 1) + 1
    OBVIOUS
  <2>1. i \in 1..l /\ s[i] \in Nat /\ s[l] \in Nat /\ \A j \in 1..l : s[j] \in Nat
    BY <1>0, <2>0 DEF Greatest
  <2>2. \A j \in 1..l : s[i] >= s[j] \/ j = l
    BY <2>0 DEF Greatest
  <2>3. CASE s[i] >= s[l]
    <3>1. Greatest(s, l, i)
      BY <2>1, <2>2, <2>3 DEF Greatest
    <3> QED BY <3>1
  <2>4. CASE s[l] >= s[i]
    <3>1. \A j \in 1..l : s[l] >= s[j]
      BY <2>1, <2>2, <2>4
    <3>2. Greatest(s, l, l)
      BY <3>1 DEF Greatest
    <3> QED BY <3>2
  <2> QED BY <2>1, <2>3, <2>4
<1> HIDE DEF S
<1>3. n - 1 \in Nat /\ (n - 1) + 1 = n
  OBVIOUS
<1>4. n - 1 \in S
  BY <1>1, <1>2, <1>3, Induct
<1> QED BY <1>3, <1>4 DEF S

\* GetAdjustedCanvasSize() returns a size.
LEMMA TightCanvasIsTyped ==
  ASSUME NEW m \in Muxes, m.images # <<>>, ChainIsFrames(m)
  PROVE  TightCanvas(m) \in Nat
<1> PICK n \in Nat \ {0} : n = Len(m.images)
  BY EmptySeq DEF Muxes
<1>1. m.images \in Seq(Images) /\ DOMAIN m.images = 1..n
  BY DEF Muxes
<1>2. ASSUME NEW i \in 1..n PROVE m.images[i] \in Images /\ m.images[i].width \in Nat
  BY <1>1, ElementOfSeq DEF Images, ImageFields
<1>3. CASE n = 1
  BY <1>2, <1>3 DEF TightCanvas
<1>4. CASE n # 1
  <2>1. ASSUME NEW i \in 1..n PROVE m.images[i].anmf[1].x \in Nat
    <3>0. Len(m.images) > 1 /\ i \in DOMAIN m.images
      <4>1. n > 1
        <5>1. \A k \in Nat \ {0} : k = 1 \/ k > 1
          OBVIOUS
        <5> QED BY <1>4, <5>1, Zenon
      <4> QED BY <1>1, <4>1, Zenon
    <3>1. m.images[i].anmf # <<>> /\ m.images[i].anmf \in Headers
      BY <1>2, <3>0 DEF ChainIsFrames, HasHeader, Images, ImageFields
    <3> PICK a \in AnmfInfo : m.images[i].anmf = <<a>>
      BY <3>1 DEF Headers
    <3> QED BY DEF AnmfInfo
  <2> PICK s : s = [i \in 1..n |-> m.images[i].anmf[1].x + m.images[i].width]
    OBVIOUS
  <2>2. s \in Seq(Nat) /\ Len(s) = n
    <3>1. \A i \in 1..n : m.images[i].anmf[1].x + m.images[i].width \in Nat
      BY <1>2, <2>1
    <3> QED BY <3>1
  <2>3. PICK i : Greatest(s, n, i)
    <3>1. n <= Len(s)
      BY <2>2
    <3> QED BY <2>2, <3>1, GreatestOf, Zenon
  <2> PICK V : V = {s[j] : j \in 1..n}
    OBVIOUS
  <2>4. {f.anmf[1].x + f.width : f \in ToSet(m.images)} = V
    BY <1>1 DEF ToSet
  <2>5. s[i] \in V /\ \A y \in V : s[i] >= y
    BY <2>3 DEF Greatest
  <2>6. MaxOf(V) \in V
    BY <2>5 DEF MaxOf
  <2>7. \A v \in V : v \in Nat
    BY <2>2, ElementOfSeq
  <2>8. Len(m.images) # 1
    BY <1>4
  <2>9. TightCanvas(m) = MaxOf(V)
    BY <2>4, <2>8, Zenon DEF TightCanvas
  <2> QED BY <2>6, <2>7, <2>9
<1> QED BY <1>3, <1>4

\* The VP8X chunk of an object.
Canvas(m) == IF m.canvas # 0 THEN m.canvas ELSE TightCanvas(m)
HeaderOf(m) ==
  ChunkOf("VP8X", [flags |-> Flags(m) \cup {f \in {"ALPHA"} : MuxHasAlpha(m)},
                   canvas |-> Canvas(m)])

\* It is one.
LEMMA HeaderIsTyped ==
  ASSUME NEW m \in Muxes, m.images # <<>>, ChainIsFrames(m)
  PROVE  HeaderOf(m) \in ChunksOf("VP8X") /\ HeaderOf(m).tag = "VP8X"
<1>1. TightCanvas(m) \in Nat
  BY TightCanvasIsTyped
<1>2. m.canvas \in Nat
  BY DEF Muxes
<1>3. Canvas(m) \in Nat
  BY <1>1, <1>2 DEF Canvas
<1> PICK fl : fl = Flags(m) \cup {f \in {"ALPHA"} : MuxHasAlpha(m)}
  OBVIOUS
<1>4. fl \in SUBSET (MetadataTags \cup {"ANIMATION", "ALPHA"})
  BY DEF Flags
<1> PICK i : i = [flags |-> fl, canvas |-> Canvas(m)]
  OBVIOUS
<1>5. i \in VP8XInfo
  BY <1>3, <1>4 DEF VP8XInfo
<1>6. HeaderOf(m) = ChunkOf("VP8X", i)
  BY DEF HeaderOf
<1>7. ChunkOf("VP8X", i) \in ChunksOf("VP8X")
  BY <1>5, ChunkOfIsTyped
<1>8. ChunkOf("VP8X", i).tag = "VP8X"
  BY DEF ChunkOf
<1> QED BY <1>6, <1>7, <1>8

\* What CreateVP8XChunk() leaves: no VP8X, or a new one.
Without8X(n, m) == ListIs(n, m, "VP8X", <<>>)
With8X(n, m) == ListIs(n, m, "VP8X", <<HeaderOf(m)>>)
TooSmall(m) == TightCanvas(m) > Canvas(m)
NeedsNone(m) == Flags(m) = {} /\ m.lists["unknown"] = <<>>

\* CreateVP8XChunk()
LEMMA WithVP8XIs ==
  ASSUME NEW m \in Muxes, ChainIsFrames(m)
  PROVE  /\ m.images = <<>> => WithVP8X(m).mux = m /\ WithVP8X(m).err = "INVALID"
         /\ m.images # <<>> =>
              IF TooSmall(m)
              THEN WithVP8X(m).mux = WithoutVP8X(m) /\ WithVP8X(m).err = "INVALID"
              ELSE IF NeedsNone(m)
              THEN WithVP8X(m).mux = WithoutVP8X(m) /\ WithVP8X(m).err = "OK"
              ELSE /\ WithVP8X(m).mux = Set(WithoutVP8X(m), HeaderOf(m))
                   /\ WithVP8X(m).err = "OK"
         /\ WithoutVP8X(m) \in Muxes /\ Without8X(WithoutVP8X(m), m)
         /\ m.images # <<>> => With8X(Set(WithoutVP8X(m), HeaderOf(m)), m)
<1>1. m.images = <<>> => WithVP8X(m).mux = m /\ WithVP8X(m).err = "INVALID"
  BY DEF WithVP8X
<1>2. "VP8X" \in ListTags /\ "VP8X" \in Lists /\ ListOf("VP8X") = "VP8X"
  BY DEF ListTags, Lists, ListOf
<1> PICK d : d = WithoutVP8X(m)
  OBVIOUS
<1>3. d \in Muxes /\ Without8X(d, m)
  BY <1>2, DeletedIsTyped DEF WithoutVP8X, Without8X
<1>4. d.lists["VP8X"] = <<>>
  BY <1>3 DEF Without8X, ListIs
<1>5. CanSet(d, "VP8X")
  BY <1>2, <1>4 DEF CanSet
<1>6. ASSUME m.images # <<>>
      PROVE  With8X(Set(d, HeaderOf(m)), m)
  <2> PICK h : h = HeaderOf(m)
    OBVIOUS
  <2>1. h \in ChunksOf("VP8X") /\ h.tag = "VP8X"
    BY <1>6, HeaderIsTyped
  <2>2. ListIs(Set(d, h), d, "VP8X", <<h>>)
    BY <1>2, <1>3, <2>1, SetIsTyped
  <2> QED BY <1>3, <2>2 DEF Without8X, With8X, ListIs
<1>7. ASSUME m.images # <<>>
      PROVE  IF TooSmall(m) THEN WithVP8X(m).mux = d /\ WithVP8X(m).err = "INVALID"
             ELSE IF NeedsNone(m) THEN WithVP8X(m).mux = d /\ WithVP8X(m).err = "OK"
             ELSE WithVP8X(m).mux = Set(d, HeaderOf(m)) /\ WithVP8X(m).err = "OK"
  <2>1. TightCanvas(m) \in Nat /\ Canvas(m) \in Nat
    BY <1>7, TightCanvasIsTyped DEF Canvas, Muxes
  <2> PICK tight \in Nat, canvas \in Nat : tight = TightCanvas(m) /\ canvas = Canvas(m)
    BY <2>1
  <2>2. WithVP8X(m) =
          CASE tight > canvas -> [mux |-> d, err |-> "INVALID"]
            [] tight <= canvas /\ NeedsNone(m) -> [mux |-> d, err |-> "OK"]
            [] OTHER -> [mux |-> Set(d, HeaderOf(m)), err |-> "OK"]
    BY <1>5, <1>7 DEF WithVP8X, Canvas, HeaderOf, NeedsNone
  <2>3. TooSmall(m) <=> tight > canvas
    BY DEF TooSmall
  <2>4. ~TooSmall(m) <=> tight <= canvas
    BY <2>3
  <2> QED BY <2>2, <2>3, <2>4
<1> QED BY <1>1, <1>3, <1>6, <1>7
-----------------------------------------------------------------------------
(* What it writes.                                                         *)

\* The chunks of an image without the ANMF around them.
Inside(image) ==
  (IF image.alph THEN <<ChunkOf("ALPH", <<>>)>> ELSE <<>>)
    \o <<ChunkOf(IF image.lossless THEN "VP8L" ELSE "VP8",
                 [width |-> image.width, alpha |-> image.inAlpha])>>
    \o image.unknown
AnmfOf(image) ==
  [tag |-> "ANMF", size |-> AnmfSize + TotalSize(Inside(image)),
   info |-> [x |-> image.anmf[1].x, width |-> image.anmf[1].width]]

\* The bitstream of an image.
BitsOf(image) ==
  ChunkOf(IF image.lossless THEN "VP8L" ELSE "VP8",
          [width |-> image.width, alpha |-> image.inAlpha])
AlphOf(image) == IF image.alph THEN <<ChunkOf("ALPH", <<>>)>> ELSE <<>>

\* They are chunks.
LEMMA InsideIsTyped ==
  ASSUME NEW image \in Images
  PROVE  /\ Inside(image) \in Seq(Chunks) /\ Len(Inside(image)) > 0
         /\ BitsOf(image) \in Chunks /\ BitsOf(image).tag \in ImageTags
         /\ AlphOf(image) \in Seq(Chunks) /\ image.unknown \in Seq(Chunks)
         /\ Inside(image) = AlphOf(image) \o <<BitsOf(image)>> \o image.unknown
<1>1. image \in ImageFields
  BY DEF Images
<1>2. image.unknown \in Seq(Chunks)
  BY <1>1, ListIsOfChunks DEF ImageFields
<1>3. BitsOf(image) \in Chunks /\ BitsOf(image).tag \in ImageTags
  <2> PICK tag \in ImageTags : tag = IF image.lossless THEN "VP8L" ELSE "VP8"
    BY DEF ImageTags
  <2> PICK i : i = [width |-> image.width, alpha |-> image.inAlpha]
    OBVIOUS
  <2>1. i \in ImageInfo
    BY <1>1 DEF ImageInfo, ImageFields
  <2>2. BitsOf(image) = ChunkOf(tag, i)
    BY DEF BitsOf
  <2>3. ChunkOf(tag, i) \in Chunks /\ ChunkOf(tag, i).tag = tag
    BY <2>1, ChunkOfIsTyped DEF ChunkOf
  <2> QED BY <2>2, <2>3
<1>4. AlphOf(image) \in Seq(Chunks)
  <2>1. ChunkOf("ALPH", <<>>) \in Chunks
    BY ChunkOfIsTyped
  <2>2. <<ChunkOf("ALPH", <<>>)>> \in Seq(Chunks) /\ <<>> \in Seq(Chunks)
    BY <2>1
  <2> QED BY <2>2 DEF AlphOf
<1>5. Inside(image) = AlphOf(image) \o <<BitsOf(image)>> \o image.unknown
  BY DEF Inside, AlphOf, BitsOf
<1> PICK a \in Seq(Chunks), b \in Chunks, u \in Seq(Chunks) :
           a = AlphOf(image) /\ b = BitsOf(image) /\ u = image.unknown
  BY <1>2, <1>3, <1>4
<1>6. a \o <<b>> \o u \in Seq(Chunks) /\ Len(a \o <<b>> \o u) > 0
  <2>1. <<b>> \in Seq(Chunks) /\ Len(<<b>>) > 0
    OBVIOUS
  <2>2. a \o <<b>> \in Seq(Chunks) /\ Len(a \o <<b>>) > 0
    BY <2>1, Longer, Zenon
  <2> QED BY <2>2, Longer, Zenon
<1> QED BY <1>2, <1>3, <1>4, <1>5, <1>6

\* So is the ANMF.
LEMMA AnmfIsTyped ==
  ASSUME NEW image \in Images, HasHeader(image)
  PROVE  /\ AnmfOf(image) \in Chunks /\ AnmfOf(image).info = image.anmf[1]
         /\ image.anmf = <<AnmfOf(image).info>>
<1>1. image.anmf \in Headers /\ image.anmf # <<>>
  BY DEF Images, ImageFields, HasHeader
<1> PICK a \in AnmfInfo : image.anmf = <<a>>
  BY <1>1 DEF Headers
<1>2. [x |-> a.x, width |-> a.width] = a
  BY DEF AnmfInfo
<1> PICK n \in Nat : n = AnmfSize + TotalSize(Inside(image))
  <2>1. TotalSize(Inside(image)) \in Nat
    <3> PICK s \in Seq(Chunks) : s = Inside(image)
      BY InsideIsTyped
    <3> PICK k \in Nat : k = Len(s)
      OBVIOUS
    <3> PICK g \in [0..k -> Nat] : Sizes(g, s)
      BY SizesExist
    <3> QED BY TotalSizeIs
  <2> QED BY <2>1, FormatAssumption
<1>3. AnmfOf(image) = [tag |-> "ANMF", size |-> n, info |-> a]
  BY <1>2 DEF AnmfOf
<1>4. [tag |-> "ANMF", size |-> n, info |-> a] \in Chunks
  BY DEF Chunks
<1> QED BY <1>3, <1>4

\* And all that is written of an image.
LEMMA ImageChunksIs ==
  ASSUME NEW image \in Images
  PROVE  /\ ImageChunks(image) = IF HasHeader(image)
                                 THEN <<AnmfOf(image)>> \o Inside(image)
                                 ELSE Inside(image)
         /\ ImageChunks(image) \in Seq(Chunks) /\ Len(ImageChunks(image)) > 0
<1>1. ImageChunks(image) = IF HasHeader(image)
                           THEN <<AnmfOf(image)>> \o Inside(image) ELSE Inside(image)
  BY DEF ImageChunks, AnmfAround, AnmfOf, Inside
<1> PICK s \in Seq(Chunks) : s = Inside(image) /\ Len(s) > 0
  BY InsideIsTyped
<1>2. CASE HasHeader(image)
  <2> PICK a \in Chunks : a = AnmfOf(image)
    BY <1>2, AnmfIsTyped
  <2>1. <<a>> \o s \in Seq(Chunks) /\ Len(<<a>> \o s) > 0
    OBVIOUS
  <2> QED BY <1>1, <1>2, <2>1
<1>3. CASE ~HasHeader(image)
  BY <1>1, <1>3
<1> QED BY <1>1, <1>2, <1>3

\* The chunks of all images.
ImagesOf(m) == FlattenSeq([i \in DOMAIN m.images |-> ImageChunks(m.images[i])])
FileChunks(m) ==
  m.lists["VP8X"] \o m.lists["ICCP"] \o m.lists["ANIM"] \o ImagesOf(m)
    \o m.lists["EXIF"] \o m.lists["XMP"] \o m.lists["unknown"]

\* The chunks of the file.
LEMMA EmittedIsTyped ==
  ASSUME NEW m \in Muxes, m.images # <<>>
  PROVE  /\ [i \in DOMAIN m.images |-> ImageChunks(m.images[i])] \in Seq(Seq(Chunks))
         /\ ImagesOf(m) \in Seq(Chunks) /\ FileChunks(m) \in Seq(Chunks)
         /\ FileChunks(m) # <<>> /\ Emitted(m) = FileOf(FileChunks(m))
<1> PICK n \in Nat \ {0} : n = Len(m.images)
  BY EmptySeq DEF Muxes
<1>0. PICK s : s = [i \in 1..n |-> ImageChunks(m.images[i])]
  OBVIOUS
<1>1. m.images \in Seq(Images) /\ DOMAIN m.images = 1..n
  BY DEF Muxes
<1>2. \A i \in 1..n : s[i] \in Seq(Chunks) /\ Len(s[i]) > 0
  BY <1>0, <1>1, ElementOfSeq, ImageChunksIs
<1>3. s \in Seq(Seq(Chunks)) /\ Len(s) = n
  <2> PICK C : C = Seq(Chunks)
    OBVIOUS
  <2>1. \A i \in 1..n : ImageChunks(m.images[i]) \in C
    BY <1>0, <1>2
  <2>2. s \in Seq(C) /\ Len(s) = n
    BY <1>0, <2>1
  <2> QED BY <2>2
<1>4. ImagesOf(m) = FlattenSeq(s)
  BY <1>0, <1>1 DEF ImagesOf
<1>5. ImagesOf(m) \in Seq(Chunks) /\ Len(ImagesOf(m)) > 0
  <2>0. n \in 1..n
    OBVIOUS
  <2>1. s[n] \in Seq(Chunks) /\ Len(s[n]) > 0 /\ n \in 1..Len(s)
    BY <1>2, <1>3, <2>0, Zenon
  <2>2. Len(FlattenSeq(s)) > 0
    BY <1>3, <2>1, FlattenIsLonger
  <2>3. FlattenSeq(s) \in Seq(Chunks)
    BY <1>3, FlattenIsTyped
  <2> QED BY <1>4, <2>2, <2>3
<1>6. \A l \in Lists : m.lists[l] \in Seq(Chunks)
  BY DEF Muxes, ListsOfChunks
<1> PICK a \in Seq(Chunks), b \in Seq(Chunks), c \in Seq(Chunks), d \in Seq(Chunks),
         e \in Seq(Chunks), f \in Seq(Chunks), h \in Seq(Chunks) :
           /\ a = m.lists["VP8X"] /\ b = m.lists["ICCP"] /\ c = m.lists["ANIM"]
           /\ d = ImagesOf(m) /\ Len(d) > 0
           /\ e = m.lists["EXIF"] /\ f = m.lists["XMP"] /\ h = m.lists["unknown"]
  BY <1>5, <1>6 DEF Lists, MetadataTags
<1>7. /\ a \o b \o c \o d \o e \o f \o h \in Seq(Chunks)
      /\ Len(a \o b \o c \o d \o e \o f \o h) > 0
  <2>1. a \o b \in Seq(Chunks)
    BY Joined, Zenon
  <2>2. a \o b \o c \in Seq(Chunks)
    BY <2>1, Joined, Zenon
  <2>3. a \o b \o c \o d \in Seq(Chunks) /\ Len(a \o b \o c \o d) > 0
    BY <2>2, Longer, Zenon
  <2>4. a \o b \o c \o d \o e \in Seq(Chunks) /\ Len(a \o b \o c \o d \o e) > 0
    BY <2>3, Longer, Zenon
  <2>5. /\ a \o b \o c \o d \o e \o f \in Seq(Chunks)
        /\ Len(a \o b \o c \o d \o e \o f) > 0
    BY <2>4, Longer, Zenon
  <2> QED BY <2>5, Longer, Zenon
<1>8. FileChunks(m) = a \o b \o c \o d \o e \o f \o h
  BY DEF FileChunks
<1>9. Emitted(m) = FileOf(FileChunks(m))
  BY DEF Emitted, FileChunks, ImagesOf
<1>10. FileChunks(m) # <<>>
  BY <1>7, <1>8
<1> QED BY <1>0, <1>1, <1>3, <1>5, <1>7, <1>8, <1>9, <1>10

\* WebPMuxAssemble() writes a file.
LEMMA EmittedIsFile ==
  ASSUME NEW m \in Muxes, m.images # <<>>
  PROVE  IsFile(Emitted(m))
BY EmittedIsTyped, FileOfIsFile
-----------------------------------------------------------------------------
(* Every call keeps the type of the object.                                *)

\* The calls that write no file.
LEMMA ReturnsTyped ==
  ASSUME NEW m \in Muxes, NEW r, Return(m, r) PROVE mux' \in Muxes /\ FileInv'
BY DEF Return, FileInv

\* The tags of the calls.
LEMMA SettableTags == Settable \cup {"ANIM"} \subseteq ListTags \ {"VP8X"}
<1>1. UnknownTags \cap (KnownTags \cup {"unknown"}) = {}
  BY FormatAssumption
<1>2. "VP8X" \notin UnknownTags
  BY <1>1 DEF KnownTags
<1> QED BY <1>2, MuxAssumption DEF ListTags, Lists, MetadataTags

\* WebPMuxSetChunk()
LEMMA SetChunkKeeps ==
  ASSUME NEW m \in Muxes, m = mux, NEW tag \in ListTags \ {"VP8X"},
         \/ SetChunk(tag)
         \/ tag = "ANIM" /\ SetAnimationParams
  PROVE  mux' \in Muxes /\ FileInv'
<1> PICK l \in Lists : l = ListOf(tag)
  BY ListOfTag
<1> PICK d \in Muxes : d = Deleted(m, tag)
  BY DeletedIsTyped
<1> PICK c \in ChunksOf(l) : c = ChunkOf(tag, <<>>)
  BY ChunkOfIsTyped
<1>1. c.tag = tag
  BY DEF ChunkOf
<1>2. Set(d, c) \in Muxes
  BY <1>1, SetIsTyped DEF ListIs
<1>3. \E n \in {d, Set(d, c)} : \E r : Return(n, r)
  BY DEF SetChunk, SetAnimationParams
<1> QED BY <1>2, <1>3, ReturnsTyped

\* WebPMuxDeleteChunk()
LEMMA DeleteChunkKeeps ==
  ASSUME NEW m \in Muxes, m = mux, NEW tag \in ListTags, DeleteChunk(tag)
  PROVE  mux' \in Muxes /\ FileInv'
BY DeletedIsTyped, ReturnsTyped DEF DeleteChunk

\* WebPMuxSetImage()
LEMMA SetImageKeeps ==
  ASSUME NEW m \in Muxes, m = mux, NEW b \in Bitstreams, SetImage(b)
  PROVE  mux' \in Muxes /\ FileInv'
<1> PICK i \in Images : i = Finalized(b, <<>>)
  <2>1. /\ b.width \in Nat /\ b.lossless \in BOOLEAN /\ b.alph \in BOOLEAN
        /\ b.inAlpha \in BOOLEAN /\ <<>> \in Headers
    BY MuxAssumption DEF Headers
  <2> QED BY <2>1, FinalizedIsTyped
<1> PICK d : d = [m EXCEPT !.images = <<>>]
  OBVIOUS
<1> PICK n : n = [d EXCEPT !.images = <<i>>]
  OBVIOUS
<1>1. d \in Muxes
  <2>1. <<>> \in Seq(Images)
    OBVIOUS
  <2> QED BY <2>1, ImagesChanged
<1>2. n \in Muxes
  <2>1. <<i>> \in Seq(Images)
    OBVIOUS
  <2> QED BY <1>1, <2>1, ImagesChanged
<1>3. \E v \in {d, n} : \E r : Return(v, r)
  BY DEF SetImage
<1> QED BY <1>1, <1>2, <1>3, ReturnsTyped

\* WebPMuxPushFrame()
LEMMA PushFrameKeeps ==
  ASSUME NEW m \in Muxes, m = mux, NEW b \in Bitstreams, NEW x \in Offsets,
         PushFrame(b, x)
  PROVE  mux' \in Muxes /\ FileInv'
<1> PICK h : h = <<[x |-> 2 * (x \div 2), width |-> b.width]>>
  OBVIOUS
<1>1. /\ b.width \in Nat /\ b.lossless \in BOOLEAN /\ b.alph \in BOOLEAN
      /\ b.inAlpha \in BOOLEAN
  BY MuxAssumption
<1>2. h \in Headers
  <2>1. 2 * (x \div 2) \in Nat
    <3>1. x \in Nat
      BY MuxAssumption
    <3> QED BY <3>1
  <2>2. [x |-> 2 * (x \div 2), width |-> b.width] \in AnmfInfo
    BY <1>1, <2>1 DEF AnmfInfo
  <2> QED BY <2>2 DEF Headers
<1> PICK i \in Images : i = Finalized(b, h)
  BY <1>1, <1>2, FinalizedIsTyped
<1> PICK n : n = [m EXCEPT !.images = Append(@, i)]
  OBVIOUS
<1>3. n \in Muxes
  <2> PICK s : s = Append(m.images, i)
    OBVIOUS
  <2>1. s \in Seq(Images)
    BY DEF Muxes
  <2>2. n = [m EXCEPT !.images = s]
    OBVIOUS
  <2> QED BY <2>1, <2>2, ImagesChanged
<1>4. \E r : Return(m, r) \/ Return(n, r)
  BY DEF PushFrame
<1> QED BY <1>3, <1>4, ReturnsTyped, Zenon

\* A sequence with an element removed.
LEMMA RemovedIsTyped ==
  ASSUME NEW T, NEW g \in Seq(T), NEW k \in 1..Len(g)
  PROVE  RemoveAt(g, k) \in Seq(T)
<1> PICK a : a = SubSeq(g, 1, k - 1)
  OBVIOUS
<1> PICK b : b = SubSeq(g, k + 1, Len(g))
  OBVIOUS
<1>1. a \in Seq(T)
  <2>1. \A i \in 1..(k - 1) : g[i] \in T
    BY ElementOfSeq
  <2> QED BY <2>1, SubSeqProperties
<1>2. b \in Seq(T)
  <2>1. \A i \in (k + 1)..Len(g) : g[i] \in T
    BY ElementOfSeq
  <2> QED BY <2>1, SubSeqProperties
<1>3. RemoveAt(g, k) = a \o b
  BY DEF RemoveAt
<1> QED BY <1>1, <1>2, <1>3, Joined

\* WebPMuxDeleteFrame()
LEMMA DeleteFrameKeeps ==
  ASSUME NEW m \in Muxes, m = mux, NEW nth, DeleteFrame(nth)
  PROVE  mux' \in Muxes /\ FileInv'
<1> PICK k : k = IF nth = 0 THEN Len(m.images) ELSE nth
  OBVIOUS
<1>1. CASE k \in DOMAIN m.images
  <2> PICK s : s = RemoveAt(m.images, k)
    OBVIOUS
  <2>1. s \in Seq(Images)
    <3> PICK g \in Seq(Images) : g = m.images
      BY DEF Muxes
    <3>1. k \in 1..Len(g)
      BY <1>1
    <3>2. RemoveAt(g, k) \in Seq(Images)
      BY <3>1, RemovedIsTyped
    <3> QED BY <3>2
  <2> PICK n : n = [m EXCEPT !.images = s]
    OBVIOUS
  <2>2. n \in Muxes
    BY <2>1, ImagesChanged
  <2>3. Return(n, "OK")
    BY <1>1 DEF DeleteFrame
  <2> QED BY <2>2, <2>3, ReturnsTyped
<1>2. CASE k \notin DOMAIN m.images
  BY <1>2, ReturnsTyped DEF DeleteFrame
<1> QED BY <1>1, <1>2

\* WebPMuxSetCanvasSize()
LEMMA SetCanvasSizeKeeps ==
  ASSUME NEW m \in Muxes, m = mux, NEW w \in Canvases, SetCanvasSize(w)
  PROVE  mux' \in Muxes /\ FileInv'
<1>1. "VP8X" \in ListTags
  BY DEF ListTags, Lists
<1> PICK d \in Muxes : d = Deleted(m, "VP8X")
  BY <1>1, DeletedIsTyped
<1> PICK n : n = [d EXCEPT !.canvas = w]
  OBVIOUS
<1>2. n \in Muxes
  BY MuxAssumption, CanvasChanged
<1> QED BY <1>2, ReturnsTyped DEF SetCanvasSize

\* WebPMuxAssemble()
LEMMA AssembleKeeps ==
  ASSUME NEW m \in Muxes, m = mux, Assemble
  PROVE  mux' \in Muxes /\ FileInv'
<1> PICK c \in Muxes : c = Cleanup(m)
  BY CleanupIsTyped
<1>0. ChainIsFrames(c)
  BY DEF Assemble
<1> PICK v : v = WithVP8X(c)
  OBVIOUS
<1> PICK a : a = Assembled(m)
  OBVIOUS
<1>1. v.mux \in Muxes /\ (v.err = "OK" => v.mux.images # <<>>)
  <2>1. CASE c.images = <<>>
    BY <1>0, <2>1, WithVP8XIs
  <2>2. CASE c.images # <<>>
    <3>1. WithoutVP8X(c) \in Muxes /\ WithoutVP8X(c).images # <<>>
      BY <1>0, <2>2, WithVP8XIs DEF Without8X, ListIs
    <3>2. /\ Set(WithoutVP8X(c), HeaderOf(c)) \in Muxes
          /\ Set(WithoutVP8X(c), HeaderOf(c)).images # <<>>
      BY <1>0, <2>2, WithVP8XIs DEF With8X, ListIs
    <3>3. v.mux \in {WithoutVP8X(c), Set(WithoutVP8X(c), HeaderOf(c))}
      BY <1>0, <2>2, WithVP8XIs
    <3> QED BY <3>1, <3>2, <3>3
  <2> QED BY <2>1, <2>2
<1>2. a.mux = v.mux /\ (a.err = "OK" => v.err = "OK")
  BY DEF Assembled
<1>3. Deleted(c, "VP8X") \in Muxes
  BY DeletedIsTyped DEF ListTags, Lists
<1>4. CASE /\ mux' = a.mux /\ result' = a.err
           /\ file' = (IF a.err = "OK" THEN Emitted(a.mux) ELSE NoFile)
  <2>1. a.err = "OK" => IsFile(Emitted(a.mux))
    BY <1>1, <1>2, EmittedIsFile
  <2>2. mux' \in Muxes
    BY <1>1, <1>2, <1>4
  <2> QED BY <1>4, <2>1, <2>2 DEF FileInv
<1>5. CASE \E n \in {Deleted(c, "VP8X"), v.mux} : Return(n, "MEMORY")
  BY <1>1, <1>3, <1>5, ReturnsTyped
<1> QED BY <1>4, <1>5 DEF Assemble
-----------------------------------------------------------------------------
(* WebPMuxCreate().                                                        *)

\* A run of the loop: from the state a, one chunk after the other.
Read(g, a, chunks, n) == g[0] = a /\ \A i \in 1..n : g[i] = ReadChunk(g[i - 1], chunks[i])

ReadAll(a, chunks) == FoldLeft(ReadChunk, a, chunks)

\* States that the loop does not leave.
Closed(A, chunks, n) == \A s \in A : \A i \in 1..n : ReadChunk(s, chunks[i]) \in A

\* The fold is the end of a run through A.
IsRead(A, a, chunks, n) ==
  \E g \in [0..n -> A] : Read(g, a, chunks, n) /\ ReadAll(a, chunks) = g[n]

\* The fold is such a run.
LEMMA FoldReads ==
  ASSUME NEW A, NEW a \in A, NEW n \in Nat, NEW chunks, DOMAIN chunks = 1..n,
         Closed(A, chunks, n)
  PROVE  IsRead(A, a, chunks, n)
<1> PICK step : step = [p \in A \X (1..n) |-> ReadChunk(p[1], chunks[p[2]])]
  OBVIOUS
<1>1. step \in [A \X (1..n) -> A]
  BY DEF Closed
<1>2. \A b \in A : \A i \in 1..n : step[<<b, i>>] = ReadChunk(b, chunks[i])
  OBVIOUS
<1>3. PICK h \in [Positions(n) -> A] : Folds(h, a, step, n)
  BY <1>1, FoldsExist, Zenon DEF HasFolds
<1> DEFINE body(f) == [s \in Positions(n) |->
             IF s = {} THEN a ELSE ReadChunk(f[s \ {Max(s)}], chunks[Max(s)])]
           iter == CHOOSE f : f = body(f)
<1>4. ReadAll(a, chunks) = iter[1..n]
  BY DEF ReadAll, FoldLeft, MapThenFoldSet, Positions
<1> HIDE DEF iter
<1>5. ASSUME NEW s \in Positions(n), s # {}
      PROVE  Max(s) \in 1..n /\ s \ {Max(s)} \in Positions(n)
  <2>1. Max(s) \in s
    BY <1>5, GreatestExists
  <2> QED BY <2>1 DEF Positions
<1>6. h = body(h)
  <2>1. ASSUME NEW s \in Positions(n)
        PROVE  h[s] = IF s = {} THEN a ELSE ReadChunk(h[s \ {Max(s)}], chunks[Max(s)])
    <3>1. CASE s = {}
      BY <1>3, <3>1 DEF Folds
    <3>2. CASE s # {}
      <4>1. h[s \ {Max(s)}] \in A /\ Max(s) \in 1..n
        BY <1>3, <1>5, <3>2
      <4>2. h[s] = step[<<h[s \ {Max(s)}], Max(s)>>]
        BY <1>3, <3>2 DEF Folds
      <4> QED BY <1>2, <3>2, <4>1, <4>2
    <3> QED BY <3>1, <3>2
  <2> QED BY <1>3, <2>1
<1>7. iter = body(iter)
  BY <1>6 DEF iter
<1>8. FoldsIn(A, iter, a, step, n)
  <2>1. ASSUME NEW s \in Positions(n)
        PROVE  IF s = {} THEN iter[s] = a
               ELSE iter[s \ {Max(s)}] \in A =>
                      iter[s] = step[<<iter[s \ {Max(s)}], Max(s)>>]
    <3>1. iter[s] = IF s = {} THEN a ELSE ReadChunk(iter[s \ {Max(s)}], chunks[Max(s)])
      BY <1>7
    <3> QED BY <1>2, <1>5, <3>1
  <2> QED BY <2>1 DEF FoldsIn
<1>9. Folds(iter, a, step, n)
  BY <1>1, <1>8, FoldStaysIn, Zenon
<1> PICK g : g = [k \in 0..n |-> iter[1..k]]
  OBVIOUS
<1>10. Steps(g, a, step, n)
  BY <1>1, <1>9, FoldTakesSteps, Zenon
<1>11. \A k \in 0..n : g[k] \in A
  BY <1>1, <1>10, StepsAreTyped, Zenon
<1>12. g \in [0..n -> A]
  BY <1>11
<1>13. Read(g, a, chunks, n)
  <2>1. ASSUME NEW i \in 1..n PROVE g[i] = ReadChunk(g[i - 1], chunks[i])
    <3>1. g[i] = step[<<g[i - 1], i>>]
      BY <1>10 DEF Steps
    <3>2. g[i - 1] \in A
      BY <1>11
    <3> QED BY <1>2, <3>1, <3>2
  <2>2. g[0] = a
    BY <1>10 DEF Steps
  <2> QED BY <2>1, <2>2 DEF Read
<1>14. g[n] = iter[1..n]
  OBVIOUS
<1> QED BY <1>4, <1>12, <1>13, <1>14 DEF IsRead

\* The states of the loop, reading chunks in P.
PlacedChunks(P) == \A c \in P : Plain(c) \in Chunks /\ c.at \in Nat
Partials(P) ==
  [anmf : Headers, alph : BOOLEAN,
   image : {<<>>} \cup {<<c>> : c \in {p \in P : p.tag \in ImageTags}},
   unknown : Seq(ChunksOf("unknown")), partial : BOOLEAN]
ReaderFields(P) == [mux : Muxes, wpi : Partials(P), inside : Nat, size : Nat, ok : BOOLEAN]
Readers(P) ==
  {s \in ReaderFields(P) : s.inside > 0 /\ ~s.wpi.partial => s.wpi.image # <<>>}

\* What reading begins with.
LEMMA NoImageIsTyped ==
  ASSUME NEW P PROVE NoImage \in Partials(P)
<1>1. <<>> \in Headers /\ <<>> \in Seq(ChunksOf("unknown"))
  BY DEF Headers
<1> QED BY <1>1 DEF Partials, NoImage

LEMMA NewMuxIsTyped == NewMux \in Muxes
<1> PICK f : f = [l \in Lists |-> <<>>]
  OBVIOUS
<1>1. \A S : <<>> \in Seq(S)
  OBVIOUS
<1>2. f \in [Lists -> Seq(Chunks)] /\ \A l \in Lists : f[l] \in Seq(ChunksOf(l))
  BY <1>1
<1>3. f \in ListsOfChunks
  BY <1>2 DEF ListsOfChunks
<1>4. <<>> \in Seq(Images)
  BY <1>1
<1> QED BY <1>3, <1>4 DEF Muxes, NewMux

\* A chunk by its tag.
LEMMA PlainTypes ==
  ASSUME NEW c, Plain(c) \in Chunks
  PROVE  /\ Plain(c).tag = c.tag
         /\ c.tag = "ANMF" => c.info \in AnmfInfo
         /\ c.tag = "VP8X" => c.info.canvas \in Nat
         /\ \A l \in Lists : c.tag \in TagsOf(l) => Plain(c) \in ChunksOf(l)
<1>0. /\ Plain(c).tag = c.tag /\ Plain(c).size = c.size /\ Plain(c).info = c.info
  BY DEF Plain
<1>1. c.tag = "ANMF" => c.info \in AnmfInfo
  BY <1>0 DEF Chunks, ImageTags
<1>2. c.tag = "VP8X" => c.info.canvas \in Nat
  BY ChunkTypes
<1>3. \A l \in Lists : c.tag \in TagsOf(l) => Plain(c) \in ChunksOf(l)
  BY <1>0 DEF ChunksOf
<1> QED BY <1>0, <1>1, <1>2, <1>3

\* An image that was read.
LEMMA ImageOfIsTyped ==
  ASSUME NEW P, PlacedChunks(P), NEW w \in Partials(P), w.image # <<>>
  PROVE  ImageOf(w) \in Images
<1> PICK c \in P : w.image = <<c>> /\ c.tag \in ImageTags
  BY DEF Partials
<1>1. c.info.width \in Nat /\ c.info.alpha \in BOOLEAN
  BY ChunkTypes DEF PlacedChunks
<1> PICK b : b = [width |-> c.info.width, inAlpha |-> c.info.alpha,
                  lossless |-> c.tag = "VP8L", alph |-> w.alph]
  OBVIOUS
<1>2. /\ b.width \in Nat /\ b.lossless \in BOOLEAN /\ b.alph \in BOOLEAN
      /\ b.inAlpha \in BOOLEAN
  BY <1>1 DEF Partials
<1>3. w.anmf \in Headers /\ w.unknown \in Seq(ChunksOf("unknown"))
  BY DEF Partials
<1> PICK i \in Images : i = Finalized(b, w.anmf)
  BY <1>2, <1>3, FinalizedIsTyped
<1> PICK n : n = [i EXCEPT !.unknown = w.unknown]
  OBVIOUS
<1>4. ImageOf(w) = n
  BY DEF ImageOf
<1>5. /\ n \in ImageFields /\ n.hasAlpha = i.hasAlpha /\ n.inAlpha = i.inAlpha
      /\ n.alph = i.alph /\ n.lossless = i.lossless
  <2>1. i \in ImageFields
    BY DEF Images
  <2> QED BY <1>3, <2>1 DEF ImageFields
<1> QED BY <1>4, <1>5 DEF Images

\* A state with another object, and a new image.
LEMMA ReaderChanged ==
  ASSUME NEW P, NEW s \in ReaderFields(P), NEW m \in Muxes, NoImage \in Partials(P),
         NEW t, t = [s EXCEPT !.mux = m, !.wpi = NoImage, !.inside = 0]
  PROVE  t \in ReaderFields(P) /\ t.inside = 0
BY DEF ReaderFields

\* The image is put into the list.
LEMMA PushedIsTyped ==
  ASSUME NEW P, PlacedChunks(P), NEW s \in ReaderFields(P), s.wpi.image # <<>>
  PROVE  Pushed(s) \in Readers(P)
<1> PICK w \in Partials(P) : w = s.wpi
  BY DEF ReaderFields
<1> PICK m \in Muxes : m = s.mux
  BY DEF ReaderFields
<1> PICK i \in Images : i = ImageOf(w)
  BY ImageOfIsTyped
<1> PICK q : q = Append(m.images, i)
  OBVIOUS
<1>1. q \in Seq(Images)
  BY DEF Muxes
<1>0. PICK n : n = [m EXCEPT !.images = q]
  OBVIOUS
<1>2. n \in Muxes
  BY <1>0, <1>1, ImagesChanged
<1>3. NoImage \in Partials(P)
  BY NoImageIsTyped
<1>4. Pushed(s) = [s EXCEPT !.mux = n, !.wpi = NoImage, !.inside = 0]
  BY <1>0 DEF Pushed
<1> PICK t : t = [s EXCEPT !.mux = n, !.wpi = NoImage, !.inside = 0]
  OBVIOUS
<1>5. t \in ReaderFields(P) /\ t.inside = 0
  BY <1>2, <1>3, ReaderChanged
<1>6. Pushed(s) = t
  BY <1>4
<1>7. ~(t.inside > 0)
  BY <1>5
<1> QED BY <1>5, <1>6, <1>7, Zenon DEF Readers

\* A failure changes no other field.
LEMMA FailedIsTyped ==
  ASSUME NEW P, NEW s \in Readers(P) PROVE Failed(s) \in Readers(P)
<1>1. s \in ReaderFields(P)
  BY DEF Readers
<1>2. /\ Failed(s) \in ReaderFields(P) /\ Failed(s).inside = s.inside
      /\ Failed(s).wpi = s.wpi
  BY <1>1 DEF Failed, ReaderFields
<1> QED BY <1>2 DEF Readers

\* What a chunk does to the state: an ALPH waits for its image, an image comes
\* inside or outside an ANMF, an unknown chunk is the image's, an ANMF begins a
\* frame, and a chunk outside images is added to its list.
AlphRead(s) == [s EXCEPT !.wpi.alph = TRUE, !.wpi.partial = TRUE]
FrameRead(s, c) == [s EXCEPT !.wpi.image = <<c>>, !.wpi.partial = FALSE]
ImageRead(s, c) == [s EXCEPT !.wpi.image = <<c>>]
UnknownRead(s, c) == [s EXCEPT !.wpi.unknown = Append(@, Plain(c))]
AnmfRead(s, c) == [s EXCEPT !.wpi.anmf = <<c.info>>, !.wpi.partial = TRUE,
                            !.inside = c.at + ChunkHeaderSize + c.size]
ListRead(s, c) == [s EXCEPT !.mux.lists[ListOf(c.tag)] = Append(@, Plain(c)),
                            !.mux.canvas = IF c.tag = "VP8X" THEN c.info.canvas ELSE @]

\* A state with another wpi, or another object.
Reads(t, s, w) == t = [s EXCEPT !.wpi = w]
Becomes(t, s, m) == t = [s EXCEPT !.mux = m]

LEMMA PartialChanged ==
  ASSUME NEW P, NEW s \in Readers(P), NEW w \in Partials(P), NEW t, Reads(t, s, w)
  PROVE  t \in ReaderFields(P) /\ t.wpi = w /\ t.inside = s.inside
<1>1. s \in ReaderFields(P)
  BY DEF Readers
<1> QED BY <1>1 DEF ReaderFields, Reads

LEMMA ObjectChanged ==
  ASSUME NEW P, NEW s \in Readers(P), NEW m \in Muxes, NEW t, Becomes(t, s, m)
  PROVE  t \in Readers(P)
<1>1. s \in ReaderFields(P)
  BY DEF Readers
<1>2. t \in ReaderFields(P) /\ t.wpi = s.wpi /\ t.inside = s.inside
  BY <1>1 DEF ReaderFields, Becomes
<1> QED BY <1>2 DEF Readers

\* Each keeps the type.
LEMMA AlphIsRead ==
  ASSUME NEW P, NEW s \in Readers(P)
  PROVE  AlphRead(s) \in Readers(P) /\ AlphRead(s).inside = s.inside
<1> PICK w : w = [s.wpi EXCEPT !.alph = TRUE, !.partial = TRUE]
  OBVIOUS
<1>1. s.wpi \in Partials(P)
  BY DEF Readers, ReaderFields
<1>2. w \in Partials(P) /\ w.partial
  BY <1>1 DEF Partials
<1>3. Reads(AlphRead(s), s, w)
  BY DEF Reads, AlphRead
<1>4. /\ AlphRead(s) \in ReaderFields(P) /\ AlphRead(s).wpi = w
      /\ AlphRead(s).inside = s.inside
  BY <1>2, <1>3, PartialChanged
<1> QED BY <1>2, <1>4 DEF Readers

LEMMA FrameIsRead ==
  ASSUME NEW P, NEW s \in Readers(P), NEW c \in P, c.tag \in ImageTags
  PROVE  FrameRead(s, c) \in Readers(P) /\ FrameRead(s, c).inside = s.inside
<1> PICK w : w = [s.wpi EXCEPT !.image = <<c>>, !.partial = FALSE]
  OBVIOUS
<1>1. s.wpi \in Partials(P)
  BY DEF Readers, ReaderFields
<1>2. <<c>> # <<>> /\ <<c>> \in {<<k>> : k \in {p \in P : p.tag \in ImageTags}}
  OBVIOUS
<1>3. w \in Partials(P) /\ w.image # <<>>
  BY <1>1, <1>2 DEF Partials
<1>4. Reads(FrameRead(s, c), s, w)
  BY DEF Reads, FrameRead
<1>5. /\ FrameRead(s, c) \in ReaderFields(P) /\ FrameRead(s, c).wpi = w
      /\ FrameRead(s, c).inside = s.inside
  BY <1>3, <1>4, PartialChanged
<1> QED BY <1>3, <1>5 DEF Readers

LEMMA ImageIsRead ==
  ASSUME NEW P, PlacedChunks(P), NEW s \in Readers(P), NEW c \in P, c.tag \in ImageTags
  PROVE  Pushed(ImageRead(s, c)) \in Readers(P)
<1> PICK w : w = [s.wpi EXCEPT !.image = <<c>>]
  OBVIOUS
<1>1. s.wpi \in Partials(P)
  BY DEF Readers, ReaderFields
<1>2. <<c>> # <<>> /\ <<c>> \in {<<k>> : k \in {p \in P : p.tag \in ImageTags}}
  OBVIOUS
<1>3. w \in Partials(P) /\ w.image # <<>>
  BY <1>1, <1>2 DEF Partials
<1>4. Reads(ImageRead(s, c), s, w)
  BY DEF Reads, ImageRead
<1>5. ImageRead(s, c) \in ReaderFields(P) /\ ImageRead(s, c).wpi = w
  BY <1>3, <1>4, PartialChanged
<1> QED BY <1>3, <1>5, PushedIsTyped

LEMMA UnknownIsRead ==
  ASSUME NEW P, PlacedChunks(P), NEW s \in Readers(P), NEW c \in P, c.tag \in UnknownTags
  PROVE  UnknownRead(s, c) \in Readers(P) /\ UnknownRead(s, c).inside = s.inside
<1>1. s.wpi \in Partials(P)
  BY DEF Readers, ReaderFields
<1> PICK u \in Seq(ChunksOf("unknown")) : u = s.wpi.unknown
  BY <1>1 DEF Partials
<1>2. Plain(c) \in ChunksOf("unknown")
  BY PlainTypes DEF PlacedChunks, TagsOf, Lists
<1> PICK v : v = Append(u, Plain(c))
  OBVIOUS
<1>3. v \in Seq(ChunksOf("unknown"))
  BY <1>2
<1> PICK w : w = [s.wpi EXCEPT !.unknown = v]
  OBVIOUS
<1>4. w \in Partials(P) /\ w.image = s.wpi.image /\ w.partial = s.wpi.partial
  BY <1>1, <1>3 DEF Partials
<1>5. Reads(UnknownRead(s, c), s, w)
  BY DEF Reads, UnknownRead
<1>6. /\ UnknownRead(s, c) \in ReaderFields(P) /\ UnknownRead(s, c).wpi = w
      /\ UnknownRead(s, c).inside = s.inside
  BY <1>4, <1>5, PartialChanged
<1> QED BY <1>4, <1>6 DEF Readers

LEMMA AnmfIsRead ==
  ASSUME NEW P, PlacedChunks(P), NEW s \in Readers(P), NEW c \in P, c.tag = "ANMF"
  PROVE  AnmfRead(s, c) \in Readers(P)
<1> PICK t : t = AnmfRead(s, c)
  OBVIOUS
<1>1. s \in ReaderFields(P) /\ s.wpi \in Partials(P)
  BY DEF Readers, ReaderFields
<1>2. c.info \in AnmfInfo
  BY PlainTypes DEF PlacedChunks
<1> PICK h \in Headers : h = <<c.info>>
  BY <1>2 DEF Headers
<1> PICK w : w = [s.wpi EXCEPT !.anmf = h, !.partial = TRUE]
  OBVIOUS
<1>3. w \in Partials(P) /\ w.partial
  BY <1>1 DEF Partials
<1> PICK e \in Nat : e = c.at + ChunkHeaderSize + c.size
  <2>1. c.at \in Nat /\ c.size \in Nat /\ ChunkHeaderSize \in Nat
    BY ChunkTypes, FormatAssumption DEF PlacedChunks
  <2> QED BY <2>1
<1>4. t = [s EXCEPT !.wpi = w, !.inside = e]
  BY DEF AnmfRead
<1>5. t \in ReaderFields(P) /\ t.wpi = w
  BY <1>1, <1>3, <1>4 DEF ReaderFields
<1> QED BY <1>3, <1>5 DEF Readers

LEMMA ListIsRead ==
  ASSUME NEW P, PlacedChunks(P), NEW s \in Readers(P), NEW c \in P,
         c.tag \in Lists \cup UnknownTags
  PROVE  ListRead(s, c) \in Readers(P)
<1>1. s \in ReaderFields(P)
  BY DEF Readers
<1> PICK m \in Muxes : m = s.mux
  BY <1>1 DEF ReaderFields
<1>2. c.tag \in Tags /\ Plain(c) \in Chunks
  BY ChunkTypes DEF PlacedChunks
<1>3. c.tag # "unknown"
  <2>1. UnknownTags \cap (KnownTags \cup {"unknown"}) = {} /\ "unknown" \notin KnownTags
    BY FormatAssumption DEF KnownTags, MetadataTags, ImageTags
  <2> QED BY <1>2, <2>1 DEF Tags
<1>4. c.tag \in ListTags
  BY <1>3 DEF ListTags
<1> PICK l \in Lists : l = ListOf(c.tag) /\ c.tag \in TagsOf(l)
  BY <1>4, ListOfTag
<1> PICK q \in Seq(ChunksOf(l)) : q = m.lists[l]
  BY DEF Muxes, ListsOfChunks
<1> PICK p : p = Append(q, Plain(c))
  OBVIOUS
<1>5. p \in Seq(ChunksOf(l))
  BY <1>2, PlainTypes
<1> PICK n : n = [m EXCEPT !.lists[l] = p]
  OBVIOUS
<1>6. n \in Muxes /\ n.canvas = m.canvas
  <2>1. ListIs(n, m, l, p)
    BY <1>5, ListChanged
  <2> QED BY <2>1 DEF ListIs
<1> PICK w \in Nat : w = IF c.tag = "VP8X" THEN c.info.canvas ELSE m.canvas
  <2>1. m.canvas \in Nat
    BY DEF Muxes
  <2> QED BY <1>2, <2>1, PlainTypes
<1> PICK o : o = [n EXCEPT !.canvas = w]
  OBVIOUS
<1>7. o \in Muxes
  BY <1>6, CanvasChanged
<1>8. Becomes(ListRead(s, c), s, o)
  BY DEF Becomes, ListRead
<1> QED BY <1>7, <1>8, ObjectChanged

\* One chunk inside an ANMF.
LEMMA ReadInsideIsTyped ==
  ASSUME NEW P, PlacedChunks(P), NEW s \in Readers(P), NEW c \in P, s.inside > 0
  PROVE  ReadInside(s, c) \in Readers(P)
<1> PICK t : t = CASE c.tag = "ALPH" /\ ~s.wpi.alph -> AlphRead(s)
                   [] c.tag \in ImageTags /\ s.wpi.image = <<>> -> FrameRead(s, c)
                   [] c.tag \in UnknownTags /\ ~s.wpi.partial -> UnknownRead(s, c)
                   [] OTHER -> Failed(s)
  OBVIOUS
<1>1. AlphRead(s) \in Readers(P) /\ AlphRead(s).inside = s.inside
  BY AlphIsRead
<1>2. c.tag \in ImageTags =>
        FrameRead(s, c) \in Readers(P) /\ FrameRead(s, c).inside = s.inside
  BY FrameIsRead
<1>3. c.tag \in UnknownTags =>
        UnknownRead(s, c) \in Readers(P) /\ UnknownRead(s, c).inside = s.inside
  BY UnknownIsRead
<1>4. Failed(s) \in Readers(P) /\ Failed(s).inside = s.inside
  BY FailedIsTyped DEF Failed, Readers, ReaderFields
<1>5. ReadInside(s, c) = IF t.ok /\ c.at + DiskSize(c) = s.inside
                         THEN IF t.wpi.partial THEN Failed(t) ELSE Pushed(t) ELSE t
  BY DEF ReadInside, AlphRead, FrameRead, UnknownRead
<1>6. t \in Readers(P) /\ t.inside = s.inside
  BY <1>1, <1>2, <1>3, <1>4
<1>7. ~t.wpi.partial => Pushed(t) \in Readers(P)
  BY <1>6, PushedIsTyped DEF Readers
<1>8. Failed(t) \in Readers(P)
  BY <1>6, FailedIsTyped
<1> QED BY <1>5, <1>6, <1>7, <1>8

\* One chunk of the file.
LEMMA ReadOutsideIsTyped ==
  ASSUME NEW P, PlacedChunks(P), NEW s \in Readers(P), NEW c \in P
  PROVE  ReadOutside(s, c) \in Readers(P)
<1>0. ReadOutside(s, c) = CASE c.tag = "ALPH" /\ ~s.wpi.alph -> AlphRead(s)
        [] c.tag \in ImageTags -> Pushed(ImageRead(s, c))
        [] c.tag = "ANMF" /\ ~s.wpi.partial /\ c.size > AnmfSize -> AnmfRead(s, c)
        [] c.tag \in Lists \cup UnknownTags /\ ~s.wpi.partial -> ListRead(s, c)
        [] OTHER -> Failed(s)
  BY DEF ReadOutside, AlphRead, ImageRead, AnmfRead, ListRead
<1>1. AlphRead(s) \in Readers(P)
  BY AlphIsRead
<1>2. c.tag \in ImageTags => Pushed(ImageRead(s, c)) \in Readers(P)
  BY ImageIsRead
<1>3. c.tag = "ANMF" => AnmfRead(s, c) \in Readers(P)
  BY AnmfIsRead
<1>4. c.tag \in Lists \cup UnknownTags => ListRead(s, c) \in Readers(P)
  BY ListIsRead
<1>5. Failed(s) \in Readers(P)
  BY FailedIsTyped
<1> QED BY <1>0, <1>1, <1>2, <1>3, <1>4, <1>5

\* ChunkVerifyAndAssign()
LEMMA ReadChunkIsTyped ==
  ASSUME NEW P, PlacedChunks(P), NEW s \in Readers(P), NEW c \in P
  PROVE  ReadChunk(s, c) \in Readers(P)
<1>1. /\ Failed(s) \in Readers(P) /\ ReadOutside(s, c) \in Readers(P)
      /\ s.inside > 0 => ReadInside(s, c) \in Readers(P)
  BY FailedIsTyped, ReadOutsideIsTyped, ReadInsideIsTyped
<1> QED BY <1>1 DEF ReadChunk

\* The loop with the object m so far, the image w, an ANMF that ends at e, and
\* a file that ends at n; between the images of a file.
Midway(m, w, e, n) == [mux |-> m, wpi |-> w, inside |-> e, size |-> n, ok |-> TRUE]
Between(m, n) == Midway(m, NoImage, 0, n)

\* A file is gone through chunk by chunk.
LEMMA FileIsRead ==
  ASSUME NEW f, IsFile(f), NEW n \in Nat, DOMAIN f.chunks = 1..n,
         NEW a, a = Between(NewMux, f.size)
  PROVE  \E P : IsRead(Readers(P), a, f.chunks, n)
<1> PICK P : P = {f.chunks[i] : i \in 1..n}
  OBVIOUS
<1>2. \A i \in 1..n : f.chunks[i] \in P
  OBVIOUS
<1>3. PlacedChunks(P)
  <2> PICK p : p = [i \in 1..n |-> Plain(f.chunks[i])]
    OBVIOUS
  <2> PICK q : q = [i \in 1..n |-> f.chunks[i].at]
    OBVIOUS
  <2>1. p \in Seq(Chunks) /\ q \in Seq(Nat) /\ Len(p) = n /\ Len(q) = n
    BY DEF IsFile
  <2>2. \A i \in 1..n : Plain(f.chunks[i]) \in Chunks /\ f.chunks[i].at \in Nat
    BY <2>1, ElementOfSeq
  <2> QED BY <2>2 DEF PlacedChunks
<1>4. a \in Readers(P)
  <2>1. NewMux \in Muxes
    BY NewMuxIsTyped
  <2>2. NoImage \in Partials(P)
    BY NoImageIsTyped
  <2>3. a \in ReaderFields(P) /\ a.inside = 0
    BY <2>1, <2>2 DEF ReaderFields, IsFile, Between, Midway
  <2> QED BY <2>3 DEF Readers
<1>5. \A t \in Readers(P) : \A i \in 1..n : ReadChunk(t, f.chunks[i]) \in Readers(P)
  BY <1>2, <1>3, ReadChunkIsTyped
<1> PICK A : A = Readers(P)
  OBVIOUS
<1> PICK cs : cs = f.chunks
  OBVIOUS
<1>6. a \in A /\ DOMAIN cs = 1..n /\ Closed(A, cs, n)
  BY <1>4, <1>5 DEF Closed
<1>7. IsRead(A, a, cs, n)
  BY <1>6, FoldReads, Zenon
<1> QED BY <1>7

\* WebPMuxCreate() makes an object.
LEMMA CreateIsTyped ==
  ASSUME NEW f, IsFile(f), Create(f) # <<>> PROVE Create(f)[1] \in Muxes
<1>a. PICK a : a = Between(NewMux, f.size)
  OBVIOUS
<1>s. PICK s : s = ReadAll(a, f.chunks)
  OBVIOUS
<1>1. Create(f) = <<s.mux>>
  BY <1>a, <1>s DEF Create, ReadAll, Between, Midway
<1>n. PICK n \in Nat : DOMAIN f.chunks = 1..n
  <2> PICK p : p = [i \in DOMAIN f.chunks |-> Plain(f.chunks[i])]
    OBVIOUS
  <2>1. p \in Seq(Chunks) /\ DOMAIN p = DOMAIN f.chunks
    BY DEF IsFile
  <2> QED BY <2>1
<1>P. PICK P : IsRead(Readers(P), a, f.chunks, n)
  BY <1>a, <1>n, FileIsRead
<1>2. s \in Readers(P)
  BY <1>n, <1>s, <1>P DEF IsRead
<1> QED BY <1>1, <1>2 DEF Readers, ReaderFields

\* WebPMuxCreate()
LEMMA ReopenKeeps ==
  ASSUME FileInv, Reopen PROVE mux' \in Muxes /\ FileInv'
BY CreateIsTyped, ReturnsTyped DEF Reopen, FileInv

\* Every call on the muxer.
LEMMA MuxKeeps ==
  ASSUME mux \in Muxes, FileInv, MuxNext PROVE mux' \in Muxes /\ FileInv'
<1> PICK m \in Muxes : m = mux
  OBVIOUS
<1>1. CASE \E tag \in Settable : SetChunk(tag)
  BY <1>1, SettableTags, SetChunkKeeps
<1>2. CASE \E tag \in Settable \cup {"ANIM"} : DeleteChunk(tag)
  BY <1>2, SettableTags, DeleteChunkKeeps
<1>3. CASE \E b \in Bitstreams : SetImage(b) \/ \E x \in Offsets : PushFrame(b, x)
  BY <1>3, SetImageKeeps, PushFrameKeeps
<1>4. CASE \E nth \in 0..MaxFrames : DeleteFrame(nth)
  BY <1>4, DeleteFrameKeeps
<1>5. CASE \E width \in Canvases : SetCanvasSize(width)
  BY <1>5, SetCanvasSizeKeeps
<1>6. CASE SetAnimationParams
  <2>1. "ANIM" \in ListTags \ {"VP8X"}
    BY SettableTags
  <2> QED BY <1>6, <2>1, SetChunkKeeps
<1>7. CASE Assemble
  BY <1>7, AssembleKeeps
<1>8. CASE Reopen
  BY <1>8, ReopenKeeps
<1> QED BY <1>1, <1>2, <1>3, <1>4, <1>5, <1>6, <1>7, <1>8 DEF MuxNext
-----------------------------------------------------------------------------
(* The system.                                                             *)

\* The inductive invariant: the muxer's object has its type, the file is one
\* that can be parsed, and the parser has gone through part of it.
Inv == mux \in Muxes /\ ParserInv /\ DoneIsUsable

LEMMA InitInv == ASSUME Init PROVE Inv
<1>1. mux \in Muxes
  BY NewMuxIsTyped DEF Init
<1>2. FileInv
  BY HandmadeAssumption DEF Init, FileInv
<1>3. ParserInv
  BY <1>2, IdleIsInv DEF Init, DemuxInit
<1>4. DoneIsUsable
  BY DEF DoneIsUsable, Init, DemuxInit, NewDemuxer
<1> QED BY <1>1, <1>3, <1>4 DEF Inv

\* A call on the muxer: no parser is running.
LEMMA EditInv == ASSUME Inv, Edit PROVE Inv'
<1>0. /\ pc = "none" /\ pc' = pc /\ available' = available /\ start' = start
      /\ status' = status /\ demuxer' = demuxer /\ fragment' = fragment
      /\ storing' = storing
  BY DEF Edit, parser
<1>1. mux' \in Muxes /\ FileInv'
  BY MuxKeeps DEF Edit, Inv, ParserInv
<1>2. ParserInv
  BY DEF Inv
<1>3. ParserType'
  BY <1>0, <1>2 DEF ParserInv, ParserType
<1>4. IdleInv' /\ FramesInv' /\ DoneInv'
  BY <1>0, <1>2 DEF ParserInv, IdleInv, FramesInv, DoneInv, Sound, IsThere
<1>5. OpenInv' /\ PlaceInv' /\ FormatInv'
  BY <1>0, <1>2 DEF ParserInv, OpenInv, PlaceInv, FormatInv, Storing
<1>6. FragmentInv' /\ StoringInv' /\ SimpleInv'
  BY <1>0 DEF FragmentInv, StoringInv, SimpleInv, Storing
<1>7. DoneIsUsable'
  BY <1>0, <1>2 DEF ParserInv, DoneInv, DoneIsUsable
<1> QED BY <1>1, <1>3, <1>4, <1>5, <1>6, <1>7 DEF Inv, ParserInv

\* A step of the parser.
LEMMA ParseInv == ASSUME Inv, Parse PROVE Inv'
BY ParseKeeps DEF Inv, Parse

\* Every step.
LEMMA StepInv == ASSUME Inv, [Next]_vars PROVE Inv'
<1>1. CASE Edit
  BY <1>1, EditInv
<1>2. CASE Parse
  BY <1>2, ParseInv
<1>3. CASE UNCHANGED vars
  <2>1. /\ mux' = mux /\ file' = file /\ pc' = pc /\ available' = available
        /\ start' = start /\ status' = status /\ demuxer' = demuxer
        /\ fragment' = fragment /\ storing' = storing
    BY <1>3 DEF vars, parser
  <2>2. ParserType' /\ FileInv' /\ OpenInv' /\ IdleInv' /\ PlaceInv'
    BY <2>1 DEF Inv, ParserInv, ParserType, FileInv, OpenInv, IdleInv, PlaceInv, AtChunk
  <2>3. FramesInv' /\ FragmentInv' /\ StoringInv' /\ FormatInv' /\ SimpleInv' /\ DoneInv'
    BY <2>1 DEF Inv, ParserInv, FramesInv, FragmentInv, StoringInv, FormatInv, SimpleInv,
                DoneInv, Sound, IsThere, Storing, Number, Chunk
  <2>4. DoneIsUsable'
    BY <2>1 DEF Inv, DoneIsUsable, FramePayload, InCanvas
  <2> QED BY <2>1, <2>2, <2>3, <2>4 DEF Inv, ParserInv
<1> QED BY <1>1, <1>2, <1>3 DEF Next

\* The invariant always holds.
THEOREM InvHolds == Spec => []Inv
<1>1. Init => Inv
  BY InitInv
<1>2. Inv /\ [Next]_vars => Inv'
  BY StepInv
<1> QED BY <1>1, <1>2, PTL DEF Spec

\* Whatever is written, or comes from elsewhere, is a file that begins with a
\* chunk and is chunks to its end.
THEOREM FilesAreFiles == Spec => [](file # NoFile => IsFile(file))
<1>1. Inv => (file # NoFile => IsFile(file))
  BY DEF Inv, ParserInv, FileInv
<1> QED BY <1>1, InvHolds, PTL

\* A file that WebPDemux() declares valid has frames that can be used: entire,
\* in order, inside the canvas, and their payload is one image with its alpha.
THEOREM DoneIsUsableHolds == Spec => []DoneIsUsable
<1>1. Inv => DoneIsUsable
  BY DEF Inv
<1> QED BY <1>1, InvHolds, PTL
-----------------------------------------------------------------------------
(* Assembling twice.                                                       *)

\* Objects are equal when their fields are.
LEMMA SameObject ==
  ASSUME NEW m \in Muxes, NEW n \in Muxes, n.images = m.images, n.canvas = m.canvas,
         \A l \in Lists : n.lists[l] = m.lists[l]
  PROVE  n = m
<1>1. m.lists \in [Lists -> Seq(Chunks)] /\ n.lists \in [Lists -> Seq(Chunks)]
  BY DEF Muxes, ListsOfChunks
<1>2. m.lists = n.lists
  BY <1>1
<1> QED BY <1>2 DEF Muxes

\* What MuxCleanup() leaves, and only what it would leave alone: the only frame
\* has an offset or a canvas of its own, and without frames there is no ANIM.
Alone(m) ==
  NumFrames(m) = 1 /\ HasHeader(m.images[1]) /\ m.canvas \in {0, m.images[1].width}
IsClean(m) == ~Alone(m) /\ (NumFrames(m) = 0 => m.lists["ANIM"] = <<>>)

LEMMA CleanStays ==
  ASSUME NEW m \in Muxes, IsClean(m) PROVE Cleanup(m) = m
<1>1. Cleanup(m) = IF NumFrames(m) = 0 THEN Deleted(m, "ANIM") ELSE m
  BY DEF Cleanup, IsClean, Alone
<1>2. "ANIM" \in ListTags /\ "ANIM" \in Lists
  BY DEF ListTags, Lists
<1>3. CASE NumFrames(m) = 0
  <2> PICK n : n = Deleted(m, "ANIM")
    OBVIOUS
  <2>1. ListIs(n, m, "ANIM", <<>>)
    BY <1>2, DeletedIsTyped
  <2>2. n \in Muxes /\ n.images = m.images /\ n.canvas = m.canvas
    BY <2>1 DEF ListIs
  <2>3. \A l \in Lists : n.lists[l] = m.lists[l]
    BY <1>3, <2>1 DEF ListIs, IsClean
  <2>4. n = m
    BY <2>2, <2>3, SameObject
  <2> QED BY <1>1, <1>3, <2>4
<1> QED BY <1>1, <1>3

LEMMA CleanupCleans ==
  ASSUME NEW m \in Muxes PROVE IsClean(Cleanup(m))
<1> PICK n : n = IF Alone(m) THEN [m EXCEPT !.images[1].anmf = <<>>] ELSE m
  OBVIOUS
<1> PICK c : c = Cleanup(m)
  OBVIOUS
<1>1. c = IF NumFrames(n) = 0 THEN Deleted(n, "ANIM") ELSE n
  BY DEF Cleanup, Alone
<1>2. n \in Muxes /\ (Alone(m) => NumFrames(n) = 0)
  <2>1. CASE Alone(m)
    <3>1. /\ 1 \in DOMAIN m.images
          /\ \A i \in DOMAIN m.images : HasHeader(m.images[i]) => i = 1
      BY <2>1, FramesCounted DEF Alone
    <3>2. Dropped(n, m)
      BY <2>1 DEF Dropped
    <3>3. /\ n \in Muxes /\ DOMAIN n.images = DOMAIN m.images /\ ~HasHeader(n.images[1])
          /\ \A i \in DOMAIN m.images : i # 1 => n.images[i] = m.images[i]
      BY <3>1, <3>2, HeaderDropped
    <3>4. \A i \in DOMAIN n.images : ~HasHeader(n.images[i])
      BY <3>1, <3>3
    <3> QED BY <3>3, <3>4, FramesCounted
  <2> QED BY <2>1
<1>3. CASE NumFrames(n) = 0
  <2>1. "ANIM" \in ListTags /\ "ANIM" \in Lists
    BY DEF ListTags, Lists
  <2>2. ListIs(c, n, "ANIM", <<>>)
    BY <1>1, <1>2, <1>3, <2>1, DeletedIsTyped
  <2>3. c.lists["ANIM"] = <<>> /\ NumFrames(c) = 0
    BY <1>3, <2>2 DEF ListIs, NumFrames
  <2> QED BY <2>3 DEF IsClean, Alone
<1>4. CASE NumFrames(n) # 0
  <2>1. c = m /\ ~Alone(m)
    BY <1>1, <1>2, <1>4
  <2>2. NumFrames(m) # 0
    BY <1>1, <1>4, <2>1
  <2> QED BY <2>1, <2>2 DEF IsClean
<1> QED BY <1>3, <1>4

\* An object that differs in the list VP8X at most.
ButFor8X(n, m) == \E s : ListIs(n, m, "VP8X", s)

\* It is assembled as the other is.
LEMMA HeaderIsSame ==
  ASSUME NEW m \in Muxes, NEW n, ButFor8X(n, m)
  PROVE  /\ n \in Muxes /\ n.images = m.images /\ n.canvas = m.canvas
         /\ NumFrames(n) = NumFrames(m) /\ (ChainIsFrames(n) <=> ChainIsFrames(m))
         /\ TooSmall(n) <=> TooSmall(m)
         /\ NeedsNone(n) <=> NeedsNone(m)
         /\ HeaderOf(n) = HeaderOf(m)
         /\ Alone(n) <=> Alone(m)
         /\ n.lists["ANIM"] = m.lists["ANIM"]
<1>1. n \in Muxes /\ n.images = m.images /\ n.canvas = m.canvas
  BY DEF ButFor8X, ListIs
<1>2. \A l \in Lists \ {"VP8X"} : n.lists[l] = m.lists[l]
  BY DEF ButFor8X, ListIs
<1>3. NumFrames(n) = NumFrames(m) /\ (ChainIsFrames(n) <=> ChainIsFrames(m))
  BY <1>1 DEF NumFrames, ChainIsFrames
<1>4. TightCanvas(n) = TightCanvas(m) /\ Canvas(n) = Canvas(m)
  BY <1>1 DEF TightCanvas, Canvas
<1>5. /\ \A t \in MetadataTags : n.lists[t] = m.lists[t]
      /\ n.lists["ANIM"] = m.lists["ANIM"] /\ n.lists["unknown"] = m.lists["unknown"]
  BY <1>2 DEF Lists, MetadataTags
<1>6. {t \in MetadataTags : n.lists[t] # <<>>} = {t \in MetadataTags : m.lists[t] # <<>>}
  BY <1>5
<1>7. Flags(n) = Flags(m)
  BY <1>1, <1>6 DEF Flags
<1>8. {f \in {"ALPHA"} : MuxHasAlpha(n)} = {f \in {"ALPHA"} : MuxHasAlpha(m)}
  BY <1>1 DEF MuxHasAlpha
<1>9. HeaderOf(n) = HeaderOf(m)
  BY <1>4, <1>7, <1>8, Zenon DEF HeaderOf
<1>10. (TooSmall(n) <=> TooSmall(m)) /\ (NeedsNone(n) <=> NeedsNone(m))
  BY <1>4, <1>5, <1>7 DEF TooSmall, NeedsNone
<1>11. Alone(n) <=> Alone(m)
  BY <1>1, <1>3 DEF Alone
<1> QED BY <1>1, <1>3, <1>5, <1>9, <1>10, <1>11

LEMMA AssembledSame ==
  ASSUME NEW m \in Muxes, NEW n, ButFor8X(n, m), IsClean(m), ChainIsFrames(m),
         m.images # <<>>
  PROVE  Assembled(n) = Assembled(m)
<1>1. /\ n \in Muxes /\ n.images = m.images /\ ChainIsFrames(n)
      /\ (TooSmall(n) <=> TooSmall(m)) /\ (NeedsNone(n) <=> NeedsNone(m))
      /\ HeaderOf(n) = HeaderOf(m) /\ IsClean(n)
  BY HeaderIsSame DEF IsClean
<1>2. Cleanup(n) = n /\ Cleanup(m) = m
  BY <1>1, CleanStays
<1> PICK d : d = WithoutVP8X(m)
  OBVIOUS
<1> PICK e : e = WithoutVP8X(n)
  OBVIOUS
<1>3. d = e
  <2>1. d \in Muxes /\ Without8X(d, m) /\ e \in Muxes /\ Without8X(e, n)
    BY <1>1, WithVP8XIs
  <2>2. d.images = e.images /\ d.canvas = e.canvas /\ \A l \in Lists : d.lists[l] = e.lists[l]
    BY <2>1 DEF Without8X, ButFor8X, ListIs
  <2> QED BY <2>1, <2>2, SameObject
<1>4. IF TooSmall(m) THEN WithVP8X(m).mux = d /\ WithVP8X(m).err = "INVALID"
      ELSE IF NeedsNone(m) THEN WithVP8X(m).mux = d /\ WithVP8X(m).err = "OK"
      ELSE WithVP8X(m).mux = Set(d, HeaderOf(m)) /\ WithVP8X(m).err = "OK"
  BY WithVP8XIs
<1>5. IF TooSmall(n) THEN WithVP8X(n).mux = e /\ WithVP8X(n).err = "INVALID"
      ELSE IF NeedsNone(n) THEN WithVP8X(n).mux = e /\ WithVP8X(n).err = "OK"
      ELSE WithVP8X(n).mux = Set(e, HeaderOf(n)) /\ WithVP8X(n).err = "OK"
  BY <1>1, WithVP8XIs
<1>6. WithVP8X(n).mux = WithVP8X(m).mux /\ WithVP8X(n).err = WithVP8X(m).err
  BY <1>1, <1>3, <1>4, <1>5, Zenon
<1> QED BY <1>2, <1>6 DEF Assembled

\* WebPMuxAssemble() leaves an object that it assembles in the same way.
LEMMA AssembleIsStable ==
  ASSUME NEW m \in Muxes, m = mux, Assemble
  PROVE  Assembled(mux') = Assembled(m)
<1> PICK c \in Muxes : c = Cleanup(m)
  BY CleanupIsTyped
<1>1. IsClean(c) /\ ChainIsFrames(c)
  BY CleanupCleans DEF Assemble
<1>2. Assembled(c) = Assembled(m)
  <2>1. Cleanup(c) = c
    BY <1>1, CleanStays
  <2> QED BY <2>1 DEF Assembled
<1> PICK v : v = WithVP8X(c)
  OBVIOUS
<1>3. mux' = v.mux \/ (v.err = "OK" /\ mux' = WithoutVP8X(c))
  BY DEF Assemble, Return, Assembled, WithoutVP8X
<1>4. CASE c.images = <<>>
  <2>1. v.mux = c /\ v.err = "INVALID"
    BY <1>1, <1>4, WithVP8XIs
  <2> QED BY <1>2, <1>3, <2>1
<1>5. CASE c.images # <<>>
  <2>1. v.mux = WithoutVP8X(c) \/ v.mux = Set(WithoutVP8X(c), HeaderOf(c))
    BY <1>1, <1>5, WithVP8XIs
  <2>2. /\ ButFor8X(WithoutVP8X(c), c)
        /\ ButFor8X(Set(WithoutVP8X(c), HeaderOf(c)), c)
    BY <1>1, <1>5, WithVP8XIs DEF Without8X, With8X, ButFor8X
  <2>3. ButFor8X(mux', c)
    BY <1>3, <2>1, <2>2
  <2> PICK n : n = mux'
    OBVIOUS
  <2>4. Assembled(n) = Assembled(c)
    BY <1>1, <1>5, <2>3, AssembledSame
  <2> QED BY <1>2, <2>4
<1> QED BY <1>4, <1>5

\* Assembling again gives what the first call gave, or would have given if its
\* allocations had not failed.
THEOREM AssembleAgainHolds == Spec => AssembleAgain
<1>1. Inv /\ [Next]_vars => [Assemble => Assembled(mux') = Assembled(mux)]_vars
  BY AssembleIsStable DEF Inv
<1> QED BY <1>1, InvHolds, PTL DEF Spec, AssembleAgain
-----------------------------------------------------------------------------
(* A file, chunk by chunk.                                                 *)

\* A run of WebPMuxCreate() through the chunks L of a file, whose prefixes have
\* the sizes z.
Run(g, z, L) ==
  /\ L \in Seq(Chunks) /\ Sizes(z, L)
  /\ \A i \in 1..Len(L) : g[i] = ReadChunk(g[i - 1], Placed(L[i], RiffHeaderSize + z[i - 1]))
EndOf(z, L) == RiffHeaderSize + z[Len(L)]

\* The chunks s of the file, after the first k.
At(L, k, s) ==
  k \in Nat /\ k + Len(s) <= Len(L) /\ \A i \in 1..Len(s) : L[k + i] = s[i]

\* Two sequences of chunks, one after the other.
LEMMA AtJoined ==
  ASSUME NEW T, NEW L \in Seq(T), NEW s \in Seq(T), NEW t \in Seq(T),
         NEW k, At(L, k, s \o t)
  PROVE  At(L, k, s) /\ At(L, k + Len(s), t) /\ k + Len(s \o t) = (k + Len(s)) + Len(t)
<1> PICK u \in Seq(T) : u = s \o t
  BY Joined
<1> PICK a \in Nat, b \in Nat, n \in Nat : a = Len(s) /\ b = Len(t) /\ n = Len(L)
  OBVIOUS
<1>1. Len(u) = a + b
  OBVIOUS
<1>2. \A i \in 1..a : u[i] = s[i]
  OBVIOUS
<1>3. \A i \in 1..b : u[a + i] = t[i]
  OBVIOUS
<1>4. k \in Nat /\ k + (a + b) <= n /\ \A i \in 1..(a + b) : L[k + i] = u[i]
  BY <1>1 DEF At
<1>5. At(L, k, s)
  BY <1>2, <1>4 DEF At
<1>6. ASSUME NEW i \in 1..b PROVE L[(k + a) + i] = t[i]
  <2>1. a + i \in 1..(a + b) /\ k + (a + i) = (k + a) + i
    BY <1>4
  <2> QED BY <1>3, <1>4, <2>1
<1>7. At(L, k + a, t)
  BY <1>4, <1>6 DEF At
<1>8. At(L, k + Len(s), t)
  BY <1>7
<1>9. k + Len(u) = (k + Len(s)) + Len(t)
  BY <1>1, <1>4
<1>10. k + Len(s \o t) = (k + Len(s)) + Len(t)
  BY <1>9
<1> QED BY <1>5, <1>8, <1>10, Zenon

\* The chunks have sizes that are even and not zero.
LEMMA DiskSizeIsEven ==
  ASSUME NEW c \in Chunks
  PROVE  DiskSize(c) \in Nat /\ DiskSize(c) > 0 /\ DiskSize(c) % 2 = 0 /\ c.size \in Nat
<1>1. Plain(c) = c
  BY DEF Plain, Chunks
<1>2. c.size \in Nat /\ Padded(c.size) \in Nat
  BY <1>1, ChunkTypes
<1>3. /\ ChunkHeaderSize \in Nat /\ ChunkHeaderSize > 0 /\ ChunkHeaderSize % 2 = 0
      /\ AnmfSize \in Nat /\ AnmfSize % 2 = 0
  BY FormatAssumption
<1>4. Padded(c.size) % 2 = 0
  BY <1>2 DEF Padded
<1>5. \A a, b \in Nat : a % 2 = 0 /\ b % 2 = 0 => (a + b) % 2 = 0
  OBVIOUS
<1>6. CASE c.tag = "ANMF"
  <2>1. DiskSize(c) = ChunkHeaderSize + AnmfSize
    BY <1>6 DEF DiskSize
  <2>2. (ChunkHeaderSize + AnmfSize) % 2 = 0
    BY <1>3, <1>5
  <2> QED BY <1>2, <1>3, <2>1, <2>2
<1>7. CASE c.tag # "ANMF"
  <2>1. DiskSize(c) = ChunkHeaderSize + Padded(c.size)
    BY <1>7 DEF DiskSize
  <2>2. (ChunkHeaderSize + Padded(c.size)) % 2 = 0
    BY <1>2, <1>3, <1>4, <1>5
  <2> QED BY <1>2, <1>3, <2>1, <2>2
<1> QED BY <1>6, <1>7

\* So do their sums.
LEMMA SizesGrow ==
  ASSUME NEW L \in Seq(Chunks), NEW z, Sizes(z, L)
  PROVE  /\ \A i \in 0..Len(L) : z[i] \in Nat /\ z[i] % 2 = 0
         /\ \A i \in 1..Len(L) : z[i] > z[i - 1]
<1> PICK n \in Nat : n = Len(L)
  OBVIOUS
<1> DEFINE S == {k \in Nat : k <= n => z[k] \in Nat /\ z[k] % 2 = 0}
<1>0. ASSUME NEW i \in 1..n
      PROVE  /\ DiskSize(L[i]) \in Nat /\ DiskSize(L[i]) > 0 /\ DiskSize(L[i]) % 2 = 0
             /\ z[i] = z[i - 1] + DiskSize(L[i])
  <2>1. L[i] \in Chunks
    BY ElementOfSeq
  <2> QED BY <2>1, DiskSizeIsEven DEF Sizes
<1>1. 0 \in S
  BY DEF Sizes
<1>2. ASSUME NEW k \in Nat, k \in S PROVE k + 1 \in S
  <2> SUFFICES ASSUME k + 1 <= n PROVE z[k + 1] \in Nat /\ z[k + 1] % 2 = 0
    OBVIOUS
  <2>1. k + 1 \in 1..n /\ (k + 1) - 1 = k /\ z[k] \in Nat /\ z[k] % 2 = 0
    BY <1>2
  <2> PICK d \in Nat : d = DiskSize(L[k + 1])
    BY <1>0, <2>1
  <2>2. d % 2 = 0 /\ z[k + 1] = z[k] + d
    BY <1>0, <2>1
  <2> QED BY <2>1, <2>2
<1> HIDE DEF S
<1>3. \A k \in Nat : k \in S
  BY <1>1, <1>2, Induct
<1>4. \A i \in 0..n : z[i] \in Nat /\ z[i] % 2 = 0
  BY <1>3 DEF S
<1>5. ASSUME NEW i \in 1..n PROVE z[i] > z[i - 1]
  <2>1. i - 1 \in 0..n
    OBVIOUS
  <2>2. z[i - 1] \in Nat
    BY <1>4, <2>1
  <2>3. DiskSize(L[i]) \in Nat /\ DiskSize(L[i]) > 0 /\ z[i] = z[i - 1] + DiskSize(L[i])
    BY <1>0
  <2> QED BY <2>2, <2>3
<1> QED BY <1>4, <1>5

\* A longer prefix is larger.
LEMMA SizesInOrder ==
  ASSUME NEW L \in Seq(Chunks), NEW z, Sizes(z, L), NEW i \in 0..Len(L),
         NEW j \in 0..Len(L), i < j
  PROVE  z[i] < z[j]
<1> PICK n \in Nat : n = Len(L)
  OBVIOUS
<1> DEFINE S == {k \in Nat : i + 1 + k <= n => z[i] < z[i + 1 + k]}
<1>1. 0 \in S
  <2> SUFFICES ASSUME i + 1 + 0 <= n PROVE z[i] < z[i + 1 + 0]
    OBVIOUS
  <2>1. i + 1 \in 1..n /\ (i + 1) - 1 = i /\ i + 1 + 0 = i + 1 /\ i + 1 \in 0..n
    OBVIOUS
  <2>2. z[i + 1] > z[i] /\ z[i + 1] \in Nat /\ z[i] \in Nat
    BY <2>1, SizesGrow
  <2> QED BY <2>1, <2>2
<1>2. ASSUME NEW k \in Nat, k \in S PROVE k + 1 \in S
  <2> SUFFICES ASSUME i + 1 + (k + 1) <= n PROVE z[i] < z[i + 1 + (k + 1)]
    OBVIOUS
  <2>1. /\ i + 1 + (k + 1) \in 1..n /\ i + 1 + k \in 0..n
        /\ (i + 1 + (k + 1)) - 1 = i + 1 + k
    OBVIOUS
  <2>2. z[i + 1 + (k + 1)] > z[i + 1 + k] /\ z[i + 1 + k] \in Nat /\ z[i] \in Nat
        /\ z[i + 1 + (k + 1)] \in Nat
    BY <2>1, SizesGrow
  <2> QED BY <1>2, <2>1, <2>2
<1> HIDE DEF S
<1>3. \A k \in Nat : k \in S
  BY <1>1, <1>2, Induct
<1> PICK k \in Nat : i + 1 + k = j
  <2>1. j - (i + 1) \in Nat /\ i + 1 + (j - (i + 1)) = j
    OBVIOUS
  <2> QED BY <2>1
<1>4. k \in S
  BY <1>3
<1> QED BY <1>4 DEF S

\* The size of a part of the file.
LEMMA PartSize ==
  ASSUME NEW L \in Seq(Chunks), NEW z, Sizes(z, L), NEW s \in Seq(Chunks),
         NEW k, At(L, k, s)
  PROVE  z[k + Len(s)] = z[k] + TotalSize(s) /\ TotalSize(s) \in Nat /\ TotalSize(s) % 2 = 0
<1> PICK n \in Nat, a \in Nat : n = Len(L) /\ a = Len(s)
  OBVIOUS
<1>0. k \in Nat /\ k + a <= n /\ \A i \in 1..a : L[k + i] = s[i]
  BY DEF At
<1> PICK y \in [0..a -> Nat] : Sizes(y, s)
  BY SizesExist
<1>1. TotalSize(s) = y[a] /\ y[a] \in Nat
  BY TotalSizeIs
<1>2. y[a] % 2 = 0
  BY SizesGrow
<1>3. z[k] \in Nat
  BY <1>0, SizesGrow
<1> DEFINE S == {j \in Nat : j <= a => z[k + j] = z[k] + y[j]}
<1>4. 0 \in S
  BY <1>0, <1>3 DEF Sizes
<1>5. ASSUME NEW j \in Nat, j \in S PROVE j + 1 \in S
  <2> SUFFICES ASSUME j + 1 <= a PROVE z[k + (j + 1)] = z[k] + y[j + 1]
    OBVIOUS
  <2>1. /\ j + 1 \in 1..a /\ (j + 1) - 1 = j /\ k + (j + 1) \in 1..n
        /\ (k + (j + 1)) - 1 = k + j /\ z[k + j] = z[k] + y[j] /\ y[j] \in Nat
    BY <1>0, <1>5
  <2>2. L[k + (j + 1)] = s[j + 1]
    BY <1>0, <2>1
  <2>3. DiskSize(s[j + 1]) \in Nat
    BY <2>1, ChunkHasSize
  <2>4. z[k + (j + 1)] = z[k + j] + DiskSize(s[j + 1])
    BY <2>1, <2>2 DEF Sizes
  <2>5. y[j + 1] = y[j] + DiskSize(s[j + 1])
    BY <2>1 DEF Sizes
  <2> QED BY <1>3, <2>1, <2>3, <2>4, <2>5
<1> HIDE DEF S
<1>6. a \in S
  BY <1>4, <1>5, Induct
<1> QED BY <1>1, <1>2, <1>6 DEF S

\* The next chunk of a run: its place, and what is read.
LEMMA RunStep ==
  ASSUME NEW g, NEW z, NEW L, Run(g, z, L), NEW k \in Nat, k < Len(L), NEW c, c = L[k + 1]
  PROVE  \E at \in Nat :
           /\ at = RiffHeaderSize + z[k] /\ c \in Chunks
           /\ g[k + 1] = ReadChunk(g[k], Placed(c, at))
           /\ at + DiskSize(c) = RiffHeaderSize + z[k + 1]
           /\ at + DiskSize(c) <= EndOf(z, L) /\ EndOf(z, L) \in Nat
<1> PICK n \in Nat : n = Len(L)
  BY DEF Run
<1>1. L \in Seq(Chunks) /\ Sizes(z, L)
  BY DEF Run
<1>2. k + 1 \in 1..n /\ (k + 1) - 1 = k
  OBVIOUS
<1>3. z[k] \in Nat /\ z[k + 1] \in Nat /\ z[n] \in Nat
  BY <1>1, <1>2, SizesGrow
<1>4. RiffHeaderSize \in Nat
  BY FormatAssumption
<1>5. c \in Chunks /\ DiskSize(c) \in Nat
  BY <1>1, <1>2, ChunkHasSize
<1>6. z[k + 1] = z[k] + DiskSize(c)
  BY <1>1, <1>2 DEF Sizes
<1>7. z[k + 1] <= z[n]
  <2>1. k + 1 \in 0..n /\ n \in 0..n /\ (k + 1 = n \/ k + 1 < n)
    BY <1>2
  <2>2. k + 1 < n => z[k + 1] < z[n]
    BY <1>1, <2>1, SizesInOrder
  <2> QED BY <1>3, <2>1, <2>2
<1>8. g[k + 1] = ReadChunk(g[k], Placed(c, RiffHeaderSize + z[k]))
  BY <1>2 DEF Run
<1> PICK at \in Nat : at = RiffHeaderSize + z[k]
  BY <1>3, <1>4
<1>9. at + DiskSize(c) = RiffHeaderSize + z[k + 1]
  BY <1>3, <1>4, <1>5, <1>6
<1>10. EndOf(z, L) = RiffHeaderSize + z[n]
  BY DEF EndOf
<1>11. EndOf(z, L) \in Nat /\ at + DiskSize(c) <= EndOf(z, L)
  BY <1>3, <1>4, <1>7, <1>9, <1>10
<1> QED BY <1>5, <1>8, <1>9, <1>11
-----------------------------------------------------------------------------
(* Reading the lists back.                                                 *)

\* An object with s for the list l, and the canvas of the file.
Takes(o, m, l, s) ==
  /\ o \in Muxes /\ o.images = m.images /\ o.lists[l] = s
  /\ \A k \in Lists \ {l} : o.lists[k] = m.lists[k]
  /\ o.canvas = IF l = "VP8X" /\ s # <<>> THEN s[Len(s)].info.canvas ELSE m.canvas

\* Outside the frames a chunk is read by its tag.
LEMMA ReadBetween ==
  ASSUME NEW m, NEW w, NEW n \in Nat, NEW c \in Chunks, NEW at \in Nat,
         NEW s, s = Midway(m, w, 0, n), NEW p, p = Placed(c, at),
         c.tag # "ANMF", at + DiskSize(c) <= n
  PROVE  ReadChunk(s, p) = ReadOutside(s, p)
<1>1. p.tag = c.tag /\ p.size = c.size /\ p.at = at
  BY PlacedFields
<1>2. DiskSize(c) = ChunkHeaderSize + Padded(c.size)
  BY DEF DiskSize
<1>3. DiskSize(c) \in Nat /\ DiskSize(c) > 0
  BY DiskSizeIsEven
<1>4. ChunkHeaderSize \in Nat /\ Padded(c.size) \in Nat
  <2>1. Plain(c) = c
    BY DEF Plain, Chunks
  <2> QED BY <2>1, ChunkTypes, FormatAssumption
<1>5. p.at + ChunkHeaderSize + Padded(p.size) = at + DiskSize(c)
  BY <1>1, <1>2, <1>4
<1>6. s.size = n /\ s.inside = 0 /\ s.ok
  BY DEF Midway
<1>7. ~(p.at >= s.size) /\ ~(p.at + ChunkHeaderSize + Padded(p.size) > s.size)
  BY <1>1, <1>3, <1>5, <1>6
<1>8. ~(s.inside > 0)
  BY <1>6
<1> QED BY <1>6, <1>7, <1>8, Zenon DEF ReadChunk

\* A chunk with its place, without it.
LEMMA PlainPlaced ==
  ASSUME NEW c \in Chunks, NEW at, NEW p, p = Placed(c, at) PROVE Plain(p) = c
<1>1. p.tag = c.tag /\ p.size = c.size /\ p.info = c.info
  BY PlacedFields
<1>2. Plain(c) = c
  BY DEF Plain, Chunks
<1> QED BY <1>1, <1>2 DEF Plain

\* An object with another list and its canvas.
LEMMA CanvasTaken ==
  ASSUME NEW m \in Muxes, NEW l, NEW r, NEW d, ListIs(d, m, l, r), NEW w \in Nat,
         w = IF l = "VP8X" /\ r # <<>> THEN r[Len(r)].info.canvas ELSE m.canvas,
         NEW o, o = [d EXCEPT !.canvas = w]
  PROVE  Takes(o, m, l, r)
<1>1. o \in Muxes /\ o.canvas = w /\ o.lists = d.lists /\ o.images = d.images
  BY CanvasChanged DEF ListIs
<1> QED BY <1>1 DEF Takes, ListIs

\* One chunk of a list.
AddsTo(m, l, c, at, n) ==
  \E o : /\ Takes(o, m, l, Append(m.lists[l], c))
         /\ ReadChunk(Between(m, n), Placed(c, at)) = Between(o, n)

\* A chunk of a list is added to the list.
LEMMA ListStep ==
  ASSUME NEW m \in Muxes, NEW l \in Lists, NEW c \in ChunksOf(l), NEW at \in Nat,
         NEW n \in Nat, at + DiskSize(c) <= n
  PROVE  AddsTo(m, l, c, at, n)
<1> PICK p : p = Placed(c, at)
  OBVIOUS
<1> PICK s : s = Between(m, n)
  OBVIOUS
<1>1. c \in Chunks /\ c.tag \in TagsOf(l)
  BY DEF ChunksOf
<1>2. c.tag \in ListTags
  <2>1. CASE l = "unknown"
    BY <1>1, <2>1 DEF TagsOf, ListTags
  <2>2. CASE l # "unknown"
    BY <1>1, <2>2 DEF TagsOf, ListTags
  <2> QED BY <2>1, <2>2
<1>3. c.tag \notin ImageTags \cup {"ANMF", "ALPH"} /\ ListOf(c.tag) = l
  <2>1. /\ c.tag \notin ImageTags \cup {"ANMF", "ALPH"}
        /\ c.tag \in Lists => ListOf(c.tag) = c.tag
        /\ c.tag \in UnknownTags => ListOf(c.tag) = "unknown"
    BY <1>2, ListOfTag
  <2>2. CASE l = "unknown"
    BY <1>1, <2>1, <2>2 DEF TagsOf
  <2>3. CASE l # "unknown"
    BY <1>1, <2>1, <2>3 DEF TagsOf
  <2> QED BY <2>1, <2>2, <2>3
<1>4. ReadChunk(s, p) = ReadOutside(s, p)
  BY <1>1, <1>3, ReadBetween DEF Between
<1>5. p.tag = c.tag /\ p.info = c.info /\ Plain(p) = c
  BY <1>1, PlacedFields, PlainPlaced
<1>6. ~s.wpi.partial /\ s.mux = m
  BY DEF Between, Midway, NoImage
<1>7. ReadOutside(s, p) = ListRead(s, p)
  <2>1. p.tag \in Lists \cup UnknownTags
    BY <1>2, <1>5 DEF ListTags
  <2> QED BY <1>3, <1>5, <1>6, <2>1 DEF ReadOutside, ListRead
<1> PICK q \in Seq(ChunksOf(l)) : q = m.lists[l]
  BY DEF Muxes, ListsOfChunks
<1> PICK r : r = Append(q, c)
  OBVIOUS
<1>8. r \in Seq(ChunksOf(l)) /\ r # <<>> /\ r[Len(r)] = c
  OBVIOUS
<1> PICK d : d = [m EXCEPT !.lists[l] = r]
  OBVIOUS
<1>9. ListIs(d, m, l, r)
  BY <1>8, ListChanged
<1>10. d \in Muxes /\ d.canvas = m.canvas
  BY <1>9 DEF ListIs
<1> PICK w \in Nat : w = IF c.tag = "VP8X" THEN c.info.canvas ELSE m.canvas
  <2>1. m.canvas \in Nat
    BY DEF Muxes
  <2>2. Plain(c) = c
    BY <1>1 DEF Plain, Chunks
  <2> QED BY <1>1, <2>1, <2>2, PlainTypes
<1>0. PICK o : o = [d EXCEPT !.canvas = w]
  OBVIOUS
<1>12. Becomes(ListRead(s, p), s, o)
  BY <1>0, <1>3, <1>5, <1>6, <1>10 DEF Becomes, ListRead
<1>13. ListRead(s, p) = Between(o, n)
  BY <1>12 DEF Becomes, Between, Midway
<1>14. c.tag = "VP8X" <=> l = "VP8X"
  <2>1. "VP8X" \notin UnknownTags
    BY FormatAssumption DEF KnownTags
  <2> QED BY <1>1, <2>1 DEF TagsOf
<1>15. Takes(o, m, l, r)
  <2>1. w = IF l = "VP8X" /\ r # <<>> THEN r[Len(r)].info.canvas ELSE m.canvas
    BY <1>8, <1>14
  <2> QED BY <1>0, <1>9, <2>1, CanvasTaken, Zenon
<1> QED BY <1>4, <1>7, <1>13, <1>15 DEF AddsTo

\* All the chunks of a list, which was empty.
LEMMA ListIsTaken ==
  ASSUME NEW g, NEW z, NEW L, Run(g, z, L), NEW n, n = EndOf(z, L),
         NEW m \in Muxes, NEW l \in Lists, m.lists[l] = <<>>,
         NEW s \in Seq(ChunksOf(l)), NEW k, At(L, k, s), g[k] = Between(m, n)
  PROVE  \E o : Takes(o, m, l, s) /\ g[k + Len(s)] = Between(o, n)
<1> PICK a \in Nat : a = Len(s)
  OBVIOUS
<1>0. PICK b \in Nat : b = Len(L)
  BY DEF Run
<1>1. k \in Nat /\ k + a <= b /\ \A i \in 1..a : L[k + i] = s[i]
  BY <1>0 DEF At
<1> DEFINE S == {j \in Nat : j <= a =>
                   \E o : Takes(o, m, l, SubSeq(s, 1, j)) /\ g[k + j] = Between(o, n)}
<1>2. 0 \in S
  <2>1. SubSeq(s, 1, 0) = <<>>
    OBVIOUS
  <2>2. Takes(m, m, l, <<>>)
    BY DEF Takes
  <2>3. k + 0 = k
    BY <1>1
  <2> QED BY <2>1, <2>2, <2>3
<1>3. ASSUME NEW j \in Nat, j \in S PROVE j + 1 \in S
  <2> SUFFICES ASSUME j + 1 <= a
               PROVE  \E o : /\ Takes(o, m, l, SubSeq(s, 1, j + 1))
                             /\ g[k + (j + 1)] = Between(o, n)
    OBVIOUS
  <2>1. PICK o : Takes(o, m, l, SubSeq(s, 1, j)) /\ g[k + j] = Between(o, n)
    BY <1>3
  <2> PICK c \in ChunksOf(l) : c = s[j + 1]
    BY ElementOfSeq
  <2>2. k + j \in Nat /\ k + j < b /\ (k + j) + 1 = k + (j + 1) /\ c = L[(k + j) + 1]
    BY <1>1
  <2>3. PICK at \in Nat :
          /\ g[(k + j) + 1] = ReadChunk(g[k + j], Placed(c, at))
          /\ at + DiskSize(c) <= n /\ n \in Nat
    BY <1>0, <2>2, RunStep
  <2>4. o \in Muxes /\ o.lists[l] = SubSeq(s, 1, j)
    BY <2>1 DEF Takes
  <2>5. PICK q : /\ Takes(q, o, l, Append(o.lists[l], c))
                 /\ ReadChunk(Between(o, n), Placed(c, at)) = Between(q, n)
    <3>1. AddsTo(o, l, c, at, n)
      BY <2>3, <2>4, ListStep
    <3> QED BY <3>1, Zenon DEF AddsTo
  <2>6. Append(SubSeq(s, 1, j), c) = SubSeq(s, 1, j + 1)
    OBVIOUS
  <2> PICK r : r = SubSeq(s, 1, j + 1)
    OBVIOUS
  <2>7. r # <<>>
    OBVIOUS
  <2>8. Takes(q, m, l, r)
    BY <2>1, <2>4, <2>5, <2>6, <2>7 DEF Takes
  <2> QED BY <2>1, <2>2, <2>3, <2>5, <2>8
<1> HIDE DEF S
<1>4. a \in S
  BY <1>2, <1>3, Induct
<1>5. SubSeq(s, 1, a) = s
  OBVIOUS
<1>6. \E o : Takes(o, m, l, SubSeq(s, 1, a)) /\ g[k + a] = Between(o, n)
  BY <1>4 DEF S
<1> QED BY <1>5, <1>6, Zenon
-----------------------------------------------------------------------------
(* Reading the images back.                                                *)

\* An image being read: its ANMF, whether there was an ALPH, its bitstream, the
\* unknown chunks, and whether the bitstream is still to come.
Wpi(h, a, b, u, p) == [anmf |-> h, alph |-> a, image |-> b, unknown |-> u, partial |-> p]
Truth(yes, no) == yes = TRUE /\ no = FALSE

\* An object with the images q.
ImagesAre(o, m, q) ==
  o \in Muxes /\ o.lists = m.lists /\ o.canvas = m.canvas /\ o.images = q

\* The bitstream of an image, its ALPH and its ANMF give it back.
LEMMA ImageIsBack ==
  ASSUME NEW i \in Images, NEW b, b.tag = BitsOf(i).tag, b.info = BitsOf(i).info, NEW p
  PROVE  ImageOf(Wpi(i.anmf, i.alph, <<b>>, i.unknown, p)) = i
<1>1. i \in ImageFields /\ (i.hasAlpha <=> i.inAlpha \/ i.alph) /\ (i.alph => ~i.lossless)
  BY DEF Images
<1>2. b.info.width = i.width /\ b.info.alpha = i.inAlpha
  BY DEF BitsOf, ChunkOf
<1>3. i.lossless \in BOOLEAN /\ i.alph \in BOOLEAN /\ i.hasAlpha \in BOOLEAN
      /\ i.inAlpha \in BOOLEAN
  BY <1>1 DEF ImageFields
<1>4. (b.tag = "VP8L") = i.lossless
  <2>1. b.tag = IF i.lossless THEN "VP8L" ELSE "VP8"
    BY DEF BitsOf, ChunkOf
  <2>2. b.tag = "VP8L" <=> i.lossless
    BY <2>1
  <2> QED BY <1>3, <2>2, Zenon
<1>5. (i.alph /\ ~i.lossless) = i.alph
  BY <1>1, <1>3, Zenon
<1>6. (i.inAlpha \/ i.alph) = i.hasAlpha
  BY <1>1, <1>3, Zenon
<1> PICK w : w = Wpi(i.anmf, i.alph, <<b>>, i.unknown, p)
  OBVIOUS
<1>7. /\ w.image[1] = b /\ w.alph = i.alph /\ w.anmf = i.anmf /\ w.unknown = i.unknown
  BY DEF Wpi
<1> PICK d : d = [width |-> i.width, inAlpha |-> i.inAlpha, lossless |-> i.lossless,
                  alph |-> i.alph]
  OBVIOUS
<1>8. ImageOf(w) = [Finalized(d, i.anmf) EXCEPT !.unknown = i.unknown]
  BY <1>2, <1>4, <1>7, Zenon DEF ImageOf
<1>9. Finalized(d, i.anmf) =
        [anmf |-> i.anmf, alph |-> i.alph, lossless |-> i.lossless, width |-> i.width,
         inAlpha |-> i.inAlpha, hasAlpha |-> i.hasAlpha, unknown |-> <<>>]
  <2>1. /\ d.alph = i.alph /\ d.lossless = i.lossless /\ d.width = i.width
        /\ d.inAlpha = i.inAlpha
    OBVIOUS
  <2>2. (d.alph /\ ~d.lossless) = i.alph /\ (d.inAlpha \/ (d.alph /\ ~d.lossless)) = i.hasAlpha
    BY <1>5, <1>6, <2>1, Zenon
  <2> QED BY <2>1, <2>2, Zenon DEF Finalized
<1>10. ImageOf(w) =
        [anmf |-> i.anmf, alph |-> i.alph, lossless |-> i.lossless, width |-> i.width,
         inAlpha |-> i.inAlpha, hasAlpha |-> i.hasAlpha, unknown |-> i.unknown]
  BY <1>8, <1>9
<1> QED BY <1>1, <1>10 DEF ImageFields

\* The image is added to the object.
Adds(m, i, n, t) == \E o : ImagesAre(o, m, Append(m.images, i)) /\ t = Between(o, n)

\* What MuxImagePush() adds.
LEMMA PushedIs ==
  ASSUME NEW m \in Muxes, NEW w, NEW i \in Images, ImageOf(w) = i, NEW e, NEW n
  PROVE  Adds(m, i, n, Pushed(Midway(m, w, e, n)))
<1> PICK q : q = Append(m.images, i)
  OBVIOUS
<1>1. q \in Seq(Images)
  BY DEF Muxes
<1> PICK o : o = [m EXCEPT !.images = q]
  OBVIOUS
<1>2. ImagesAre(o, m, q)
  BY <1>1 DEF ImagesAre, Muxes
<1> PICK s : s = Midway(m, w, e, n)
  OBVIOUS
<1>3. s.mux = m /\ s.wpi = w
  BY DEF Midway
<1>4. Pushed(s) = [s EXCEPT !.mux = o, !.wpi = NoImage, !.inside = 0]
  BY <1>3 DEF Pushed
<1>5. Pushed(s) = Between(o, n)
  BY <1>4 DEF Between, Midway
<1> QED BY <1>2, <1>5 DEF Adds

\* Inside an ANMF: the state that a chunk leads to, if it is not the last one.
LEMMA ReadWithin ==
  ASSUME NEW m, NEW w, NEW n \in Nat, NEW e \in Nat, e > 0, e <= n, NEW c \in Chunks,
         NEW at \in Nat, NEW s, s = Midway(m, w, e, n), NEW p, p = Placed(c, at),
         c.tag # "ANMF", at + DiskSize(c) <= e
  PROVE  ReadChunk(s, p) = ReadInside(s, p) /\ p.at + DiskSize(p) = at + DiskSize(c)
<1>1. p.tag = c.tag /\ p.size = c.size /\ p.at = at
  BY PlacedFields
<1>2. DiskSize(c) = ChunkHeaderSize + Padded(c.size) /\ DiskSize(p) = DiskSize(c)
  BY <1>1 DEF DiskSize
<1>3. DiskSize(c) \in Nat /\ DiskSize(c) > 0
  BY DiskSizeIsEven
<1>4. ChunkHeaderSize \in Nat /\ Padded(c.size) \in Nat
  <2>1. Plain(c) = c
    BY DEF Plain, Chunks
  <2> QED BY <2>1, ChunkTypes, FormatAssumption
<1>5. p.at + ChunkHeaderSize + Padded(p.size) = at + DiskSize(c)
  BY <1>1, <1>2, <1>4
<1>6. s.size = n /\ s.inside = e /\ s.ok
  BY DEF Midway
<1>7. ~(p.at >= s.size) /\ ~(p.at + ChunkHeaderSize + Padded(p.size) > s.inside)
  BY <1>1, <1>3, <1>5, <1>6
<1>8. s.inside > 0
  BY <1>6
<1>9. ReadChunk(s, p) = ReadInside(s, p)
  BY <1>6, <1>7, <1>8, Zenon DEF ReadChunk
<1> QED BY <1>1, <1>2, <1>9

\* What a chunk does, by its tag.
LEMMA InsideByTag ==
  ASSUME NEW s, NEW c,
         NEW t, t = CASE c.tag = "ALPH" /\ ~s.wpi.alph -> AlphRead(s)
                      [] c.tag \in ImageTags /\ s.wpi.image = <<>> -> FrameRead(s, c)
                      [] c.tag \in UnknownTags /\ ~s.wpi.partial -> UnknownRead(s, c)
                      [] OTHER -> Failed(s)
  PROVE  ReadInside(s, c) = IF t.ok /\ c.at + DiskSize(c) = s.inside
                            THEN IF t.wpi.partial THEN Failed(t) ELSE Pushed(t) ELSE t
BY DEF ReadInside, AlphRead, FrameRead, UnknownRead

\* What is read outside the frames, by the tag.
LEMMA OutsideByTag ==
  ASSUME NEW s, NEW c
  PROVE  ReadOutside(s, c) = CASE c.tag = "ALPH" /\ ~s.wpi.alph -> AlphRead(s)
           [] c.tag \in ImageTags -> Pushed(ImageRead(s, c))
           [] c.tag = "ANMF" /\ ~s.wpi.partial /\ c.size > AnmfSize -> AnmfRead(s, c)
           [] c.tag \in Lists \cup UnknownTags /\ ~s.wpi.partial -> ListRead(s, c)
           [] OTHER -> Failed(s)
BY DEF ReadOutside, AlphRead, ImageRead, AnmfRead, ListRead

\* Another image in the same loop.
LEMMA MidwayReads ==
  ASSUME NEW m, NEW w, NEW e, NEW n, NEW v, NEW s, s = Midway(m, w, e, n),
         NEW t, Reads(t, s, v)
  PROVE  t = Midway(m, v, e, n)
BY DEF Midway, Reads

\* The fields of an image, one or two changed.
WithAlph(w, x, y) == [w EXCEPT !.alph = x, !.partial = y]
WithBits(w, x, y) == [w EXCEPT !.image = x, !.partial = y]
WithUnknown(w, x) == [w EXCEPT !.unknown = x]
WithAnmf(w, x, y) == [w EXCEPT !.anmf = x, !.partial = y]

WithPartial(w, y) == [w EXCEPT !.partial = y]

\* Each change, on an image given by its fields.
LEMMA WpiPartial ==
  ASSUME NEW h, NEW a, NEW b, NEW u, NEW p, NEW y
  PROVE  WithPartial(Wpi(h, a, b, u, p), y) = Wpi(h, a, b, u, y)
BY DEF Wpi, WithPartial

\* An ALPH is there.
LEMMA WpiAlph ==
  ASSUME NEW h, NEW a, NEW b, NEW u, NEW p, NEW x, NEW y
  PROVE  WithAlph(Wpi(h, a, b, u, p), x, y) = Wpi(h, x, b, u, y)
<1> PICK w : w = Wpi(h, a, b, u, p)
  OBVIOUS
<1> PICK v : v = [w EXCEPT !.alph = x]
  OBVIOUS
<1>1. v = Wpi(h, x, b, u, p)
  BY DEF Wpi
<1>2. WithPartial(v, y) = Wpi(h, x, b, u, y)
  BY <1>1, WpiPartial
<1>3. WithAlph(w, x, y) = WithPartial(v, y)
  BY Zenon DEF WithAlph, WithPartial
<1> QED BY <1>2, <1>3

\* A bitstream is there.
LEMMA WpiImage ==
  ASSUME NEW h, NEW a, NEW b, NEW u, NEW p, NEW x, NEW y
  PROVE  WithBits(Wpi(h, a, b, u, p), x, y) = Wpi(h, a, x, u, y)
<1> PICK w : w = Wpi(h, a, b, u, p)
  OBVIOUS
<1> PICK v : v = [w EXCEPT !.image = x]
  OBVIOUS
<1>1. v = Wpi(h, a, x, u, p)
  BY DEF Wpi
<1>2. WithPartial(v, y) = Wpi(h, a, x, u, y)
  BY <1>1, WpiPartial
<1>3. WithBits(w, x, y) = WithPartial(v, y)
  BY Zenon DEF WithBits, WithPartial
<1> QED BY <1>2, <1>3

\* Other chunks are there.
LEMMA WpiUnknown ==
  ASSUME NEW h, NEW a, NEW b, NEW u, NEW p, NEW x
  PROVE  WithUnknown(Wpi(h, a, b, u, p), x) = Wpi(h, a, b, x, p)
BY DEF Wpi, WithUnknown

\* A header is there.
LEMMA WpiAnmf ==
  ASSUME NEW h, NEW a, NEW b, NEW u, NEW p, NEW x, NEW y
  PROVE  WithAnmf(Wpi(h, a, b, u, p), x, y) = Wpi(x, a, b, u, y)
<1> PICK w : w = Wpi(h, a, b, u, p)
  OBVIOUS
<1> PICK v : v = [w EXCEPT !.anmf = x]
  OBVIOUS
<1>1. v = Wpi(x, a, b, u, p)
  BY DEF Wpi
<1>2. WithPartial(v, y) = Wpi(x, a, b, u, y)
  BY <1>1, WpiPartial
<1>3. WithAnmf(w, x, y) = WithPartial(v, y)
  BY Zenon DEF WithAnmf, WithPartial
<1> QED BY <1>2, <1>3

WithInside(s, e) == [s EXCEPT !.inside = e]

\* Only the end of the ANMF changes.
LEMMA MidwayInside ==
  ASSUME NEW m, NEW w, NEW n, NEW d, NEW e
  PROVE  WithInside(Midway(m, w, d, n), e) = Midway(m, w, e, n)
<1> PICK s : s = Midway(m, w, d, n)
  OBVIOUS
<1> PICK t : t = [s EXCEPT !.inside = e]
  OBVIOUS
<1>1. t = Midway(m, w, e, n)
  BY DEF Midway
<1> QED BY <1>1, Zenon DEF WithInside

Opened(s, v, e) == [s EXCEPT !.wpi = v, !.inside = e]

\* An ANMF is entered.
LEMMA MidwayOpened ==
  ASSUME NEW m, NEW w, NEW n, NEW e, NEW v
  PROVE  Opened(Midway(m, w, 0, n), v, e) = Midway(m, v, e, n)
<1> PICK s : s = Midway(m, w, 0, n)
  OBVIOUS
<1> PICK t : t = [s EXCEPT !.wpi = v]
  OBVIOUS
<1>1. t = Midway(m, v, 0, n)
  BY DEF Midway
<1>2. WithInside(t, e) = Midway(m, v, e, n)
  BY <1>1, MidwayInside
<1>3. Opened(s, v, e) = WithInside(t, e)
  BY Zenon DEF Opened, WithInside
<1> QED BY <1>2, <1>3

\* No image, by its fields.
LEMMA NoImageFields ==
  ASSUME NEW yes, NEW no, Truth(yes, no) PROVE NoImage = Wpi(<<>>, no, <<>>, <<>>, no)
BY DEF NoImage, Wpi, Truth

\* The fields of the loop.
LEMMA MidwayFields ==
  ASSUME NEW m, NEW w, NEW e, NEW n, NEW s, s = Midway(m, w, e, n)
  PROVE  s.mux = m /\ s.wpi = w /\ s.inside = e /\ s.size = n /\ s.ok
BY DEF Midway

\* The fields of the image.
LEMMA WpiFields ==
  ASSUME NEW h, NEW a, NEW b, NEW u, NEW p, NEW w, w = Wpi(h, a, b, u, p)
  PROVE  w.anmf = h /\ w.alph = a /\ w.image = b /\ w.unknown = u /\ w.partial = p
BY DEF Wpi

\* The image after an ALPH, a bitstream and an unknown chunk.
LEMMA AlphReadIs ==
  ASSUME NEW yes, NEW no, Truth(yes, no), NEW m, NEW h, NEW e, NEW n, NEW p, NEW s,
         s = Midway(m, Wpi(h, no, <<>>, <<>>, p), e, n)
  PROVE  AlphRead(s) = Midway(m, Wpi(h, yes, <<>>, <<>>, yes), e, n)
<1> PICK w : w = Wpi(h, no, <<>>, <<>>, p)
  OBVIOUS
<1>1. s.wpi = w
  BY MidwayFields
<1> PICK v : v = WithAlph(w, yes, yes)
  OBVIOUS
<1>2. v = Wpi(h, yes, <<>>, <<>>, yes)
  BY WpiAlph
<1>3. yes = TRUE
  BY DEF Truth
<1>4. Reads(AlphRead(s), s, v)
  BY <1>1, <1>3 DEF Reads, AlphRead, WithAlph
<1>5. AlphRead(s) = Midway(m, v, e, n)
  BY <1>1, <1>4, MidwayReads
<1> QED BY <1>2, <1>5

\* A bitstream inside an ANMF, in the loop.
LEMMA FrameReadIs ==
  ASSUME NEW yes, NEW no, Truth(yes, no), NEW m, NEW h, NEW a, NEW e, NEW n, NEW c, NEW s,
         s = Midway(m, Wpi(h, a, <<>>, <<>>, yes), e, n)
  PROVE  FrameRead(s, c) = Midway(m, Wpi(h, a, <<c>>, <<>>, no), e, n)
<1> PICK w : w = Wpi(h, a, <<>>, <<>>, yes)
  OBVIOUS
<1>1. s.wpi = w
  BY MidwayFields
<1> PICK v : v = WithBits(w, <<c>>, no)
  OBVIOUS
<1>2. v = Wpi(h, a, <<c>>, <<>>, no)
  BY WpiImage
<1>3. no = FALSE
  BY DEF Truth
<1>4. Reads(FrameRead(s, c), s, v)
  BY <1>1, <1>3 DEF Reads, FrameRead, WithBits
<1>5. FrameRead(s, c) = Midway(m, v, e, n)
  BY <1>1, <1>4, MidwayReads
<1> QED BY <1>2, <1>5

\* A bitstream outside, in the loop.
LEMMA ImageReadIs ==
  ASSUME NEW m, NEW h, NEW a, NEW p, NEW e, NEW n, NEW c, NEW s,
         s = Midway(m, Wpi(h, a, <<>>, <<>>, p), e, n)
  PROVE  ImageRead(s, c) = Midway(m, Wpi(h, a, <<c>>, <<>>, p), e, n)
<1>1. s.wpi = Wpi(h, a, <<>>, <<>>, p)
  BY DEF Midway
<1> PICK v : v = [s.wpi EXCEPT !.image = <<c>>]
  OBVIOUS
<1>2. v = Wpi(h, a, <<c>>, <<>>, p)
  BY <1>1 DEF Wpi
<1>3. Reads(ImageRead(s, c), s, v)
  BY DEF Reads, ImageRead
<1>4. ImageRead(s, c) = Midway(m, v, e, n)
  BY <1>3, MidwayReads
<1> QED BY <1>2, <1>4

WithChunk(u, c) == Append(u, Plain(c))

\* An unknown chunk of a frame, in the loop.
LEMMA UnknownReadIs ==
  ASSUME NEW m, NEW h, NEW a, NEW b, NEW u, NEW p, NEW e, NEW n, NEW c, NEW s,
         s = Midway(m, Wpi(h, a, b, u, p), e, n)
  PROVE  UnknownRead(s, c) = Midway(m, Wpi(h, a, b, WithChunk(u, c), p), e, n)
<1> PICK w : w = Wpi(h, a, b, u, p)
  OBVIOUS
<1>1. s.wpi = w
  BY MidwayFields
<1>2. w.unknown = u
  BY WpiFields
<1> PICK v : v = WithUnknown(w, WithChunk(u, c))
  OBVIOUS
<1>3. v = Wpi(h, a, b, WithChunk(u, c), p)
  BY WpiUnknown
<1>4. Reads(UnknownRead(s, c), s, v)
  BY <1>1, <1>2 DEF Reads, UnknownRead, WithChunk, WithUnknown
<1>5. UnknownRead(s, c) = Midway(m, v, e, n)
  BY <1>1, <1>4, MidwayReads
<1> QED BY <1>3, <1>5

\* An ANMF, in the loop.
LEMMA AnmfReadIs ==
  ASSUME NEW yes, NEW no, Truth(yes, no), NEW m, NEW n, NEW c, NEW s, s = Between(m, n),
         NEW e, e = c.at + ChunkHeaderSize + c.size
  PROVE  AnmfRead(s, c) = Midway(m, Wpi(<<c.info>>, no, <<>>, <<>>, yes), e, n)
<1> PICK t : t = AnmfRead(s, c)
  OBVIOUS
<1> PICK w : w = Wpi(<<>>, no, <<>>, <<>>, no)
  OBVIOUS
<1>1. s = Midway(m, w, 0, n)
  BY NoImageFields DEF Between
<1>2. s.wpi = w
  BY <1>1, MidwayFields
<1> PICK v : v = WithAnmf(w, <<c.info>>, yes)
  OBVIOUS
<1>3. v = Wpi(<<c.info>>, no, <<>>, <<>>, yes)
  BY WpiAnmf
<1>4. yes = TRUE
  BY DEF Truth
<1>5. t = Opened(s, v, e)
  BY <1>2, <1>4 DEF AnmfRead, WithAnmf, Opened
<1>6. t = Midway(m, v, e, n)
  BY <1>1, <1>5, MidwayOpened
<1> QED BY <1>3, <1>6

\* The end of one chunk inside an ANMF: the image is complete with the last.
Within(m, w, e, n, end) ==
  IF end = e THEN Pushed(Midway(m, w, e, n)) ELSE Midway(m, w, e, n)

\* An ALPH, a bitstream and an unknown chunk inside an ANMF.
LEMMA AlphWithin ==
  ASSUME NEW yes, NEW no, Truth(yes, no), NEW m, NEW h, NEW n \in Nat,
         NEW e \in Nat, e > 0, e <= n, NEW c \in Chunks,
         NEW at \in Nat, c.tag = "ALPH", at + DiskSize(c) < e
  PROVE  ReadChunk(Midway(m, Wpi(h, no, <<>>, <<>>, yes), e, n), Placed(c, at)) =
           Midway(m, Wpi(h, yes, <<>>, <<>>, yes), e, n)
<1>w. PICK w : w = Wpi(h, no, <<>>, <<>>, yes)
  OBVIOUS
<1>0. PICK s : s = Midway(m, w, e, n)
  OBVIOUS
<1> PICK t : t = Midway(m, Wpi(h, yes, <<>>, <<>>, yes), e, n)
  OBVIOUS
<1> PICK p : p = Placed(c, at)
  OBVIOUS
<1>1. DiskSize(c) \in Nat
  BY DiskSizeIsEven
<1>2. at + DiskSize(c) <= e /\ at + DiskSize(c) # e /\ c.tag # "ANMF"
  BY <1>1
<1>3. ReadChunk(s, p) = ReadInside(s, p) /\ p.at + DiskSize(p) = at + DiskSize(c)
  BY <1>0, <1>2, ReadWithin
<1>4. p.tag = "ALPH" /\ ~s.wpi.alph /\ s.inside = e
  <2>1. p.tag = "ALPH"
    BY PlacedFields
  <2>2. s.wpi = w /\ s.inside = e
    BY <1>0, MidwayFields
  <2>3. w.alph = no
    BY <1>w, WpiFields
  <2>4. no = FALSE
    BY DEF Truth
  <2> QED BY <2>1, <2>2, <2>3, <2>4
<1>5. AlphRead(s) = t
  BY <1>w, <1>0, AlphReadIs
<1>6. ReadInside(s, p) = t
  <2>1. t = CASE p.tag = "ALPH" /\ ~s.wpi.alph -> AlphRead(s)
              [] p.tag \in ImageTags /\ s.wpi.image = <<>> -> FrameRead(s, p)
              [] p.tag \in UnknownTags /\ ~s.wpi.partial -> UnknownRead(s, p)
              [] OTHER -> Failed(s)
    <3>1. p.tag \notin ImageTags /\ p.tag \notin UnknownTags
      BY <1>4, FormatAssumption DEF ImageTags, KnownTags
    <3> QED BY <1>4, <1>5, <3>1
  <2> QED BY <1>2, <1>3, <1>4, <2>1, InsideByTag
<1> QED BY <1>w, <1>0, <1>3, <1>6

\* A bitstream in a frame.
LEMMA BitsWithin ==
  ASSUME NEW yes, NEW no, Truth(yes, no), NEW m, NEW h, NEW a, NEW n \in Nat,
         NEW e \in Nat, e > 0, e <= n,
         NEW c \in Chunks, NEW at \in Nat, c.tag \in ImageTags, at + DiskSize(c) <= e
  PROVE  ReadChunk(Midway(m, Wpi(h, a, <<>>, <<>>, yes), e, n), Placed(c, at)) =
           Within(m, Wpi(h, a, <<Placed(c, at)>>, <<>>, no), e, n, at + DiskSize(c))
<1>w. PICK x : x = Wpi(h, a, <<>>, <<>>, yes)
  OBVIOUS
<1>0. PICK s : s = Midway(m, x, e, n)
  OBVIOUS
<1> PICK p : p = Placed(c, at)
  OBVIOUS
<1> PICK w : w = Wpi(h, a, <<p>>, <<>>, no)
  OBVIOUS
<1> PICK t : t = Midway(m, w, e, n)
  OBVIOUS
<1>1. c.tag # "ANMF" /\ c.tag # "ALPH"
  BY DEF ImageTags
<1>2. ReadChunk(s, p) = ReadInside(s, p) /\ p.at + DiskSize(p) = at + DiskSize(c)
  BY <1>0, <1>1, ReadWithin
<1>3. p.tag = c.tag /\ s.wpi.image = <<>> /\ s.inside = e
  <2>1. p.tag = c.tag
    BY PlacedFields
  <2>2. s.wpi = x /\ s.inside = e
    BY <1>0, MidwayFields
  <2>3. x.image = <<>>
    BY <1>w, WpiFields
  <2> QED BY <2>1, <2>2, <2>3
<1>4. FrameRead(s, p) = t
  BY <1>w, <1>0, FrameReadIs
<1>5. t.ok /\ ~t.wpi.partial
  <2>1. t.ok /\ t.wpi = w
    BY MidwayFields
  <2>2. w.partial = no /\ no = FALSE
    BY WpiFields DEF Truth
  <2> QED BY <2>1, <2>2
<1>6. ReadInside(s, p) = IF p.at + DiskSize(p) = e THEN Pushed(t) ELSE t
  <2>1. t = CASE p.tag = "ALPH" /\ ~s.wpi.alph -> AlphRead(s)
              [] p.tag \in ImageTags /\ s.wpi.image = <<>> -> FrameRead(s, p)
              [] p.tag \in UnknownTags /\ ~s.wpi.partial -> UnknownRead(s, p)
              [] OTHER -> Failed(s)
    <3>1. p.tag \in ImageTags /\ p.tag # "ALPH" /\ p.tag \notin UnknownTags
      BY <1>1, <1>3, FormatAssumption DEF KnownTags
    <3> QED BY <1>3, <1>4, <3>1
  <2> QED BY <1>3, <1>5, <2>1, InsideByTag
<1>7. Within(m, w, e, n, at + DiskSize(c)) = IF at + DiskSize(c) = e THEN Pushed(t) ELSE t
  BY DEF Within
<1> QED BY <1>w, <1>0, <1>2, <1>6, <1>7

\* An unknown chunk in a frame.
LEMMA UnknownWithin ==
  ASSUME NEW yes, NEW no, Truth(yes, no), NEW m, NEW h, NEW a, NEW b, NEW u, NEW v,
         NEW n \in Nat, NEW e \in Nat, e > 0,
         e <= n, NEW c \in ChunksOf("unknown"), NEW at \in Nat, at + DiskSize(c) <= e,
         v = WithChunk(u, c)
  PROVE  ReadChunk(Midway(m, Wpi(h, a, b, u, no), e, n), Placed(c, at)) =
           Within(m, Wpi(h, a, b, v, no), e, n, at + DiskSize(c))
<1>w. PICK x : x = Wpi(h, a, b, u, no)
  OBVIOUS
<1>0. PICK s : s = Midway(m, x, e, n)
  OBVIOUS
<1> PICK p : p = Placed(c, at)
  OBVIOUS
<1> PICK w : w = Wpi(h, a, b, v, no)
  OBVIOUS
<1> PICK t : t = Midway(m, w, e, n)
  OBVIOUS
<1>1. c \in Chunks /\ c.tag \in UnknownTags /\ c.tag \notin ImageTags \cup {"ANMF", "ALPH"}
  <2>1. c \in Chunks /\ c.tag \in UnknownTags
    BY DEF ChunksOf, TagsOf
  <2>2. c.tag \in ListTags
    BY <2>1 DEF ListTags
  <2> QED BY <2>1, <2>2, ListOfTag
<1>2. ReadChunk(s, p) = ReadInside(s, p) /\ p.at + DiskSize(p) = at + DiskSize(c)
  <2>1. c.tag # "ANMF" /\ c \in Chunks
    BY <1>1
  <2> QED BY <1>0, <2>1, ReadWithin
<1>3. p.tag = c.tag /\ ~s.wpi.partial /\ s.inside = e /\ Plain(p) = c
  <2>1. p.tag = c.tag /\ Plain(p) = c
    BY <1>1, PlacedFields, PlainPlaced
  <2>2. s.wpi = x /\ s.inside = e
    BY <1>0, MidwayFields
  <2>3. x.partial = no /\ no = FALSE
    BY <1>w, WpiFields DEF Truth
  <2> QED BY <2>1, <2>2, <2>3
<1>4. UnknownRead(s, p) = t
  <2>1. v = WithChunk(u, p)
    <3>1. Plain(c) = c
      BY DEF Plain, Chunks, ChunksOf
    <3> QED BY <1>3, <3>1 DEF WithChunk
  <2>2. s = Midway(m, Wpi(h, a, b, u, no), e, n)
    BY <1>w, <1>0
  <2>3. UnknownRead(s, p) = Midway(m, Wpi(h, a, b, WithChunk(u, p), no), e, n)
    BY <2>2, UnknownReadIs
  <2> QED BY <2>1, <2>3
<1>5. t.ok /\ ~t.wpi.partial
  <2>1. t.ok /\ t.wpi = w
    BY MidwayFields
  <2>2. w.partial = no /\ no = FALSE
    BY WpiFields DEF Truth
  <2> QED BY <2>1, <2>2
<1>6. ReadInside(s, p) = IF p.at + DiskSize(p) = e THEN Pushed(t) ELSE t
  <2>1. t = CASE p.tag = "ALPH" /\ ~s.wpi.alph -> AlphRead(s)
              [] p.tag \in ImageTags /\ s.wpi.image = <<>> -> FrameRead(s, p)
              [] p.tag \in UnknownTags /\ ~s.wpi.partial -> UnknownRead(s, p)
              [] OTHER -> Failed(s)
    <3>1. p.tag \notin ImageTags /\ p.tag # "ALPH" /\ p.tag \in UnknownTags
      BY <1>1, <1>3
    <3> QED BY <1>3, <1>4, <3>1
  <2> QED BY <1>3, <1>5, <2>1, InsideByTag
<1>7. Within(m, w, e, n, at + DiskSize(c)) = IF at + DiskSize(c) = e THEN Pushed(t) ELSE t
  BY DEF Within
<1> QED BY <1>w, <1>0, <1>2, <1>6, <1>7

\* An ANMF, an ALPH and a bitstream outside any ANMF.
LEMMA AnmfBetween ==
  ASSUME NEW yes, NEW no, Truth(yes, no), NEW m, NEW n \in Nat, NEW c \in Chunks,
         NEW at \in Nat, c.tag = "ANMF",
         c.size > AnmfSize, c.size % 2 = 0, NEW e, e = at + ChunkHeaderSize + c.size, e <= n
  PROVE  ReadChunk(Between(m, n), Placed(c, at)) =
           Midway(m, Wpi(<<c.info>>, no, <<>>, <<>>, yes), e, n)
<1>0. PICK s : s = Between(m, n)
  OBVIOUS
<1> PICK t : t = Midway(m, Wpi(<<c.info>>, no, <<>>, <<>>, yes), e, n)
  OBVIOUS
<1> PICK p : p = Placed(c, at)
  OBVIOUS
<1>1. p.tag = "ANMF" /\ p.size = c.size /\ p.at = at /\ p.info = c.info
  BY PlacedFields
<1>2. c.size \in Nat /\ ChunkHeaderSize \in Nat /\ ChunkHeaderSize > 0
  BY DiskSizeIsEven, FormatAssumption
<1>3. Padded(p.size) = c.size
  BY <1>1, <1>2 DEF Padded
<1>4. s.size = n /\ s.inside = 0 /\ s.ok /\ ~s.wpi.partial
  BY <1>0 DEF Between, Midway, NoImage
<1>5. ~(p.at >= s.size) /\ ~(p.at + ChunkHeaderSize + Padded(p.size) > s.size)
  BY <1>1, <1>2, <1>3, <1>4
<1>6. ReadChunk(s, p) = ReadOutside(s, p)
  <2>1. ~(s.inside > 0)
    BY <1>4
  <2> QED BY <1>4, <1>5, <2>1, Zenon DEF ReadChunk
<1>7. AnmfRead(s, p) = t
  <2>1. e = p.at + ChunkHeaderSize + p.size /\ <<p.info>> = <<c.info>>
    BY <1>1
  <2> QED BY <1>0, <2>1, AnmfReadIs
<1>8. ReadOutside(s, p) = t
  <2>1. /\ p.tag # "ALPH" /\ p.tag \notin ImageTags
        /\ p.tag \notin Lists \cup UnknownTags
    <3>1. "ANMF" \notin Lists /\ "ANMF" \notin ImageTags /\ "ANMF" \in KnownTags
      BY DEF Lists, MetadataTags, ImageTags, KnownTags
    <3> QED BY <1>1, <3>1, FormatAssumption
  <2>2. p.tag = "ANMF" /\ ~s.wpi.partial /\ p.size > AnmfSize
    BY <1>1, <1>4
  <2> QED BY <1>7, <2>1, <2>2, OutsideByTag
<1> QED BY <1>0, <1>6, <1>8

\* An ALPH outside the frames.
LEMMA AlphBetween ==
  ASSUME NEW yes, NEW no, Truth(yes, no), NEW m, NEW n \in Nat, NEW c \in Chunks,
         NEW at \in Nat, c.tag = "ALPH",
         at + DiskSize(c) <= n
  PROVE  ReadChunk(Between(m, n), Placed(c, at)) =
           Midway(m, Wpi(<<>>, yes, <<>>, <<>>, yes), 0, n)
<1>0. PICK s : s = Between(m, n)
  OBVIOUS
<1> PICK t : t = Midway(m, Wpi(<<>>, yes, <<>>, <<>>, yes), 0, n)
  OBVIOUS
<1> PICK p : p = Placed(c, at)
  OBVIOUS
<1>1. ReadChunk(s, p) = ReadOutside(s, p)
  BY <1>0, ReadBetween DEF Between
<1>2. p.tag = "ALPH" /\ ~s.wpi.alph
  BY <1>0, PlacedFields DEF Between, Midway, NoImage
<1>3. AlphRead(s) = t
  <2>1. NoImage = Wpi(<<>>, no, <<>>, <<>>, no)
    BY NoImageFields
  <2>2. s = Midway(m, Wpi(<<>>, no, <<>>, <<>>, no), 0, n)
    BY <1>0, <2>1 DEF Between
  <2> QED BY <2>2, AlphReadIs
<1>4. ReadOutside(s, p) = t
  <2>1. p.tag \notin ImageTags /\ p.tag # "ANMF" /\ p.tag \notin Lists \cup UnknownTags
    <3>1. "ALPH" \notin Lists /\ "ALPH" \notin ImageTags /\ "ALPH" \in KnownTags
      BY DEF Lists, MetadataTags, ImageTags, KnownTags
    <3> QED BY <1>2, <3>1, FormatAssumption
  <2> QED BY <1>2, <1>3, <2>1, OutsideByTag
<1> QED BY <1>0, <1>1, <1>4

\* A bitstream outside the frames.
LEMMA BitsBetween ==
  ASSUME NEW m, NEW a, NEW n \in Nat, NEW c \in Chunks, NEW at \in Nat,
         c.tag \in ImageTags, at + DiskSize(c) <= n
  PROVE  ReadChunk(Midway(m, Wpi(<<>>, a, <<>>, <<>>, a), 0, n), Placed(c, at)) =
           Pushed(Midway(m, Wpi(<<>>, a, <<Placed(c, at)>>, <<>>, a), 0, n))
<1>0. PICK s : s = Midway(m, Wpi(<<>>, a, <<>>, <<>>, a), 0, n)
  OBVIOUS
<1> PICK p : p = Placed(c, at)
  OBVIOUS
<1> PICK t : t = Midway(m, Wpi(<<>>, a, <<p>>, <<>>, a), 0, n)
  OBVIOUS
<1>1. c.tag # "ANMF" /\ c.tag # "ALPH"
  BY DEF ImageTags
<1>2. ReadChunk(s, p) = ReadOutside(s, p)
  BY <1>0, <1>1, ReadBetween
<1>3. p.tag = c.tag
  BY PlacedFields
<1>4. ImageRead(s, p) = t
  BY <1>0, ImageReadIs
<1>5. ReadOutside(s, p) = Pushed(t)
  <2>1. p.tag \in ImageTags /\ p.tag # "ALPH" /\ p.tag # "ANMF"
        /\ p.tag \notin Lists \cup UnknownTags
    <3>1. Lists \cap ImageTags = {} /\ ImageTags \subseteq KnownTags
      BY DEF Lists, MetadataTags, ImageTags, KnownTags
    <3> QED BY <1>1, <1>3, <3>1, FormatAssumption
  <2> QED BY <1>4, <2>1, OutsideByTag
<1> QED BY <1>0, <1>2, <1>5
\* The same for chunks.
LEMMA ChunksJoined ==
  ASSUME NEW L \in Seq(Chunks), NEW s \in Seq(Chunks), NEW t \in Seq(Chunks), NEW k,
         NEW v, v = s \o t, At(L, k, v)
  PROVE  At(L, k, s) /\ At(L, k + Len(s), t) /\ Len(v) = Len(s) + Len(t) /\ k \in Nat
<1> PICK T : T = Chunks
  OBVIOUS
<1>1. L \in Seq(T) /\ s \in Seq(T) /\ t \in Seq(T)
  OBVIOUS
<1>2. At(L, k, s) /\ At(L, k + Len(s), t)
  BY <1>1, AtJoined
<1>3. Len(v) = Len(s) + Len(t)
  BY <1>1, Joined
<1>4. k \in Nat
  BY <1>2 DEF At
<1> QED BY <1>2, <1>3, <1>4

\* Three sequences of chunks, of which one is only a chunk.
Parts(w, s, b, u) == w = (s \o <<b>>) \o u

\* Where each of them is.
LEMMA PartsAt ==
  ASSUME NEW L \in Seq(Chunks), NEW s \in Seq(Chunks), NEW b \in Chunks,
         NEW u \in Seq(Chunks), NEW k, NEW w, Parts(w, s, b, u), At(L, k, w),
         NEW a, a = Len(s), NEW l, l = Len(u)
  PROVE  /\ k \in Nat /\ a \in Nat /\ l \in Nat /\ At(L, k, s) /\ L[(k + a) + 1] = b
         /\ At(L, (k + a) + 1, u) /\ Len(w) = (a + 1) + l
         /\ ((k + a) + 1) + l <= Len(L)
<1>0. <<b>> \in Seq(Chunks)
  OBVIOUS
<1>t. PICK t \in Seq(Chunks) : t = <<b>>
  BY <1>0
<1>v. PICK v \in Seq(Chunks) : v = s \o t
  BY Joined
<1>1. w = v \o u
  BY <1>t, <1>v DEF Parts
<1>2. At(L, k, v) /\ At(L, k + Len(v), u) /\ Len(w) = Len(v) + Len(u) /\ k \in Nat
  <2>1. At(L, k, v) /\ k \in Nat
    BY <1>1, ChunksJoined
  <2>2. At(L, k + Len(v), u)
    BY <1>1, ChunksJoined
  <2>3. Len(w) = Len(v) + Len(u)
    BY <1>1, Joined
  <2> QED BY <2>1, <2>2, <2>3, Zenon
<1>3. At(L, k, s) /\ At(L, k + Len(s), t) /\ Len(v) = Len(s) + Len(t)
  <2>1. At(L, k, v)
    BY <1>2
  <2>2. At(L, k, s)
    BY <1>v, <2>1, ChunksJoined
  <2>3. At(L, k + Len(s), t)
    BY <1>v, <2>1, ChunksJoined
  <2>4. Len(v) = Len(s) + Len(t)
    BY <1>v, Joined
  <2> QED BY <2>2, <2>3, <2>4, Zenon
<1>4. a \in Nat /\ l \in Nat /\ Len(t) = 1 /\ t[1] = b /\ 1 \in 1..Len(t)
  BY <1>t
<1>5. L[(k + a) + 1] = b
  BY <1>3, <1>4 DEF At
<1>6. Len(v) = a + 1 /\ Len(w) = (a + 1) + l /\ k + Len(v) = (k + a) + 1
  BY <1>2, <1>3, <1>4
<1>7. ((k + a) + 1) + l <= Len(L)
  BY <1>2, <1>6 DEF At
<1> QED BY <1>2, <1>3, <1>4, <1>5, <1>6, <1>7

\* The parts of an image, in the file.
LEMMA PartsOfImage ==
  ASSUME NEW L \in Seq(Chunks), NEW i \in Images, NEW k, At(L, k, Inside(i)),
         NEW a, a = Len(AlphOf(i)), NEW l, l = Len(i.unknown)
  PROVE  /\ k \in Nat /\ a \in Nat /\ l \in Nat
         /\ At(L, k, AlphOf(i)) /\ L[(k + a) + 1] = BitsOf(i)
         /\ At(L, (k + a) + 1, i.unknown)
         /\ k + Len(Inside(i)) = ((k + a) + 1) + l /\ ((k + a) + 1) + l <= Len(L)
<1>0. PICK s \in Seq(Chunks), b \in Chunks, u \in Seq(Chunks) :
           s = AlphOf(i) /\ b = BitsOf(i) /\ u = i.unknown
  BY InsideIsTyped
<1>1. PICK w : w = Inside(i)
  OBVIOUS
<1>2. Parts(w, s, b, u)
  BY <1>0, <1>1, InsideIsTyped DEF Parts
<1>3. At(L, k, w) /\ a = Len(s) /\ l = Len(u)
  BY <1>0, <1>1
<1>4. /\ k \in Nat /\ a \in Nat /\ l \in Nat /\ At(L, k, s) /\ L[(k + a) + 1] = b
      /\ At(L, (k + a) + 1, u) /\ Len(w) = (a + 1) + l /\ ((k + a) + 1) + l <= Len(L)
  BY <1>2, <1>3, PartsAt
<1>5. k + Len(w) = ((k + a) + 1) + l
  <2>1. k \in Nat /\ a \in Nat /\ l \in Nat
    BY <1>4
  <2>y. PICK y : y = Len(w)
    OBVIOUS
  <2>b. PICK b1 \in Nat : b1 = a
    BY <2>1
  <2>c. PICK c1 \in Nat : c1 = l
    BY <2>1
  <2>d. PICK d1 \in Nat : d1 = k
    BY <2>1
  <2>2. y = (b1 + 1) + c1
    BY <1>4, <2>y, <2>b, <2>c
  <2>3. d1 + y = ((d1 + b1) + 1) + c1
    BY <2>2
  <2> QED BY <2>3, <2>y, <2>b, <2>c, <2>d, Zenon
<1> QED BY <1>0, <1>1, <1>4, <1>5

\* An image that is not a frame.
LEMMA PlainAlphTaken ==
  ASSUME NEW g, NEW z, NEW L, Run(g, z, L), NEW n, n = EndOf(z, L),
         NEW m \in Muxes, NEW i \in Images,
         NEW k, At(L, k, Inside(i)), g[k] = Between(m, n),
         NEW a, a = i.alph, NEW j, j = k + Len(AlphOf(i))
  PROVE  g[j] = Midway(m, Wpi(<<>>, a, <<>>, <<>>, a), 0, n)
<1>1. L \in Seq(Chunks)
  BY DEF Run
<1>2. At(L, k, AlphOf(i)) /\ k \in Nat
  BY <1>1, PartsOfImage
<1>3. a \in BOOLEAN
  BY DEF Images, ImageFields
<1>4. CASE a = TRUE
  <2> PICK no : no = FALSE
    OBVIOUS
  <2>1. Truth(a, no)
    BY <1>4 DEF Truth
  <2> PICK c : c = ChunkOf("ALPH", <<>>)
    OBVIOUS
  <2>2. c.tag = "ALPH"
    BY DEF ChunkOf
  <2>3. AlphOf(i) = <<c>>
    BY <1>4 DEF AlphOf
  <2>4. L[k + 1] = c /\ k + 1 <= Len(L) /\ j = k + 1
    BY <1>2, <2>3 DEF At
  <2>5. k < Len(L)
    BY <1>1, <1>2, <2>4
  <2>6. PICK at \in Nat : /\ c \in Chunks /\ g[k + 1] = ReadChunk(g[k], Placed(c, at))
                          /\ at + DiskSize(c) <= n /\ n \in Nat
    BY <1>2, <2>4, <2>5, RunStep
  <2>7. ReadChunk(Between(m, n), Placed(c, at)) = Midway(m, Wpi(<<>>, a, <<>>, <<>>, a), 0, n)
    BY <2>1, <2>2, <2>6, AlphBetween
  <2> QED BY <2>4, <2>6, <2>7
<1>5. CASE a = FALSE
  <2>1. AlphOf(i) = <<>>
    BY <1>5 DEF AlphOf
  <2>2. j = k
    BY <1>2, <2>1
  <2> PICK yes : yes = TRUE
    OBVIOUS
  <2>3. Truth(yes, a)
    BY <1>5 DEF Truth
  <2>4. NoImage = Wpi(<<>>, a, <<>>, <<>>, a)
    BY <2>3, NoImageFields
  <2> QED BY <2>2, <2>4 DEF Between
<1> QED BY <1>3, <1>4, <1>5

\* An image without a header is read back.
LEMMA PlainIsTaken ==
  ASSUME NEW g, NEW z, NEW L, Run(g, z, L), NEW n, n = EndOf(z, L),
         NEW m \in Muxes, NEW i \in Images, ~HasHeader(i), i.unknown = <<>>,
         NEW k, At(L, k, Inside(i)), g[k] = Between(m, n)
  PROVE  Adds(m, i, n, g[k + Len(Inside(i))])
<1> PICK a : a = i.alph
  OBVIOUS
<1> PICK b : b = BitsOf(i)
  OBVIOUS
<1> PICK x : x = Len(AlphOf(i))
  OBVIOUS
<1>1. L \in Seq(Chunks)
  BY DEF Run
<1>2. Len(i.unknown) = 0
  OBVIOUS
<1>3. /\ k \in Nat /\ x \in Nat /\ L[(k + x) + 1] = b
      /\ k + Len(Inside(i)) = ((k + x) + 1) + 0 /\ ((k + x) + 1) + 0 <= Len(L)
  BY <1>1, <1>2, PartsOfImage
<1> PICK j \in Nat : j = k + x
  BY <1>3
<1>4. j < Len(L) /\ L[j + 1] = b /\ k + Len(Inside(i)) = j + 1
  BY <1>1, <1>3
<1>5. g[j] = Midway(m, Wpi(<<>>, a, <<>>, <<>>, a), 0, n)
  BY PlainAlphTaken
<1>6. PICK at \in Nat : /\ b \in Chunks /\ g[j + 1] = ReadChunk(g[j], Placed(b, at))
                        /\ at + DiskSize(b) <= n /\ n \in Nat
  BY <1>4, RunStep
<1> PICK p : p = Placed(b, at)
  OBVIOUS
<1>7. b.tag \in ImageTags
  BY InsideIsTyped
<1> PICK w : w = Wpi(<<>>, a, <<p>>, <<>>, a)
  OBVIOUS
<1>8. g[j + 1] = Pushed(Midway(m, w, 0, n))
  BY <1>5, <1>6, <1>7, BitsBetween
<1>9. ImageOf(w) = i
  <2>1. i.anmf = <<>>
    BY DEF HasHeader
  <2>2. p.tag = BitsOf(i).tag /\ p.info = BitsOf(i).info
    BY PlacedFields
  <2>3. ImageOf(Wpi(i.anmf, i.alph, <<p>>, i.unknown, a)) = i
    BY <2>2, ImageIsBack
  <2> QED BY <2>1, <2>3
<1>10. Adds(m, i, n, Pushed(Midway(m, w, 0, n)))
  BY <1>9, PushedIs
<1> QED BY <1>4, <1>8, <1>10
\* Where the chunks of a file end.
EndsAt(z, k) == RiffHeaderSize + z[k]

\* Each chunk ends after those before it.
LEMMA EndsInOrder ==
  ASSUME NEW g, NEW z, NEW L, Run(g, z, L), NEW i \in Nat, NEW j \in Nat, i < j, j <= Len(L)
  PROVE  /\ EndsAt(z, i) \in Nat /\ EndsAt(z, j) \in Nat /\ EndsAt(z, i) < EndsAt(z, j)
         /\ EndsAt(z, j) > 0 /\ EndsAt(z, j) <= EndOf(z, L)
<1> PICK n \in Nat : n = Len(L)
  BY DEF Run
<1>1. L \in Seq(Chunks) /\ Sizes(z, L)
  BY DEF Run
<1>2. i \in 0..n /\ j \in 0..n /\ n \in 0..n
  OBVIOUS
<1>3. z[i] \in Nat /\ z[j] \in Nat /\ z[n] \in Nat
  BY <1>1, <1>2, SizesGrow
<1>4. z[i] < z[j]
  BY <1>1, <1>2, SizesInOrder
<1>5. z[j] <= z[n]
  <2>1. j = n \/ j < n
    OBVIOUS
  <2>2. j < n => z[j] < z[n]
    BY <1>1, <1>2, SizesInOrder
  <2> QED BY <1>3, <2>1, <2>2
<1>6. RiffHeaderSize \in Nat
  BY FormatAssumption
<1>7. EndOf(z, L) = RiffHeaderSize + z[n]
  BY DEF EndOf
<1> QED BY <1>3, <1>4, <1>5, <1>6, <1>7 DEF EndsAt

\* The next chunk of a run, and where it ends.
NextIs(g, z, k, c, at) ==
  /\ at \in Nat /\ c \in Chunks /\ g[k + 1] = ReadChunk(g[k], Placed(c, at))
  /\ at + DiskSize(c) = EndsAt(z, k + 1)

\* A run goes through the next chunk.
LEMMA NextRead ==
  ASSUME NEW g, NEW z, NEW L, Run(g, z, L), NEW k \in Nat, k < Len(L), NEW c, c = L[k + 1],
         NEW at, at = EndsAt(z, k)
  PROVE  NextIs(g, z, k, c, at)
BY RunStep DEF EndsAt, NextIs

\* The end of an ANMF is that of the chunks inside.
LEMMA EndOfAnmf ==
  ASSUME NEW r \in Nat, NEW x \in Nat, NEW h \in Nat, NEW a \in Nat, NEW y \in Nat,
         NEW u, u = x + (h + a), NEW v, v = u + y, NEW s, s = a + y
  PROVE  r + v = (r + x) + h + s
OBVIOUS

\* The ANMF of a frame ends where its last chunk does.
LEMMA FrameEnd ==
  ASSUME NEW g, NEW z, NEW L, Run(g, z, L), NEW i \in Images, HasHeader(i),
         NEW k \in Nat, NEW c, c = AnmfOf(i), At(L, k + 1, Inside(i)), k + 1 <= Len(L),
         L[k + 1] = c, NEW e, e = EndsAt(z, (k + 1) + Len(Inside(i)))
  PROVE  /\ c \in Chunks /\ c.tag = "ANMF" /\ c.size > AnmfSize /\ c.size % 2 = 0
         /\ e = EndsAt(z, k) + ChunkHeaderSize + c.size /\ e \in Nat /\ e > 0
         /\ e <= EndOf(z, L)
<1>1. L \in Seq(Chunks) /\ Sizes(z, L)
  BY DEF Run
<1>2. c \in Chunks
  BY AnmfIsTyped
<1>3. c.tag = "ANMF" /\ c.size = AnmfSize + TotalSize(Inside(i))
  BY DEF AnmfOf
<1>s. PICK s \in Seq(Chunks) : s = Inside(i)
  BY InsideIsTyped
<1>4. Len(s) > 0 /\ Len(s) \in Nat /\ At(L, k + 1, s)
  <2>1. Len(s) > 0
    BY <1>s, InsideIsTyped
  <2>2. Len(s) \in Nat
    BY <1>s
  <2>3. At(L, k + 1, s)
    BY <1>s
  <2> QED BY <2>1, <2>2, <2>3, Zenon
<1>5. (k + 1) + Len(s) <= Len(L)
  BY <1>4 DEF At
<1>x. PICK x \in Nat : x = Len(s)
  BY <1>4
<1>y. PICK y \in Nat : y = TotalSize(s)
  BY <1>1, <1>4, <1>s, PartSize
<1>6. y % 2 = 0
  BY <1>1, <1>4, <1>s, <1>y, PartSize
<1>7. z[(k + 1) + x] = z[k + 1] + y
  BY <1>1, <1>4, <1>s, <1>x, <1>y, PartSize
<1>n. PICK n \in Nat : n = Len(L)
  BY <1>1
<1>8. k \in 0..n /\ k + 1 \in 0..n /\ (k + 1) + x \in 0..n /\ k + 1 < (k + 1) + x
      /\ k + 1 \in 1..n
  BY <1>4, <1>5, <1>x, <1>n
<1>9. z[k] \in Nat /\ z[k + 1] \in Nat
  BY <1>1, <1>8, <1>n, SizesGrow
<1>10. z[k + 1] < z[(k + 1) + x]
  BY <1>1, <1>8, <1>n, SizesInOrder
<1>11. y > 0
  BY <1>7, <1>9, <1>10
<1>12. z[k + 1] = z[k] + DiskSize(c)
  <2>1. (k + 1) - 1 = k
    OBVIOUS
  <2> QED BY <1>1, <1>8, <1>n, <2>1 DEF Sizes
<1>13. DiskSize(c) = ChunkHeaderSize + AnmfSize
  BY <1>3 DEF DiskSize
<1>14. /\ ChunkHeaderSize \in Nat /\ AnmfSize \in Nat /\ AnmfSize % 2 = 0
       /\ RiffHeaderSize \in Nat
  BY FormatAssumption
<1>15. c.size = AnmfSize + y
  BY <1>3, <1>s, <1>y
<1>16. c.size > AnmfSize /\ c.size % 2 = 0
  BY <1>6, <1>11, <1>14, <1>15
<1>17. e = RiffHeaderSize + z[(k + 1) + x]
  BY <1>s, <1>x DEF EndsAt
<1>18. e = EndsAt(z, k) + ChunkHeaderSize + c.size
  <2>1. z[k + 1] = z[k] + (ChunkHeaderSize + AnmfSize)
    BY <1>12, <1>13
  <2>2. EndsAt(z, k) = RiffHeaderSize + z[k]
    BY DEF EndsAt
  <2>3. RiffHeaderSize + z[(k + 1) + x] = (RiffHeaderSize + z[k]) + ChunkHeaderSize + c.size
    BY <1>7, <1>9, <1>14, <1>15, <2>1, EndOfAnmf
  <2> QED BY <1>17, <2>2, <2>3
<1>19. e \in Nat /\ e > 0 /\ e <= EndOf(z, L)
  <2>1. e = EndsAt(z, (k + 1) + x)
    BY <1>17 DEF EndsAt
  <2>2. k + 1 \in Nat /\ (k + 1) + x \in Nat /\ (k + 1) + x <= Len(L)
    BY <1>8, <1>n
  <2> QED BY <1>8, <2>1, <2>2, EndsInOrder
<1> QED BY <1>2, <1>3, <1>16, <1>18, <1>19

\* The chunks of a frame, after its ANMF.
InFrame(g, z, L, i, k, e, n) ==
  /\ Run(g, z, L) /\ i \in Images /\ At(L, k, Inside(i)) /\ n = EndOf(z, L) /\ n \in Nat
  /\ e = EndsAt(z, k + Len(Inside(i))) /\ e \in Nat /\ e > 0 /\ e <= n

\* The ALPH of a frame, if there is one.
LEMMA FrameAlphTaken ==
  ASSUME NEW g, NEW z, NEW L, NEW i, NEW k, NEW e, NEW n, InFrame(g, z, L, i, k, e, n),
         NEW m, NEW h, NEW yes, NEW no, Truth(yes, no),
         g[k] = Midway(m, Wpi(h, no, <<>>, <<>>, yes), e, n),
         NEW a, a = i.alph, NEW j, j = k + Len(AlphOf(i))
  PROVE  g[j] = Midway(m, Wpi(h, a, <<>>, <<>>, yes), e, n)
<1>1. /\ Run(g, z, L) /\ i \in Images /\ At(L, k, Inside(i)) /\ n = EndOf(z, L) /\ n \in Nat
      /\ e = EndsAt(z, k + Len(Inside(i))) /\ e \in Nat /\ e > 0 /\ e <= n
  BY DEF InFrame
<1>2. L \in Seq(Chunks)
  BY <1>1 DEF Run
<1>x. PICK x : x = Len(AlphOf(i))
  OBVIOUS
<1>l. PICK l : l = Len(i.unknown)
  OBVIOUS
<1>3. /\ k \in Nat /\ x \in Nat /\ l \in Nat /\ At(L, k, AlphOf(i))
      /\ k + Len(Inside(i)) = ((k + x) + 1) + l /\ ((k + x) + 1) + l <= Len(L)
  <2>1. At(L, k, Inside(i)) /\ i \in Images
    BY <1>1
  <2>2. k \in Nat /\ x \in Nat /\ l \in Nat /\ At(L, k, AlphOf(i))
    BY <1>2, <1>x, <1>l, <2>1, PartsOfImage
  <2>3. k + Len(Inside(i)) = ((k + x) + 1) + l
    BY <1>2, <1>x, <1>l, <2>1, PartsOfImage
  <2>4. ((k + x) + 1) + l <= Len(L)
    BY <1>2, <1>x, <1>l, <2>1, PartsOfImage
  <2> QED BY <2>2, <2>3, <2>4, Zenon
<1>4. a \in BOOLEAN
  BY <1>1 DEF Images, ImageFields
<1>5. CASE a = TRUE
  <2>1. a = yes
    BY <1>5 DEF Truth
  <2>c. PICK c : c = ChunkOf("ALPH", <<>>)
    OBVIOUS
  <2>2. c.tag = "ALPH"
    BY <2>c DEF ChunkOf
  <2>3. AlphOf(i) = <<c>>
    BY <1>5, <2>c DEF AlphOf
  <2>4. L[k + 1] = c /\ x = 1
    BY <1>3, <1>x, <2>3 DEF At
  <2>n. PICK y \in Nat : y = Len(L)
    BY <1>2
  <2>5. j = k + 1 /\ k < Len(L)
    <3>1. ((k + 1) + 1) + l <= y
      BY <1>3, <2>4, <2>n
    <3>2. k < y
      BY <1>3, <3>1
    <3>3. j = k + 1
      BY <1>x, <2>4
    <3> QED BY <2>n, <3>2, <3>3
  <2>a. PICK at : at = EndsAt(z, k)
    OBVIOUS
  <2>b. NextIs(g, z, k, c, at)
    BY <1>1, <1>3, <2>a, <2>4, <2>5, NextRead
  <2>6. /\ at \in Nat /\ c \in Chunks /\ g[k + 1] = ReadChunk(g[k], Placed(c, at))
        /\ at + DiskSize(c) = EndsAt(z, k + 1)
    BY <2>b DEF NextIs
  <2>7. at + DiskSize(c) < e
    <3>1. k + Len(Inside(i)) = ((k + 1) + 1) + l /\ ((k + 1) + 1) + l <= Len(L)
      BY <1>3, <2>4
    <3>2. k + 1 \in Nat /\ ((k + 1) + 1) + l \in Nat /\ k + 1 < ((k + 1) + 1) + l
      BY <1>3
    <3>3. EndsAt(z, k + 1) < EndsAt(z, ((k + 1) + 1) + l)
      BY <1>1, <3>1, <3>2, EndsInOrder
    <3> QED BY <1>1, <2>6, <3>1, <3>3, Zenon
  <2>8. ReadChunk(Midway(m, Wpi(h, no, <<>>, <<>>, yes), e, n), Placed(c, at)) =
          Midway(m, Wpi(h, yes, <<>>, <<>>, yes), e, n)
    BY <1>1, <2>2, <2>6, <2>7, AlphWithin
  <2> QED BY <2>1, <2>5, <2>6, <2>8
<1>6. CASE a = FALSE
  <2>1. AlphOf(i) = <<>> /\ a = no
    BY <1>6 DEF AlphOf, Truth
  <2>2. j = k
    <3>1. x = 0
      BY <1>x, <2>1
    <3>2. j = k + 0
      BY <1>x, <3>1
    <3> QED BY <1>3, <3>2
  <2> QED BY <2>1, <2>2
<1> QED BY <1>4, <1>5, <1>6

BitsRead(g, z, j, w, m, e, n) == g[j + 1] = Within(m, w, e, n, EndsAt(z, j + 1))

\* The bitstream of a frame.
LEMMA FrameBitsTaken ==
  ASSUME NEW g, NEW z, NEW L, NEW i, NEW k, NEW e, NEW n, InFrame(g, z, L, i, k, e, n),
         NEW m, NEW h, NEW yes, NEW no, Truth(yes, no), NEW a,
         NEW j, j = k + Len(AlphOf(i)), g[j] = Midway(m, Wpi(h, a, <<>>, <<>>, yes), e, n),
         NEW p, p = Placed(BitsOf(i), EndsAt(z, j))
  PROVE  BitsRead(g, z, j, Wpi(h, a, <<p>>, <<>>, no), m, e, n)
<1>1. /\ Run(g, z, L) /\ i \in Images /\ At(L, k, Inside(i)) /\ n = EndOf(z, L) /\ n \in Nat
      /\ e = EndsAt(z, k + Len(Inside(i))) /\ e \in Nat /\ e > 0 /\ e <= n
  BY DEF InFrame
<1>2. L \in Seq(Chunks)
  BY <1>1 DEF Run
<1>x. PICK x : x = Len(AlphOf(i))
  OBVIOUS
<1>l. PICK l : l = Len(i.unknown)
  OBVIOUS
<1>b. PICK b : b = BitsOf(i)
  OBVIOUS
<1>3. /\ k \in Nat /\ x \in Nat /\ l \in Nat /\ L[(k + x) + 1] = b
      /\ k + Len(Inside(i)) = ((k + x) + 1) + l /\ ((k + x) + 1) + l <= Len(L)
  <2>1. At(L, k, Inside(i)) /\ i \in Images
    BY <1>1
  <2>2. k \in Nat /\ x \in Nat /\ l \in Nat /\ L[(k + x) + 1] = b
    BY <1>2, <1>x, <1>l, <1>b, <2>1, PartsOfImage
  <2>3. k + Len(Inside(i)) = ((k + x) + 1) + l
    BY <1>2, <1>x, <1>l, <2>1, PartsOfImage
  <2>4. ((k + x) + 1) + l <= Len(L)
    BY <1>2, <1>x, <1>l, <2>1, PartsOfImage
  <2> QED BY <2>2, <2>3, <2>4, Zenon
<1>4. j = k + x
  BY <1>x
<1>5. j \in Nat /\ j < Len(L) /\ L[j + 1] = b
  <2>1. PICK y \in Nat : y = Len(L)
    BY <1>2
  <2>2. k + x < y
    BY <1>3, <2>1
  <2> QED BY <1>3, <1>4, <2>1, <2>2
<1>a. PICK at : at = EndsAt(z, j)
  OBVIOUS
<1>6. NextIs(g, z, j, b, at)
  BY <1>1, <1>5, <1>a, NextRead
<1>7. /\ at \in Nat /\ b \in Chunks /\ g[j + 1] = ReadChunk(g[j], Placed(b, at))
      /\ at + DiskSize(b) = EndsAt(z, j + 1)
  BY <1>6 DEF NextIs
<1>8. at + DiskSize(b) <= e
  <2>1. j + 1 \in Nat /\ (j + 1) + l \in Nat /\ (j + 1 = (j + 1) + l \/ j + 1 < (j + 1) + l)
    BY <1>3, <1>5
  <2>2. e = EndsAt(z, (j + 1) + l) /\ (j + 1) + l <= Len(L)
    BY <1>1, <1>3, <1>4
  <2>3. j + 1 < (j + 1) + l => EndsAt(z, j + 1) < e /\ EndsAt(z, j + 1) \in Nat
    BY <1>1, <2>1, <2>2, EndsInOrder
  <2>4. j + 1 = (j + 1) + l => EndsAt(z, j + 1) = e
    BY <2>2
  <2> QED BY <1>1, <1>7, <2>1, <2>3, <2>4
<1>9. b.tag \in ImageTags
  BY <1>1, <1>b, InsideIsTyped
<1>10. p = Placed(b, at)
  BY <1>a, <1>b
<1>11. ReadChunk(Midway(m, Wpi(h, a, <<>>, <<>>, yes), e, n), Placed(b, at)) =
         Within(m, Wpi(h, a, <<Placed(b, at)>>, <<>>, no), e, n, at + DiskSize(b))
  BY <1>1, <1>7, <1>8, <1>9, BitsWithin
<1> QED BY <1>7, <1>10, <1>11 DEF BitsRead

\* The chunks after the bitstream.
LEMMA FrameUnknownTaken ==
  ASSUME NEW g, NEW z, NEW L, NEW i, NEW k, NEW e, NEW n, InFrame(g, z, L, i, k, e, n),
         NEW m, NEW h, NEW yes, NEW no, Truth(yes, no), NEW a, NEW p,
         NEW j, j = (k + Len(AlphOf(i))) + 1, NEW u, u = i.unknown,
         g[j] = Within(m, Wpi(h, a, <<p>>, <<>>, no), e, n, EndsAt(z, j))
  PROVE  g[k + Len(Inside(i))] = Pushed(Midway(m, Wpi(h, a, <<p>>, u, no), e, n))
<1>1. /\ Run(g, z, L) /\ i \in Images /\ At(L, k, Inside(i)) /\ n = EndOf(z, L) /\ n \in Nat
      /\ e = EndsAt(z, k + Len(Inside(i))) /\ e \in Nat /\ e > 0 /\ e <= n
  BY DEF InFrame
<1>2. L \in Seq(Chunks)
  BY <1>1 DEF Run
<1>x. PICK x : x = Len(AlphOf(i))
  OBVIOUS
<1>l. PICK l : l = Len(u)
  OBVIOUS
<1>3. /\ k \in Nat /\ x \in Nat /\ l \in Nat /\ At(L, (k + x) + 1, u)
      /\ k + Len(Inside(i)) = ((k + x) + 1) + l /\ ((k + x) + 1) + l <= Len(L)
  <2>1. At(L, k, Inside(i)) /\ i \in Images
    BY <1>1
  <2>2. k \in Nat /\ x \in Nat /\ l \in Nat /\ At(L, (k + x) + 1, u)
    BY <1>2, <1>x, <1>l, <2>1, PartsOfImage
  <2>3. k + Len(Inside(i)) = ((k + x) + 1) + l
    BY <1>2, <1>x, <1>l, <2>1, PartsOfImage
  <2>4. ((k + x) + 1) + l <= Len(L)
    BY <1>2, <1>x, <1>l, <2>1, PartsOfImage
  <2> QED BY <2>2, <2>3, <2>4, Zenon
<1>4. j \in Nat /\ At(L, j, u) /\ k + Len(Inside(i)) = j + l /\ j + l <= Len(L)
  <2>1. j = (k + x) + 1
    BY <1>x
  <2>2. j \in Nat
    BY <1>3, <2>1
  <2> QED BY <1>3, <2>1, <2>2
<1>5. e = EndsAt(z, j + l)
  BY <1>1, <1>4
<1>6. u \in Seq(ChunksOf("unknown"))
  BY <1>1 DEF Images, ImageFields
<1> DEFINE w(s) == Wpi(h, a, <<p>>, s, no)
<1> DEFINE S == {y \in Nat : y <= l =>
                   g[j + y] = Within(m, w(SubSeq(u, 1, y)), e, n, EndsAt(z, j + y))}
<1>7. 0 \in S
  <2>1. SubSeq(u, 1, 0) = <<>> /\ j + 0 = j
    BY <1>4
  <2> QED BY <2>1
<1>8. ASSUME NEW y \in Nat, y \in S PROVE y + 1 \in S
  <2> SUFFICES ASSUME y + 1 <= l
      PROVE  g[j + (y + 1)] =
               Within(m, w(SubSeq(u, 1, y + 1)), e, n, EndsAt(z, j + (y + 1)))
    OBVIOUS
  <2>1. g[j + y] = Within(m, w(SubSeq(u, 1, y)), e, n, EndsAt(z, j + y))
    BY <1>3, <1>8
  <2>2. j + y \in Nat /\ j + y < j + l /\ (j + y) + 1 = j + (y + 1) /\ j + l \in Nat
    BY <1>3, <1>4
  <2>3. EndsAt(z, j + y) # e
    BY <1>1, <1>4, <1>5, <2>2, EndsInOrder
  <2>s. PICK s : s = SubSeq(u, 1, y)
    OBVIOUS
  <2>4. g[j + y] = Midway(m, Wpi(h, a, <<p>>, s, no), e, n)
    BY <2>1, <2>3, <2>s DEF Within
  <2>c. PICK c \in ChunksOf("unknown") : c = u[y + 1]
    BY <1>3, <1>6, <1>l, ElementOfSeq
  <2>5. Append(s, c) = SubSeq(u, 1, y + 1)
    BY <1>3, <1>6, <1>l, <2>s, <2>c
  <2>6. j + y < Len(L) /\ L[(j + y) + 1] = c
    <3>1. PICK q \in Nat : q = Len(L)
      BY <1>2
    <3>2. j + y < q
      BY <1>4, <2>2, <3>1
    <3>3. y + 1 \in 1..Len(u)
      BY <1>3, <1>l
    <3>4. L[j + (y + 1)] = u[y + 1]
      BY <1>4, <3>3 DEF At
    <3> QED BY <2>2, <2>c, <3>1, <3>2, <3>4
  <2>a. PICK at : at = EndsAt(z, j + y)
    OBVIOUS
  <2>7. NextIs(g, z, j + y, c, at)
    BY <1>1, <2>2, <2>6, <2>a, NextRead
  <2>8. /\ at \in Nat /\ g[(j + y) + 1] = ReadChunk(g[j + y], Placed(c, at))
        /\ at + DiskSize(c) = EndsAt(z, (j + y) + 1)
    BY <2>7 DEF NextIs
  <2>9. at + DiskSize(c) <= e
    <3>1. (j + y) + 1 = j + l \/ (j + y) + 1 < j + l
      BY <1>3, <1>4, <2>2
    <3>2. (j + y) + 1 < j + l =>
            EndsAt(z, (j + y) + 1) < e /\ EndsAt(z, (j + y) + 1) \in Nat
      BY <1>1, <1>4, <1>5, <2>2, EndsInOrder
    <3>3. (j + y) + 1 = j + l => EndsAt(z, (j + y) + 1) = e
      BY <1>5
    <3> QED BY <1>1, <2>8, <3>1, <3>2, <3>3
  <2>d. PICK d : d = SubSeq(u, 1, y + 1)
    OBVIOUS
  <2>e. d = WithChunk(s, c)
    <3>1. Plain(c) = c
      BY DEF Plain, Chunks, ChunksOf
    <3> QED BY <2>5, <2>d, <3>1 DEF WithChunk
  <2>b. PICK b : b = <<p>>
    OBVIOUS
  <2>10. ReadChunk(Midway(m, Wpi(h, a, b, s, no), e, n), Placed(c, at)) =
           Within(m, Wpi(h, a, b, WithChunk(s, c), no), e, n, at + DiskSize(c))
    BY <1>1, <2>8, <2>9, UnknownWithin
  <2>11. g[j + (y + 1)] = Within(m, Wpi(h, a, b, d, no), e, n, EndsAt(z, j + (y + 1)))
    BY <2>2, <2>4, <2>b, <2>e, <2>8, <2>10
  <2> QED BY <2>11, <2>b, <2>d
<1> HIDE DEF S
<1>9. l \in S
  BY <1>3, <1>7, <1>8, Induct
<1>10. SubSeq(u, 1, l) = u
  BY <1>6, <1>l
<1>11. g[j + l] = Within(m, w(u), e, n, EndsAt(z, j + l))
  <2>1. l <= l
    BY <1>3
  <2>2. g[j + l] = Within(m, w(SubSeq(u, 1, l)), e, n, EndsAt(z, j + l))
    BY <1>9, <2>1 DEF S
  <2> QED BY <1>10, <2>2
<1> QED BY <1>4, <1>5, <1>11 DEF Within
\* A frame: its ANMF, and the chunks in it.
Begins(L, k, b, u) == k \in Nat /\ k + 1 <= Len(L) /\ L[k + 1] = b /\ At(L, k + 1, u)

\* Where they are.
LEMMA AnmfAt ==
  ASSUME NEW L \in Seq(Chunks), NEW b \in Chunks, NEW u \in Seq(Chunks), NEW k, NEW w,
         w = <<b>> \o u, At(L, k, w)
  PROVE  Begins(L, k, b, u)
<1>0. <<b>> \in Seq(Chunks)
  OBVIOUS
<1>t. PICK t \in Seq(Chunks) : t = <<b>>
  BY <1>0
<1>1. w = t \o u
  BY <1>t
<1>2. At(L, k, t) /\ k \in Nat
  BY <1>1, ChunksJoined
<1>3. At(L, k + Len(t), u)
  BY <1>1, ChunksJoined
<1>5. Len(t) = 1 /\ t[1] = b /\ 1 \in 1..Len(t)
  BY <1>t
<1>6. k + 1 <= Len(L) /\ L[k + 1] = b
  BY <1>2, <1>5 DEF At
<1> QED BY <1>2, <1>3, <1>5, <1>6 DEF Begins

\* A frame is read back.
LEMMA FrameIsTaken ==
  ASSUME NEW g, NEW z, NEW L, Run(g, z, L), NEW n, n = EndOf(z, L),
         NEW m \in Muxes, NEW i \in Images, HasHeader(i),
         NEW k, NEW w, w = ImageChunks(i), At(L, k, w), g[k] = Between(m, n)
  PROVE  Adds(m, i, n, g[k + Len(w)])
<1>1. L \in Seq(Chunks)
  BY DEF Run
<1>c. PICK c \in Chunks : c = AnmfOf(i)
  BY AnmfIsTyped
<1>s. PICK s \in Seq(Chunks) : s = Inside(i)
  BY InsideIsTyped
<1>2. w = <<c>> \o s
  BY <1>c, <1>s, ImageChunksIs
<1>3. k \in Nat /\ k + 1 <= Len(L) /\ L[k + 1] = c /\ At(L, k + 1, s)
  <2>1. Begins(L, k, c, s)
    BY <1>1, <1>2, AnmfAt
  <2> QED BY <2>1 DEF Begins
<1>4. Len(w) = 1 + Len(s)
  BY <1>2
<1>x. PICK x \in Nat : x = Len(s)
  OBVIOUS
<1>e. PICK e : e = EndsAt(z, (k + 1) + x)
  OBVIOUS
<1>5. /\ c.tag = "ANMF" /\ c.size > AnmfSize /\ c.size % 2 = 0
      /\ e = EndsAt(z, k) + ChunkHeaderSize + c.size /\ e \in Nat /\ e > 0 /\ e <= n
  <2>1. k \in Nat /\ At(L, k + 1, Inside(i)) /\ k + 1 <= Len(L) /\ L[k + 1] = AnmfOf(i)
    BY <1>3, <1>c, <1>s
  <2>2. e = EndsAt(z, (k + 1) + Len(Inside(i)))
    BY <1>s, <1>x, <1>e
  <2>3. c.tag = "ANMF" /\ c.size > AnmfSize /\ c.size % 2 = 0
    BY <1>c, <2>1, <2>2, FrameEnd
  <2>4. e = EndsAt(z, k) + ChunkHeaderSize + c.size
    BY <1>c, <2>1, <2>2, FrameEnd
  <2>5. e \in Nat /\ e > 0 /\ e <= EndOf(z, L)
    BY <1>c, <2>1, <2>2, FrameEnd
  <2> QED BY <2>3, <2>4, <2>5
<1>6. n \in Nat
  <2>1. 0 < k + 1 /\ k + 1 <= Len(L) /\ 0 \in Nat /\ k + 1 \in Nat
    BY <1>3
  <2>2. k < Len(L)
    <3>1. PICK q \in Nat : q = Len(L)
      BY <1>1
    <3> QED BY <1>3, <3>1
  <2> QED BY <1>3, <2>2, RunStep
<1>k. PICK j \in Nat : j = k + 1
  BY <1>3
<1>7. InFrame(g, z, L, i, j, e, n)
  BY <1>3, <1>5, <1>6, <1>s, <1>x, <1>e, <1>k DEF InFrame
<1>y. PICK yes : yes = TRUE
  OBVIOUS
<1>o. PICK no : no = FALSE
  OBVIOUS
<1>8. Truth(yes, no)
  BY <1>y, <1>o DEF Truth
<1>h. PICK h : h = i.anmf
  OBVIOUS
<1>9. g[j] = Midway(m, Wpi(h, no, <<>>, <<>>, yes), e, n)
  <2>a. PICK at : at = EndsAt(z, k)
    OBVIOUS
  <2>1. k < Len(L)
    <3>1. PICK q \in Nat : q = Len(L)
      BY <1>1
    <3> QED BY <1>3, <3>1
  <2>2. NextIs(g, z, k, c, at)
    BY <1>3, <2>a, <2>1, NextRead
  <2>3. at \in Nat /\ g[k + 1] = ReadChunk(g[k], Placed(c, at))
    BY <2>2 DEF NextIs
  <2>4. <<c.info>> = h
    BY <1>c, <1>h, AnmfIsTyped
  <2>5. e = at + ChunkHeaderSize + c.size
    BY <1>5, <2>a
  <2>6. ReadChunk(Between(m, n), Placed(c, at)) =
          Midway(m, Wpi(<<c.info>>, no, <<>>, <<>>, yes), e, n)
    BY <1>5, <1>6, <1>8, <2>3, <2>5, AnmfBetween
  <2> QED BY <1>k, <2>3, <2>4, <2>6
<1>a. PICK a : a = i.alph
  OBVIOUS
<1>j. PICK y : y = j + Len(AlphOf(i))
  OBVIOUS
<1>10. g[y] = Midway(m, Wpi(h, a, <<>>, <<>>, yes), e, n)
  BY <1>7, <1>8, <1>9, <1>a, <1>j, FrameAlphTaken
<1>p. PICK p : p = Placed(BitsOf(i), EndsAt(z, y))
  OBVIOUS
<1>11. g[y + 1] = Within(m, Wpi(h, a, <<p>>, <<>>, no), e, n, EndsAt(z, y + 1))
  <2>1. BitsRead(g, z, y, Wpi(h, a, <<p>>, <<>>, no), m, e, n)
    BY <1>7, <1>8, <1>10, <1>j, <1>p, FrameBitsTaken
  <2> QED BY <2>1 DEF BitsRead
<1>u. PICK u : u = i.unknown
  OBVIOUS
<1>v. PICK v : v = Wpi(h, a, <<p>>, u, no)
  OBVIOUS
<1>12. g[j + Len(Inside(i))] = Pushed(Midway(m, v, e, n))
  <2>1. y + 1 = (j + Len(AlphOf(i))) + 1
    BY <1>j
  <2> QED BY <1>7, <1>8, <1>11, <1>u, <1>v, <2>1, FrameUnknownTaken
<1>13. k + Len(w) = j + Len(Inside(i))
  BY <1>3, <1>4, <1>s, <1>x, <1>k
<1>14. ImageOf(v) = i
  <2>1. p.tag = BitsOf(i).tag /\ p.info = BitsOf(i).info
    BY <1>p, PlacedFields
  <2>2. ImageOf(Wpi(i.anmf, i.alph, <<p>>, i.unknown, no)) = i
    BY <2>1, ImageIsBack
  <2> QED BY <1>h, <1>a, <1>u, <1>v, <2>2
<1>15. Adds(m, i, n, Pushed(Midway(m, v, e, n)))
  BY <1>14, PushedIs
<1> QED BY <1>12, <1>13, <1>15

\* Any image of the object.
Kept(i) == HasHeader(i) \/ i.unknown = <<>>

\* Any image that is kept as it was is read back.
LEMMA ImageIsTaken ==
  ASSUME NEW g, NEW z, NEW L, Run(g, z, L), NEW n, n = EndOf(z, L),
         NEW m \in Muxes, NEW i \in Images, Kept(i),
         NEW k, NEW w, w = ImageChunks(i), At(L, k, w), g[k] = Between(m, n)
  PROVE  Adds(m, i, n, g[k + Len(w)])
<1>1. CASE HasHeader(i)
  BY <1>1, FrameIsTaken
<1>2. CASE ~HasHeader(i)
  <2>1. w = Inside(i)
    BY <1>2, ImageChunksIs
  <2>2. i.unknown = <<>>
    BY <1>2 DEF Kept
  <2> QED BY <1>2, <2>1, <2>2, PlainIsTaken
<1> QED BY <1>1, <1>2
\* Numbers.
LEMMA OneBack ==
  ASSUME NEW r \in Nat, NEW y \in Nat, y + 1 <= r
  PROVE  r - y \in 1..r /\ (r - y) - 1 = r - (y + 1) /\ y <= r
OBVIOUS

\* Two lengths after a position.
LEMMA Sum3 ==
  ASSUME NEW k \in Nat, NEW a \in Nat, NEW b \in Nat, NEW j, j = k + a, NEW c, c = a + b
  PROVE  j + b = k + c
OBVIOUS

\* All the images.
LEMMA PrefixesAt ==
  ASSUME NEW L \in Seq(Chunks), NEW s \in Seq(Seq(Chunks)), NEW r \in Nat, r = Len(s),
         NEW f \in [0..r -> Seq(Chunks)], Joins(f, s), NEW k, At(L, k, f[r])
  PROVE  /\ \A y \in 0..r : At(L, k, f[y])
         /\ \A y \in 1..r : At(L, k + Len(f[y - 1]), s[y])
<1>1. ASSUME NEW y \in 1..r, At(L, k, f[y])
      PROVE  At(L, k, f[y - 1]) /\ At(L, k + Len(f[y - 1]), s[y])
  <2>1. f[y] = f[y - 1] \o s[y]
    BY DEF Joins
  <2>0. y - 1 \in 0..r
    OBVIOUS
  <2>d. f[y - 1] \in Seq(Chunks)
    BY <2>0
  <2>a. PICK a \in Seq(Chunks) : a = f[y - 1]
    BY <2>d
  <2>b. PICK b \in Seq(Chunks) : b = s[y]
    BY ElementOfSeq
  <2>c. PICK c : c = f[y]
    OBVIOUS
  <2>2. c = a \o b /\ At(L, k, c)
    BY <1>1, <2>1, <2>a, <2>b, <2>c
  <2>3. At(L, k, a)
    BY <2>2, ChunksJoined
  <2>4. At(L, k + Len(a), b)
    BY <2>2, ChunksJoined
  <2> QED BY <2>3, <2>4, <2>a, <2>b, Zenon
<1> DEFINE S == {y \in Nat : y <= r => At(L, k, f[r - y])}
<1>2. 0 \in S
  OBVIOUS
<1>3. ASSUME NEW y \in Nat, y \in S PROVE y + 1 \in S
  <2> SUFFICES ASSUME y + 1 <= r PROVE At(L, k, f[r - (y + 1)])
    OBVIOUS
  <2>1. r - y \in 1..r /\ (r - y) - 1 = r - (y + 1) /\ y <= r
    BY OneBack, Zenon
  <2>2. At(L, k, f[r - y])
    BY <1>3, <2>1
  <2> QED BY <1>1, <2>1, <2>2
<1> HIDE DEF S
<1>4. \A y \in Nat : y \in S
  BY <1>2, <1>3, Induct
<1>5. ASSUME NEW y \in 0..r PROVE At(L, k, f[y])
  <2>1. r - y \in Nat /\ r - y <= r /\ r - (r - y) = y
    OBVIOUS
  <2>2. r - y \in S
    BY <1>4, <2>1
  <2> QED BY <2>1, <2>2 DEF S
<1>6. ASSUME NEW y \in 1..r PROVE At(L, k + Len(f[y - 1]), s[y])
  <2>1. At(L, k, f[y])
    BY <1>5
  <2> QED BY <1>1, <2>1
<1> QED BY <1>5, <1>6

HasImages(m, q, n, t) == \E o : ImagesAre(o, m, q) /\ t = Between(o, n)

\* All the images are read back.
LEMMA ImagesAreTaken ==
  ASSUME NEW g, NEW z, NEW L, Run(g, z, L), NEW n, n = EndOf(z, L),
         NEW m \in Muxes, m.images = <<>>, NEW q \in Seq(Images),
         \A y \in 1..Len(q) : Kept(q[y]), NEW s \in Seq(Seq(Chunks)),
         Len(s) = Len(q), \A y \in 1..Len(q) : s[y] = ImageChunks(q[y]),
         NEW k, NEW w, w = FlattenSeq(s), At(L, k, w), g[k] = Between(m, n)
  PROVE  HasImages(m, q, n, g[k + Len(w)])
<1>r. PICK r \in Nat : r = Len(s)
  OBVIOUS
<1>f. PICK f \in [0..r -> Seq(Chunks)] : Joins(f, s)
  BY <1>r, JoinsExist
<1>1. L \in Seq(Chunks)
  BY DEF Run
<1>2. w = f[r]
  BY <1>r, <1>f, FlattenIs
<1>3. \A y \in 1..r : At(L, k + Len(f[y - 1]), s[y])
  BY <1>1, <1>2, <1>r, <1>f, PrefixesAt
<1>4. k \in Nat
  BY DEF At
<1> DEFINE S == {y \in Nat : y <= r => HasImages(m, SubSeq(q, 1, y), n, g[k + Len(f[y])])}
<1>5. 0 \in S
  <2>1. SubSeq(q, 1, 0) = <<>>
    OBVIOUS
  <2>2. f[0] = <<>>
    BY <1>f DEF Joins
  <2>3. k + Len(f[0]) = k
    BY <1>4, <2>2
  <2>4. ImagesAre(m, m, <<>>)
    BY DEF ImagesAre
  <2> QED BY <2>1, <2>3, <2>4 DEF HasImages
<1>6. ASSUME NEW y \in Nat, y \in S PROVE y + 1 \in S
  <2> SUFFICES ASSUME y + 1 <= r
               PROVE  HasImages(m, SubSeq(q, 1, y + 1), n, g[k + Len(f[y + 1])])
    OBVIOUS
  <2>0. y \in 0..r /\ y + 1 \in 1..r /\ (y + 1) - 1 = y
    OBVIOUS
  <2>1. HasImages(m, SubSeq(q, 1, y), n, g[k + Len(f[y])])
    BY <1>6, <2>0
  <2>o. PICK o : ImagesAre(o, m, SubSeq(q, 1, y)) /\ g[k + Len(f[y])] = Between(o, n)
    BY <2>1, Zenon DEF HasImages
  <2>i. PICK i \in Images : i = q[y + 1]
    BY <1>r, <2>0, ElementOfSeq
  <2>2. Kept(i) /\ s[y + 1] = ImageChunks(i)
    BY <1>r, <2>0, <2>i
  <2>a. PICK a \in Seq(Chunks) : a = f[y]
    BY <2>0, <1>f
  <2>b. PICK b \in Seq(Chunks) : b = s[y + 1]
    BY <1>r, <2>0, ElementOfSeq
  <2>c. PICK c : c = f[y + 1]
    OBVIOUS
  <2>3. c = a \o b
    BY <1>f, <1>r, <2>0, <2>a, <2>b, <2>c DEF Joins
  <2>4. Len(c) = Len(a) + Len(b)
    BY <2>3, Joined
  <2>5. At(L, k + Len(a), b)
    BY <1>3, <2>0, <2>a, <2>b
  <2>j. PICK j : j = k + Len(a)
    OBVIOUS
  <2>6. o \in Muxes /\ o.images = SubSeq(q, 1, y) /\ o.lists = m.lists /\ o.canvas = m.canvas
    BY <2>o DEF ImagesAre
  <2>7. g[j] = Between(o, n)
    BY <2>o, <2>a, <2>j
  <2>8. Adds(o, i, n, g[j + Len(b)])
    <3>1. At(L, j, b) /\ b = ImageChunks(i)
      BY <2>2, <2>5, <2>b, <2>j
    <3> QED BY <2>2, <2>6, <2>7, <3>1, ImageIsTaken
  <2>9. PICK d : ImagesAre(d, o, Append(o.images, i)) /\ g[j + Len(b)] = Between(d, n)
    BY <2>8, Zenon DEF Adds
  <2>10. Append(SubSeq(q, 1, y), i) = SubSeq(q, 1, y + 1)
    BY <1>r, <2>0, <2>i
  <2>11. ImagesAre(d, m, SubSeq(q, 1, y + 1))
    BY <2>6, <2>9, <2>10 DEF ImagesAre
  <2>12. j + Len(b) = k + Len(c)
    <3>a. PICK la \in Nat : la = Len(a)
      OBVIOUS
    <3>b. PICK lb \in Nat : lb = Len(b)
      OBVIOUS
    <3>c. PICK lc : lc = Len(c)
      OBVIOUS
    <3>1. j = k + la /\ lc = la + lb
      BY <2>j, <2>4, <3>a, <3>b, <3>c
    <3>2. j + lb = k + lc
      BY <1>4, <3>1, Sum3
    <3> QED BY <3>2, <3>b, <3>c
  <2>13. g[k + Len(f[y + 1])] = Between(d, n)
    BY <2>9, <2>12, <2>c
  <2> QED BY <2>11, <2>13, Zenon DEF HasImages
<1> HIDE DEF S
<1>7. r \in S
  BY <1>5, <1>6, Induct
<1>8. SubSeq(q, 1, r) = q
  BY <1>r
<1>9. HasImages(m, SubSeq(q, 1, r), n, g[k + Len(f[r])])
  BY <1>7 DEF S
<1> QED BY <1>2, <1>8, <1>9
-----------------------------------------------------------------------------
(* Reading the whole file back.                                            *)

\* The lists that were read so far.
Partly(o, m, S) ==
  /\ o \in Muxes
  /\ \A l \in Lists : o.lists[l] = IF l \in S THEN m.lists[l] ELSE <<>>
  /\ o.canvas = IF "VP8X" \in S /\ m.lists["VP8X"] # <<>>
                THEN m.lists["VP8X"][Len(m.lists["VP8X"])].info.canvas ELSE 0
HasPart(m, S, q, n, t) == \E o : Partly(o, m, S) /\ o.images = q /\ t = Between(o, n)
HasTaken(m, l, s, n, t) == \E o : Takes(o, m, l, s) /\ t = Between(o, n)

\* One more list is read back.
LEMMA PartIsTaken ==
  ASSUME NEW g, NEW z, NEW L, Run(g, z, L), NEW n, n = EndOf(z, L),
         NEW m \in Muxes, NEW S, NEW q, NEW k, HasPart(m, S, q, n, g[k]),
         NEW l \in Lists \ S, NEW s, s = m.lists[l], At(L, k, s)
  PROVE  HasPart(m, S \cup {l}, q, n, g[k + Len(s)])
<1>1. PICK o : Partly(o, m, S) /\ o.images = q /\ g[k] = Between(o, n)
  BY Zenon DEF HasPart
<1>2. o \in Muxes /\ o.lists[l] = <<>>
  BY <1>1 DEF Partly
<1>3. s \in Seq(ChunksOf(l))
  BY DEF Muxes, ListsOfChunks
<1>4. HasTaken(o, l, s, n, g[k + Len(s)])
  BY <1>1, <1>2, <1>3, ListIsTaken DEF HasTaken
<1>5. PICK d : Takes(d, o, l, s) /\ g[k + Len(s)] = Between(d, n)
  BY <1>4, Zenon DEF HasTaken
<1>6. Partly(d, m, S \cup {l})
  <2>1. d \in Muxes /\ d.lists[l] = s /\ \A j \in Lists \ {l} : d.lists[j] = o.lists[j]
    BY <1>5 DEF Takes
  <2>2. ASSUME NEW j \in Lists
        PROVE  d.lists[j] = IF j \in S \cup {l} THEN m.lists[j] ELSE <<>>
    <3>1. CASE j = l
      BY <2>1, <3>1
    <3>2. CASE j # l
      <4>1. d.lists[j] = o.lists[j]
        BY <2>1, <3>2
      <4>2. o.lists[j] = IF j \in S THEN m.lists[j] ELSE <<>>
        BY <1>1 DEF Partly
      <4> QED BY <3>2, <4>1, <4>2
    <3> QED BY <3>1, <3>2
  <2>3. d.canvas = IF l = "VP8X" /\ s # <<>> THEN s[Len(s)].info.canvas ELSE o.canvas
    BY <1>5 DEF Takes
  <2>4. o.canvas = IF "VP8X" \in S /\ m.lists["VP8X"] # <<>>
                   THEN m.lists["VP8X"][Len(m.lists["VP8X"])].info.canvas ELSE 0
    BY <1>1 DEF Partly
  <2>5. d.canvas = IF "VP8X" \in S \cup {l} /\ m.lists["VP8X"] # <<>>
                   THEN m.lists["VP8X"][Len(m.lists["VP8X"])].info.canvas ELSE 0
    <3>1. CASE l = "VP8X"
      BY <2>3, <2>4, <3>1
    <3>2. CASE l # "VP8X"
      BY <2>3, <2>4, <3>2
    <3> QED BY <3>1, <3>2
  <2> QED BY <2>1, <2>2, <2>5 DEF Partly
<1>7. d.images = q
  BY <1>1, <1>5 DEF Takes
<1> QED BY <1>5, <1>6, <1>7 DEF HasPart

\* The images of the object.
LEMMA ImagesPartIsTaken ==
  ASSUME NEW g, NEW z, NEW L, Run(g, z, L), NEW n, n = EndOf(z, L),
         NEW m \in Muxes, m.images # <<>>, \A i \in DOMAIN m.images : Kept(m.images[i]),
         NEW S, NEW k, HasPart(m, S, <<>>, n, g[k]), NEW w, w = ImagesOf(m), At(L, k, w)
  PROVE  HasPart(m, S, m.images, n, g[k + Len(w)])
<1>1. PICK o : Partly(o, m, S) /\ o.images = <<>> /\ g[k] = Between(o, n)
  BY Zenon DEF HasPart
<1>2. o \in Muxes
  BY <1>1 DEF Partly
<1>q. PICK q \in Seq(Images) : q = m.images
  BY DEF Muxes
<1>s. PICK s \in Seq(Seq(Chunks)) : s = [i \in DOMAIN m.images |-> ImageChunks(m.images[i])]
  BY EmittedIsTyped
<1>3. Len(s) = Len(q) /\ DOMAIN q = 1..Len(q) /\ DOMAIN s = 1..Len(s)
  <2>1. DOMAIN s = DOMAIN q
    BY <1>q, <1>s
  <2> QED BY <2>1
<1>4. \A y \in 1..Len(q) : s[y] = ImageChunks(q[y])
  BY <1>q, <1>s, <1>3
<1>5. \A y \in 1..Len(q) : Kept(q[y])
  BY <1>q, <1>3
<1>6. w = FlattenSeq(s)
  BY <1>s DEF ImagesOf
<1>7. HasImages(o, q, n, g[k + Len(w)])
  BY <1>1, <1>2, <1>3, <1>4, <1>5, <1>6, ImagesAreTaken
<1>8. PICK d : ImagesAre(d, o, q) /\ g[k + Len(w)] = Between(d, n)
  BY <1>7, Zenon DEF HasImages
<1>9. d \in Muxes /\ d.lists = o.lists /\ d.canvas = o.canvas /\ d.images = q
  BY <1>8 DEF ImagesAre
<1>10. Partly(d, m, S)
  BY <1>1, <1>9 DEF Partly
<1> QED BY <1>8, <1>9, <1>10, <1>q DEF HasPart

\* The seven parts of a file.
Splits(L, v, s, t, x) == At(L, 0, s) /\ At(L, x, t) /\ Len(v) = x + Len(t)

\* The last of two parts of the file.
LEMMA LastPart ==
  ASSUME NEW L \in Seq(Chunks), NEW s \in Seq(Chunks), NEW t \in Seq(Chunks), NEW v,
         v = s \o t, At(L, 0, v), NEW x, x = Len(s)
  PROVE  Splits(L, v, s, t, x)
<1>1. At(L, 0, s)
  BY ChunksJoined
<1>2. At(L, 0 + Len(s), t)
  BY ChunksJoined
<1>3. 0 + Len(s) = x
  OBVIOUS
<1>4. Len(v) = x + Len(t)
  BY Joined
<1> QED BY <1>1, <1>2, <1>3, <1>4 DEF Splits

\* WebPMuxCreate() on what was written of an object, after its last chunk.
NothingRead(g, n) == g[0] = Between(NewMux, n)

\* Before the first chunk nothing is read.
LEMMA FirstPart ==
  ASSUME NEW m \in Muxes, NEW n,
         NEW g, NothingRead(g, n) PROVE HasPart(m, {}, <<>>, n, g[0])
<1>1. NewMux \in Muxes /\ NewMux.images = <<>> /\ NewMux.canvas = 0
      /\ \A l \in Lists : NewMux.lists[l] = <<>>
  BY NewMuxIsTyped DEF NewMux
<1>2. Partly(NewMux, m, {})
  BY <1>1 DEF Partly
<1> QED BY <1>1, <1>2 DEF HasPart, NothingRead

\* After the last chunk everything is.
LEMMA ObjectIsRead ==
  ASSUME NEW g, NEW z, NEW L, Run(g, z, L), NEW n, n = EndOf(z, L),
         NEW m \in Muxes, m.images # <<>>, \A i \in DOMAIN m.images : Kept(m.images[i]),
         L = FileChunks(m), NothingRead(g, n)
  PROVE  HasPart(m, Lists, m.images, n, g[Len(L)])
<1>1. L \in Seq(Chunks)
  BY DEF Run
<1>2. \A l \in Lists : m.lists[l] \in Seq(Chunks)
  BY DEF Muxes, ListsOfChunks
<1>3. ImagesOf(m) \in Seq(Chunks)
  BY EmittedIsTyped
<1>a. PICK a \in Seq(Chunks) : a = m.lists["VP8X"]
  BY <1>2 DEF Lists, MetadataTags
<1>b. PICK b \in Seq(Chunks) : b = m.lists["ICCP"]
  BY <1>2 DEF Lists, MetadataTags
<1>c. PICK c \in Seq(Chunks) : c = m.lists["ANIM"]
  BY <1>2 DEF Lists, MetadataTags
<1>d. PICK d \in Seq(Chunks) : d = ImagesOf(m)
  BY <1>3
<1>e. PICK e \in Seq(Chunks) : e = m.lists["EXIF"]
  BY <1>2 DEF Lists, MetadataTags
<1>f. PICK f \in Seq(Chunks) : f = m.lists["XMP"]
  BY <1>2 DEF Lists, MetadataTags
<1>h. PICK h \in Seq(Chunks) : h = m.lists["unknown"]
  BY <1>2 DEF Lists, MetadataTags
<1>v1. PICK v1 \in Seq(Chunks) : v1 = a \o b
  BY Joined
<1>v2. PICK v2 \in Seq(Chunks) : v2 = v1 \o c
  BY Joined
<1>v3. PICK v3 \in Seq(Chunks) : v3 = v2 \o d
  BY Joined
<1>v4. PICK v4 \in Seq(Chunks) : v4 = v3 \o e
  BY Joined
<1>v5. PICK v5 \in Seq(Chunks) : v5 = v4 \o f
  BY Joined
<1>4. L = v5 \o h
  BY <1>a, <1>b, <1>c, <1>d, <1>e, <1>f, <1>h, <1>v1, <1>v2, <1>v3, <1>v4, <1>v5
     DEF FileChunks
<1>5. At(L, 0, L)
  <2>1. 0 + Len(L) <= Len(L)
    BY <1>1
  <2>2. \A i \in 1..Len(L) : L[0 + i] = L[i]
    OBVIOUS
  <2> QED BY <2>1, <2>2 DEF At
<1>x6. PICK x6 : x6 = Len(v5)
  OBVIOUS
<1>6. At(L, 0, v5) /\ At(L, x6, h) /\ Len(L) = x6 + Len(h)
  <2>1. At(L, 0, L)
    BY <1>5
  <2>2. Splits(L, L, v5, h, x6)
    BY <1>1, <1>4, <1>x6, <2>1, LastPart
  <2> QED BY <2>2 DEF Splits
<1>x5. PICK x5 : x5 = Len(v4)
  OBVIOUS
<1>7. At(L, 0, v4) /\ At(L, x5, f) /\ Len(v5) = x5 + Len(f)
  <2>1. At(L, 0, v5)
    BY <1>6
  <2>2. Splits(L, v5, v4, f, x5)
    BY <1>1, <1>v5, <1>x5, <2>1, LastPart
  <2> QED BY <2>2 DEF Splits
<1>x4. PICK x4 : x4 = Len(v3)
  OBVIOUS
<1>8. At(L, 0, v3) /\ At(L, x4, e) /\ Len(v4) = x4 + Len(e)
  <2>1. At(L, 0, v4)
    BY <1>7
  <2>2. Splits(L, v4, v3, e, x4)
    BY <1>1, <1>v4, <1>x4, <2>1, LastPart
  <2> QED BY <2>2 DEF Splits
<1>x3. PICK x3 : x3 = Len(v2)
  OBVIOUS
<1>9. At(L, 0, v2) /\ At(L, x3, d) /\ Len(v3) = x3 + Len(d)
  <2>1. At(L, 0, v3)
    BY <1>8
  <2>2. Splits(L, v3, v2, d, x3)
    BY <1>1, <1>v3, <1>x3, <2>1, LastPart
  <2> QED BY <2>2 DEF Splits
<1>x2. PICK x2 : x2 = Len(v1)
  OBVIOUS
<1>10. At(L, 0, v1) /\ At(L, x2, c) /\ Len(v2) = x2 + Len(c)
  <2>1. At(L, 0, v2)
    BY <1>9
  <2>2. Splits(L, v2, v1, c, x2)
    BY <1>1, <1>v2, <1>x2, <2>1, LastPart
  <2> QED BY <2>2 DEF Splits
<1>x1. PICK x1 : x1 = Len(a)
  OBVIOUS
<1>11. At(L, 0, a) /\ At(L, x1, b) /\ Len(v1) = x1 + Len(b)
  <2>1. At(L, 0, v1)
    BY <1>10
  <2>2. Splits(L, v1, a, b, x1)
    BY <1>1, <1>v1, <1>x1, <2>1, LastPart
  <2> QED BY <2>2 DEF Splits
<1>12. HasPart(m, {}, <<>>, n, g[0])
  BY FirstPart
<1>p1. PICK p1 : p1 = {} \cup {"VP8X"}
  OBVIOUS
<1>13. HasPart(m, p1, <<>>, n, g[x1])
  <2>1. "VP8X" \in Lists \ {}
    BY DEF Lists
  <2>2. At(L, 0, a)
    BY <1>11
  <2>3. HasPart(m, {} \cup {"VP8X"}, <<>>, n, g[0 + Len(a)])
    BY <1>12, <1>a, <2>1, <2>2, PartIsTaken
  <2>4. 0 + Len(a) = x1
    BY <1>x1
  <2> QED BY <1>p1, <2>3, <2>4
<1>p2. PICK p2 : p2 = p1 \cup {"ICCP"}
  OBVIOUS
<1>14. HasPart(m, p2, <<>>, n, g[x2])
  <2>1. "ICCP" \in Lists \ p1
    BY <1>p1 DEF Lists, MetadataTags
  <2>2. At(L, x1, b)
    BY <1>11
  <2>3. HasPart(m, p1 \cup {"ICCP"}, <<>>, n, g[x1 + Len(b)])
    BY <1>13, <1>b, <2>1, <2>2, PartIsTaken
  <2>4. g[x2] = g[x1 + Len(b)]
    BY <1>11, <1>x2
  <2> QED BY <1>p2, <2>3, <2>4
<1>p3. PICK p3 : p3 = p2 \cup {"ANIM"}
  OBVIOUS
<1>15. HasPart(m, p3, <<>>, n, g[x3])
  <2>1. "ANIM" \in Lists \ p2
    BY <1>p1, <1>p2 DEF Lists, MetadataTags
  <2>2. At(L, x2, c)
    BY <1>10
  <2>3. HasPart(m, p2 \cup {"ANIM"}, <<>>, n, g[x2 + Len(c)])
    BY <1>14, <1>c, <2>1, <2>2, PartIsTaken
  <2>4. g[x3] = g[x2 + Len(c)]
    BY <1>10, <1>x3
  <2> QED BY <1>p3, <2>3, <2>4
<1>16. HasPart(m, p3, m.images, n, g[x4])
  <2>1. At(L, x3, d)
    BY <1>9
  <2>2. HasPart(m, p3, m.images, n, g[x3 + Len(d)])
    BY <1>15, <1>d, <2>1, ImagesPartIsTaken
  <2>3. g[x4] = g[x3 + Len(d)]
    BY <1>9, <1>x4
  <2> QED BY <2>2, <2>3
<1>p4. PICK p4 : p4 = p3 \cup {"EXIF"}
  OBVIOUS
<1>17. HasPart(m, p4, m.images, n, g[x5])
  <2>1. "EXIF" \in Lists \ p3
    BY <1>p1, <1>p2, <1>p3 DEF Lists, MetadataTags
  <2>2. At(L, x4, e)
    BY <1>8
  <2>3. HasPart(m, p3 \cup {"EXIF"}, m.images, n, g[x4 + Len(e)])
    BY <1>16, <1>e, <2>1, <2>2, PartIsTaken
  <2>4. g[x5] = g[x4 + Len(e)]
    BY <1>8, <1>x5
  <2> QED BY <1>p4, <2>3, <2>4
<1>p5. PICK p5 : p5 = p4 \cup {"XMP"}
  OBVIOUS
<1>18. HasPart(m, p5, m.images, n, g[x6])
  <2>1. "XMP" \in Lists \ p4
    BY <1>p1, <1>p2, <1>p3, <1>p4 DEF Lists, MetadataTags
  <2>2. At(L, x5, f)
    BY <1>7
  <2>3. HasPart(m, p4 \cup {"XMP"}, m.images, n, g[x5 + Len(f)])
    BY <1>17, <1>f, <2>1, <2>2, PartIsTaken
  <2>4. g[x6] = g[x5 + Len(f)]
    BY <1>7, <1>x6
  <2> QED BY <1>p5, <2>3, <2>4
<1>p6. PICK p6 : p6 = p5 \cup {"unknown"}
  OBVIOUS
<1>19. HasPart(m, p6, m.images, n, g[Len(L)])
  <2>1. "unknown" \in Lists \ p5
    BY <1>p1, <1>p2, <1>p3, <1>p4, <1>p5 DEF Lists, MetadataTags
  <2>2. At(L, x6, h)
    BY <1>6
  <2>3. HasPart(m, p5 \cup {"unknown"}, m.images, n, g[x6 + Len(h)])
    BY <1>18, <1>h, <2>1, <2>2, PartIsTaken
  <2>4. g[Len(L)] = g[x6 + Len(h)]
    BY <1>6
  <2> QED BY <1>p6, <2>3, <2>4
<1>20. p6 = Lists
  BY <1>p1, <1>p2, <1>p3, <1>p4, <1>p5, <1>p6 DEF Lists, MetadataTags
<1> QED BY <1>19, <1>20

\* The loop of WebPMuxCreate() goes through a file.
LEMMA FileOfChunks ==
  ASSUME NEW L \in Seq(Chunks), NEW n \in Nat, n = Len(L), NEW z, Sizes(z, L),
         NEW f, f = FileOf(L)
  PROVE  /\ DOMAIN f.chunks = 1..n /\ f.size = EndOf(z, L)
         /\ \A i \in 1..n : f.chunks[i] = Placed(L[i], RiffHeaderSize + z[i - 1])
<1>1. TotalSize(L) = z[n]
  BY TotalSizeIs
<1>2. f.size = EndOf(z, L) /\ DOMAIN f.chunks = 1..n
  BY <1>1 DEF FileOf, EndOf
<1>3. ASSUME NEW i \in 1..n
      PROVE  f.chunks[i] = Placed(L[i], RiffHeaderSize + z[i - 1])
  <2>1. f.chunks[i] = Placed(L[i], RiffHeaderSize + TotalSize(SubSeq(L, 1, i - 1)))
    BY DEF FileOf
  <2>2. i - 1 \in 0..Len(L)
    OBVIOUS
  <2>3. TotalSize(SubSeq(L, 1, i - 1)) = z[i - 1]
    BY <2>2, PrefixSize
  <2> QED BY <2>1, <2>3
<1> QED BY <1>2, <1>3

\* So it does through the file that was written of an object.
ReadsBack(m, f, g, z, L) ==
  /\ Run(g, z, L) /\ f.size = EndOf(z, L) /\ NothingRead(g, f.size)
  /\ ReadAll(Between(NewMux, f.size), f.chunks) = g[Len(L)]

\* There is such a run.
LEMMA WrittenRuns ==
  ASSUME NEW m \in Muxes, m.images # <<>>, NEW L, L = FileChunks(m), NEW f, f = Emitted(m)
  PROVE  \E g, z : ReadsBack(m, f, g, z, L)
<1>1. L \in Seq(Chunks) /\ f = FileOf(L) /\ L # <<>>
  BY EmittedIsTyped
<1>n. PICK n \in Nat : n = Len(L)
  BY <1>1
<1>z. PICK z : Sizes(z, L)
  BY <1>1, <1>n, SizesExist
<1>2. /\ DOMAIN f.chunks = 1..n /\ f.size = EndOf(z, L)
      /\ \A i \in 1..n : f.chunks[i] = Placed(L[i], RiffHeaderSize + z[i - 1])
  BY <1>1, <1>n, <1>z, FileOfChunks
<1>3. IsFile(f)
  BY <1>1, FileOfIsFile
<1>a. PICK a : a = Between(NewMux, f.size)
  OBVIOUS
<1>P. PICK P : IsRead(Readers(P), a, f.chunks, n)
  BY <1>2, <1>3, <1>a, FileIsRead
<1>g. PICK g \in [0..n -> Readers(P)] :
        Read(g, a, f.chunks, n) /\ ReadAll(a, f.chunks) = g[n]
  BY <1>P DEF IsRead
<1>4. g[0] = a /\ \A i \in 1..n : g[i] = ReadChunk(g[i - 1], f.chunks[i])
  BY <1>g DEF Read
<1>5. \A i \in 1..Len(L) :
        g[i] = ReadChunk(g[i - 1], Placed(L[i], RiffHeaderSize + z[i - 1]))
  BY <1>2, <1>4, <1>n
<1>6. Run(g, z, L)
  BY <1>1, <1>z, <1>5 DEF Run
<1>7. NothingRead(g, f.size)
  BY <1>4, <1>a DEF NothingRead
<1>8. ReadAll(Between(NewMux, f.size), f.chunks) = g[Len(L)]
  BY <1>g, <1>a, <1>n
<1> QED BY <1>2, <1>6, <1>7, <1>8 DEF ReadsBack

\* What is valid stays so with the canvas of its file.
CanvasOf(m) == IF m.lists["VP8X"] = <<>> THEN 0 ELSE m.lists["VP8X"][1].info.canvas
HeaderIsTrue(m) == m.lists["VP8X"] # <<>> => m.lists["VP8X"][1].info.canvas = Canvas(m)

\* It is valid with it.
LEMMA ValidStays ==
  ASSUME NEW m \in Muxes, Valid(m), HeaderIsTrue(m),
         NEW o, o = [m EXCEPT !.canvas = CanvasOf(m)]
  PROVE  Valid(o)
<1>1. o.lists = m.lists /\ o.images = m.images /\ o.canvas = CanvasOf(m)
  BY DEF Muxes
<1>2. /\ Features(o) = Features(m) /\ NumFrames(o) = NumFrames(m)
      /\ (MuxHasAlpha(o) <=> MuxHasAlpha(m))
  BY <1>1 DEF Features, NumFrames, MuxHasAlpha
<1>3. Len(m.images) = 1 /\ m.canvas \in {0, m.images[1].width} =>
        o.canvas \in {0, o.images[1].width}
  BY <1>1 DEF HeaderIsTrue, CanvasOf, Canvas, TightCanvas
<1> QED BY <1>1, <1>2, <1>3 DEF Valid

\* The first chunk of what is written.
LEMMA FirstJoined ==
  ASSUME NEW s \in Seq(Chunks), NEW t \in Seq(Chunks), s # <<>>
  PROVE  s \o t # <<>> /\ (s \o t)[1] = s[1]
OBVIOUS

\* An object that has images writes a chunk of them.
LEMMA ImagesAreLonger ==
  ASSUME NEW m \in Muxes, m.images # <<>> PROVE Len(ImagesOf(m)) > 0
<1>s. PICK s \in Seq(Seq(Chunks)) : s = [j \in DOMAIN m.images |-> ImageChunks(m.images[j])]
  BY EmittedIsTyped
<1>1. m.images \in Seq(Images) /\ Len(m.images) # 0
  BY EmptySeq DEF Muxes
<1>n. PICK n \in Nat : n = Len(m.images)
  BY <1>1
<1>2. DOMAIN m.images = 1..n /\ n \in 1..n /\ DOMAIN s = 1..n
  BY <1>1, <1>s, <1>n
<1>3. Len(s) = n
  BY <1>2
<1>4. m.images[n] \in Images
  BY <1>1, <1>2, <1>n, ElementOfSeq
<1>5. s[n] = ImageChunks(m.images[n])
  BY <1>2, <1>s
<1>6. Len(s[n]) > 0
  BY <1>4, <1>5, ImageChunksIs
<1>7. Len(FlattenSeq(s)) > 0
  BY <1>2, <1>3, <1>6, FlattenIsLonger
<1> QED BY <1>7, <1>s DEF ImagesOf

\* Without an ALPH, the bitstream is first.
LEMMA BitsAreFirst ==
  ASSUME NEW L \in Seq(Chunks), NEW i \in Images, ~i.alph, At(L, 0, Inside(i))
  PROVE  L[1] = BitsOf(i)
<1>k. PICK k : k = 0
  OBVIOUS
<1>x. PICK x : x = Len(AlphOf(i))
  OBVIOUS
<1>u. PICK u : u = Len(i.unknown)
  OBVIOUS
<1>1. At(L, k, Inside(i))
  BY <1>k
<1>2. L[(k + x) + 1] = BitsOf(i)
  BY <1>1, <1>x, <1>u, PartsOfImage
<1>3. x = 0
  BY <1>x DEF AlphOf
<1>4. (k + x) + 1 = 1
  BY <1>k, <1>3
<1> QED BY <1>2, <1>4

\* The first image of an object is first of all.
LEMMA FirstImage ==
  ASSUME NEW m \in Muxes, m.images # <<>>, NEW i, i = m.images[1], ~HasHeader(i), ~i.alph,
         NEW d, d = ImagesOf(m)
  PROVE  d[1] = BitsOf(i) /\ i \in Images
<1>q. PICK q \in Seq(Images) : q = m.images
  BY DEF Muxes
<1>s. PICK s \in Seq(Seq(Chunks)) : s = [j \in DOMAIN m.images |-> ImageChunks(m.images[j])]
  BY EmittedIsTyped
<1>r. PICK r \in Nat : r = Len(s)
  OBVIOUS
<1>1. 1 \in 1..r /\ 1 \in 1..Len(q) /\ s[1] = ImageChunks(i)
  <2>1. DOMAIN s = DOMAIN q /\ DOMAIN s = 1..r /\ DOMAIN q = 1..Len(q)
    BY <1>q, <1>s, <1>r
  <2>2. Len(q) # 0 /\ Len(q) \in Nat
    BY <1>q, EmptySeq
  <2>3. 1 \in 1..Len(q)
    BY <2>2
  <2> QED BY <1>s, <2>1, <2>3
<1>2. i \in Images
  BY <1>q, <1>1, ElementOfSeq
<1>f. PICK f \in [0..r -> Seq(Chunks)] : Joins(f, s)
  BY <1>r, JoinsExist
<1>3. d = f[r] /\ d \in Seq(Chunks)
  <2>1. d = FlattenSeq(s)
    BY <1>s DEF ImagesOf
  <2> QED BY <1>r, <1>f, <2>1, FlattenIs
<1>4. At(d, 0, f[r])
  <2>1. 0 + Len(d) <= Len(d) /\ \A j \in 1..Len(d) : d[0 + j] = d[j]
    BY <1>3
  <2> QED BY <1>3, <2>1 DEF At
<1>5. At(d, 0 + Len(f[1 - 1]), s[1])
  BY <1>1, <1>3, <1>4, <1>r, <1>f, PrefixesAt
<1>6. 0 + Len(f[1 - 1]) = 0
  <2>1. f[1 - 1] = <<>>
    BY <1>f DEF Joins
  <2> QED BY <2>1
<1>7. At(d, 0, Inside(i))
  BY <1>1, <1>2, <1>5, <1>6, ImageChunksIs
<1>8. d[1] = BitsOf(i)
  BY <1>2, <1>3, <1>7, BitsAreFirst
<1> QED BY <1>2, <1>8

\* It is the VP8X or that of an image.
LEMMA FirstTag ==
  ASSUME NEW m \in Muxes, Valid(m), NEW L, L = FileChunks(m)
  PROVE  L[1].tag \in ImageTags \cup {"VP8X"}
<1>0. m.images # <<>>
  BY DEF Valid
<1>1. \A l \in Lists : m.lists[l] \in Seq(Chunks)
  BY DEF Muxes, ListsOfChunks
<1>2. ImagesOf(m) \in Seq(Chunks) /\ L # <<>>
  BY <1>0, EmittedIsTyped
<1>a. PICK a \in Seq(Chunks) : a = m.lists["VP8X"]
  BY <1>1 DEF Lists
<1>b. PICK b \in Seq(Chunks) : b = m.lists["ICCP"]
  BY <1>1 DEF Lists, MetadataTags
<1>c. PICK c \in Seq(Chunks) : c = m.lists["ANIM"]
  BY <1>1 DEF Lists
<1>d. PICK d \in Seq(Chunks) : d = ImagesOf(m)
  BY <1>2
<1>e. PICK e \in Seq(Chunks) : e = m.lists["EXIF"]
  BY <1>1 DEF Lists, MetadataTags
<1>f. PICK f \in Seq(Chunks) : f = m.lists["XMP"]
  BY <1>1 DEF Lists, MetadataTags
<1>h. PICK h \in Seq(Chunks) : h = m.lists["unknown"]
  BY <1>1 DEF Lists
<1>v1. PICK v1 \in Seq(Chunks) : v1 = a \o b
  BY Joined
<1>v2. PICK v2 \in Seq(Chunks) : v2 = v1 \o c
  BY Joined
<1>v3. PICK v3 \in Seq(Chunks) : v3 = v2 \o d
  BY Joined
<1>v4. PICK v4 \in Seq(Chunks) : v4 = v3 \o e
  BY Joined
<1>v5. PICK v5 \in Seq(Chunks) : v5 = v4 \o f
  BY Joined
<1>3. L = v5 \o h
  BY <1>a, <1>b, <1>c, <1>d, <1>e, <1>f, <1>h, <1>v1, <1>v2, <1>v3, <1>v4, <1>v5
     DEF FileChunks
<1>4. v3 # <<>> => L[1] = v3[1]
  <2>1. v3 # <<>> => v4 # <<>> /\ v4[1] = v3[1]
    BY <1>v4, FirstJoined
  <2>2. v4 # <<>> => v5 # <<>> /\ v5[1] = v4[1]
    BY <1>v5, FirstJoined
  <2>3. v5 # <<>> => L[1] = v5[1]
    BY <1>3, FirstJoined
  <2> QED BY <2>1, <2>2, <2>3
<1>5. CASE a # <<>>
  <2>1. v1 # <<>> /\ v1[1] = a[1]
    BY <1>5, <1>v1, FirstJoined
  <2>2. v2 # <<>> /\ v2[1] = v1[1]
    BY <1>v2, <2>1, FirstJoined
  <2>3. v3 # <<>> /\ v3[1] = v2[1]
    BY <1>v3, <2>2, FirstJoined
  <2>4. a[1].tag = "VP8X"
    <3>1. a \in Seq(ChunksOf("VP8X"))
      BY <1>a DEF Muxes, ListsOfChunks, Lists
    <3>2. Len(a) # 0 /\ Len(a) \in Nat
      BY <1>5, EmptySeq
    <3>3. 1 \in 1..Len(a)
      BY <3>2
    <3>4. a[1] \in ChunksOf("VP8X")
      BY <3>1, <3>3, ElementOfSeq
    <3> QED BY <3>4 DEF ChunksOf, TagsOf
  <2> QED BY <1>4, <2>1, <2>2, <2>3, <2>4
<1>6. CASE a = <<>>
  <2>1. Features(m) \subseteq {"ALPHA"}
    BY <1>6, <1>a DEF Features
  <2>2. Len(b) = 0
    <3>1. "ICCP" \in MetadataTags /\ "ICCP" \notin Features(m)
      BY <2>1 DEF MetadataTags
    <3> QED BY <1>b, <3>1 DEF Valid
  <2>3. c = <<>> /\ NumFrames(m) = 0
    <3>1. "ANIMATION" \notin Features(m)
      BY <2>1
    <3> QED BY <1>c, <3>1 DEF Valid
  <2>4. b = <<>>
    BY <2>2, EmptySeq
  <2>5. v3 = d
    <3>1. v1 = <<>>
      BY <1>6, <1>v1, <2>4, Joined
    <3>2. v2 = <<>>
      BY <1>v2, <2>3, <3>1, Joined
    <3> QED BY <1>v3, <3>2, Joined
  <2>6. 1 \in DOMAIN m.images
    <3>1. Len(m.images) # 0 /\ Len(m.images) \in Nat /\ DOMAIN m.images = 1..Len(m.images)
      BY <1>0, EmptySeq DEF Muxes
    <3> QED BY <3>1
  <2>i. PICK i : i = m.images[1]
    OBVIOUS
  <2>7. ~HasHeader(i)
    BY <2>3, <2>6, <2>i, FramesCounted
  <2>8. ~i.alph
    <3>1. i \in Images
      BY <2>6, <2>i, ElementOfSeq DEF Muxes
    <3>2. i.alph => i.hasAlpha
      BY <3>1 DEF Images, ImageFields
    <3>3. i.alph => MuxHasAlpha(m)
      BY <2>6, <2>i, <3>2 DEF MuxHasAlpha
    <3>4. MuxHasAlpha(m) => ~i.alph
      BY <1>6, <1>a, <2>6, <2>i DEF Valid
    <3> QED BY <3>3, <3>4
  <2>9. d[1] = BitsOf(i) /\ i \in Images
    BY <1>0, <1>d, <2>7, <2>8, <2>i, FirstImage
  <2>10. d[1].tag \in ImageTags
    BY <2>9, InsideIsTyped
  <2>11. v3 # <<>>
    <3>1. Len(d) > 0
      BY <1>0, <1>d, ImagesAreLonger
    <3> QED BY <2>5, <3>1
  <2> QED BY <1>4, <2>5, <2>10, <2>11
<1> QED BY <1>5, <1>6

\* An object that has all lists of m, and its images, is m with the canvas of
\* its file.
LEMMA AllIsBack ==
  ASSUME NEW m \in Muxes, Valid(m), NEW o, Partly(o, m, Lists), o.images = m.images
  PROVE  o = [m EXCEPT !.canvas = CanvasOf(m)]
<1>1. o \in Muxes /\ \A l \in Lists : o.lists[l] = m.lists[l]
  BY DEF Partly
<1>2. o.canvas = CanvasOf(m)
  <2>v. PICK v \in Seq(Chunks) : v = m.lists["VP8X"]
    BY DEF Muxes, ListsOfChunks, Lists
  <2>1. Len(v) <= 1
    BY <2>v DEF Valid
  <2>2. v # <<>> => Len(v) = 1
    BY <2>1
  <2>3. "VP8X" \in Lists
    BY DEF Lists
  <2>4. o.canvas = IF v # <<>> THEN v[Len(v)].info.canvas ELSE 0
    BY <2>v, <2>3 DEF Partly
  <2>5. CanvasOf(m) = IF v # <<>> THEN v[1].info.canvas ELSE 0
    BY <2>v DEF CanvasOf
  <2> QED BY <2>2, <2>4, <2>5
<1>n. PICK n : n = [m EXCEPT !.canvas = CanvasOf(m)]
  OBVIOUS
<1>3. CanvasOf(m) \in Nat
  BY <1>1, <1>2 DEF Muxes
<1>4. n \in Muxes /\ n.canvas = CanvasOf(m) /\ n.lists = m.lists /\ n.images = m.images
  BY <1>n, <1>3, CanvasChanged
<1>5. o = n
  BY <1>1, <1>2, <1>4, SameObject
<1> QED BY <1>n, <1>5

\* WebPMuxCreate() on a file after its last chunk.
LEMMA CreateIs ==
  ASSUME NEW f, NEW o, ReadAll(Between(NewMux, f.size), f.chunks) = Between(o, f.size),
         Valid(o), f.chunks # <<>>, f.chunks[1].tag \in ImageTags \cup {"VP8X"}
  PROVE  Create(f) = <<o>>
<1>s. PICK s : s = Between(o, f.size)
  OBVIOUS
<1>1. /\ s.mux = o /\ s.ok /\ s.inside = 0 /\ s.wpi.partial = FALSE
  BY <1>s DEF Between, Midway, NoImage
<1>2. FoldLeft(ReadChunk, [mux |-> NewMux, wpi |-> NoImage, inside |-> 0,
                           size |-> f.size, ok |-> TRUE], f.chunks) = s
  BY <1>s DEF ReadAll, Between, Midway
<1> QED BY <1>1, <1>2 DEF Create

\* What was written of a valid object begins with a chunk of an image or VP8X.
LEMMA FirstWritten ==
  ASSUME NEW m \in Muxes, Valid(m), NEW f, f = Emitted(m)
  PROVE  f.chunks # <<>> /\ f.chunks[1].tag \in ImageTags \cup {"VP8X"}
<1>L. PICK L : L = FileChunks(m)
  OBVIOUS
<1>0. m.images # <<>>
  BY DEF Valid
<1>1. L \in Seq(Chunks) /\ f = FileOf(L) /\ L # <<>>
  BY <1>0, <1>L, EmittedIsTyped
<1>n. PICK n \in Nat : n = Len(L)
  BY <1>1
<1>2. 1 \in 1..n
  BY <1>1, <1>n, EmptySeq
<1>z. PICK z : Sizes(z, L)
  BY <1>1, <1>n, SizesExist
<1>3. /\ DOMAIN f.chunks = 1..n
      /\ \A i \in 1..n : f.chunks[i] = Placed(L[i], RiffHeaderSize + z[i - 1])
  BY <1>1, <1>n, <1>z, FileOfChunks
<1>4. f.chunks # <<>>
  <2>1. DOMAIN <<>> = {}
    OBVIOUS
  <2> QED BY <1>2, <1>3, <2>1
<1>5. f.chunks[1].tag = L[1].tag
  <2>1. f.chunks[1] = Placed(L[1], RiffHeaderSize + z[1 - 1])
    BY <1>2, <1>3
  <2> QED BY <2>1 DEF Placed
<1>6. L[1].tag \in ImageTags \cup {"VP8X"}
  BY <1>L, FirstTag
<1> QED BY <1>4, <1>5, <1>6

\* WebPMuxCreate() on what was written of a valid object.
LEMMA CreateIsBack ==
  ASSUME NEW m \in Muxes, Valid(m), HeaderIsTrue(m),
         \A i \in DOMAIN m.images : Kept(m.images[i])
  PROVE  Create(Emitted(m)) = <<[m EXCEPT !.canvas = CanvasOf(m)]>>
<1>f. PICK f : f = Emitted(m)
  OBVIOUS
<1>L. PICK L : L = FileChunks(m)
  OBVIOUS
<1>0. m.images # <<>>
  BY DEF Valid
<1>r. PICK g, z : ReadsBack(m, f, g, z, L)
  BY <1>0, <1>f, <1>L, WrittenRuns
<1>1. Run(g, z, L) /\ f.size = EndOf(z, L) /\ NothingRead(g, f.size)
  BY <1>r DEF ReadsBack
<1>2. ReadAll(Between(NewMux, f.size), f.chunks) = g[Len(L)]
  BY <1>r DEF ReadsBack
<1>3. HasPart(m, Lists, m.images, f.size, g[Len(L)])
  BY <1>0, <1>1, <1>L, ObjectIsRead
<1>o. PICK o : Partly(o, m, Lists) /\ o.images = m.images /\ g[Len(L)] = Between(o, f.size)
  BY <1>3 DEF HasPart
<1>4. o = [m EXCEPT !.canvas = CanvasOf(m)]
  BY <1>o, AllIsBack
<1>5. Valid(o)
  BY <1>4, ValidStays
<1>6. f.chunks # <<>> /\ f.chunks[1].tag \in ImageTags \cup {"VP8X"}
  BY <1>f, FirstWritten
<1>7. ReadAll(Between(NewMux, f.size), f.chunks) = Between(o, f.size)
  BY <1>2, <1>o
<1>8. Create(f) = <<o>>
  BY <1>5, <1>6, <1>7, CreateIs
<1> QED BY <1>f, <1>4, <1>8

\* What was written of an object: it is valid, and its VP8X has its canvas.
IsWritten(m, f) == m \in Muxes /\ f = Emitted(m) /\ Valid(m) /\ HeaderIsTrue(m)
WrittenInv == Written => IsWritten(mux, file)

\* What CreateVP8XChunk() succeeds with has the canvas that its VP8X tells.
LEMMA HeaderBecomesTrue ==
  ASSUME NEW c \in Muxes, ChainIsFrames(c), WithVP8X(c).err = "OK",
         NEW n, n = WithVP8X(c).mux
  PROVE  n \in Muxes /\ HeaderIsTrue(n)
<1>1. c.images # <<>>
  BY WithVP8XIs
<1>2. n = WithoutVP8X(c) \/ n = Set(WithoutVP8X(c), HeaderOf(c))
  BY <1>1, WithVP8XIs
<1>3. CASE n = WithoutVP8X(c)
  <2>1. Without8X(n, c)
    BY <1>3, WithVP8XIs
  <2> QED BY <2>1 DEF Without8X, ListIs, HeaderIsTrue
<1>4. CASE n = Set(WithoutVP8X(c), HeaderOf(c))
  <2>1. With8X(n, c)
    BY <1>1, <1>4, WithVP8XIs
  <2>h. PICK h : h = HeaderOf(c)
    OBVIOUS
  <2>2. h.info.canvas = Canvas(c)
    BY <2>h DEF HeaderOf, ChunkOf
  <2>3. n \in Muxes /\ n.images = c.images /\ n.canvas = c.canvas /\ n.lists["VP8X"] = <<h>>
    BY <2>1, <2>h DEF With8X, ListIs
  <2>4. Canvas(n) = Canvas(c)
    BY <2>3 DEF Canvas, TightCanvas
  <2>5. n.lists["VP8X"][1] = h
    BY <2>3
  <2> QED BY <2>2, <2>3, <2>4, <2>5 DEF HeaderIsTrue
<1> QED BY <1>2, <1>3, <1>4

\* WebPMuxAssemble()
LEMMA AssembleWrites ==
  ASSUME NEW m \in Muxes, m = mux, Assemble
  PROVE  WrittenInv'
<1>c. PICK c \in Muxes : c = Cleanup(m)
  BY CleanupIsTyped
<1>1. ChainIsFrames(c)
  BY <1>c DEF Assemble
<1>v. PICK v : v = WithVP8X(c)
  OBVIOUS
<1>a. PICK a : a = Assembled(m)
  OBVIOUS
<1>2. a.mux = v.mux /\ (a.err = "OK" => v.err = "OK" /\ Valid(v.mux))
  BY <1>c, <1>v, <1>a DEF Assembled
<1>3. CASE /\ mux' = a.mux /\ result' = a.err
           /\ file' = (IF a.err = "OK" THEN Emitted(a.mux) ELSE NoFile)
  <2>1. CASE a.err = "OK"
    <3>1. v.mux \in Muxes /\ HeaderIsTrue(v.mux)
      BY <1>1, <1>2, <1>v, <2>1, HeaderBecomesTrue
    <3>2. mux' = v.mux /\ file' = Emitted(v.mux)
      BY <1>2, <1>3, <2>1
    <3>3. IsWritten(v.mux, Emitted(v.mux))
      BY <1>2, <2>1, <3>1 DEF IsWritten
    <3>4. IsWritten(mux', file')
      BY <3>2, <3>3
    <3> QED BY <3>4 DEF WrittenInv, IsWritten
  <2>2. CASE a.err # "OK"
    BY <1>3, <2>2 DEF WrittenInv, Written
  <2> QED BY <2>1, <2>2
<1>4. CASE \E n : Return(n, "MEMORY")
  BY <1>4 DEF Return, WrittenInv, Written
<1> QED BY <1>3, <1>4, <1>c, <1>v, <1>a DEF Assemble

\* The other calls take the file away.
LEMMA OthersWriteNothing ==
  ASSUME MuxNext, ~Assemble PROVE WrittenInv'
<1>1. file' = NoFile
  BY DEF MuxNext, SetChunk, DeleteChunk, SetImage, PushFrame, DeleteFrame, SetCanvasSize,
         SetAnimationParams, Reopen, Return
<1> QED BY <1>1 DEF WrittenInv, Written

\* Nobody writes the file while it is parsed.
LEMMA ParseKeepsFile == ASSUME Parse PROVE file' = file /\ mux' = mux /\ result' = result
BY DEF Parse, DemuxNext, DemuxOpen, ReadHeader, ParseVP8X, ParseSimple, NotWebP, StoreFails,
       StoreAlpha, StoreImage, EndOfFrame, FrameStored, ImageStored, BadChunk, ParseImage,
       ParseAnimationFrame, SkipChunk, DemuxDelete

\* Every step keeps what was written true.
LEMMA WrittenStep == ASSUME mux \in Muxes, WrittenInv, [Next]_vars PROVE WrittenInv'
<1>1. CASE Edit
  BY <1>1, AssembleWrites, OthersWriteNothing DEF Edit
<1>2. CASE file' = file /\ mux' = mux /\ result' = result
  <2>1. IsWritten(mux, file) => IsWritten(mux', file')
    BY <1>2
  <2> QED BY <1>2, <2>1 DEF WrittenInv, Written
<1> QED BY <1>1, <1>2, ParseKeepsFile DEF Next, vars

\* WebPMuxCreate() accepts what WebPMuxAssemble() wrote, and rebuilds the object.
THEOREM WrittenIsReadHolds == Spec => []WrittenIsRead
<1>1. Init => WrittenInv
  BY DEF Init, WrittenInv, Written
<1>2. Inv /\ WrittenInv /\ [Next]_vars => WrittenInv'
  BY WrittenStep DEF Inv
<1>3. WrittenInv => WrittenIsRead
  <2> SUFFICES ASSUME WrittenInv, Written,
                      \A i \in DOMAIN mux.images :
                        HasHeader(mux.images[i]) \/ mux.images[i].unknown = <<>>
               PROVE  Create(file) = <<[mux EXCEPT !.canvas = CanvasOf(mux)]>>
    BY DEF WrittenIsRead, CanvasOf
  <2>m. PICK m \in Muxes : m = mux /\ file = Emitted(m) /\ Valid(m) /\ HeaderIsTrue(m)
    BY DEF WrittenInv, IsWritten
  <2>1. \A i \in DOMAIN m.images : Kept(m.images[i])
    BY <2>m DEF Kept
  <2>2. Create(Emitted(m)) = <<[m EXCEPT !.canvas = CanvasOf(m)]>>
    BY <2>m, <2>1, CreateIsBack
  <2> QED BY <2>m, <2>2
<1> QED BY <1>1, <1>2, <1>3, InvHolds, PTL DEF Spec
=============================================================================
