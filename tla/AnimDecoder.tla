----------------------------- MODULE AnimDecoder -----------------------------
(***************************************************************************)
(* WebPAnimDecoder (src/demux/anim_decode.c).  It does not compose every   *)
(* frame on the whole history: it keeps the last canvas with its frame     *)
(* disposed of, starts from an empty canvas when it finds that the frame   *)
(* does not depend on the previous ones, and blends only the part of the   *)
(* frame that was not just cleared.  A call may fail and be made again,    *)
(* and WebPAnimDecoderReset() may come at any time.                        *)
(*                                                                         *)
(* The frame that WebPDemuxGetFrame() returns is any member of Frames, so  *)
(* the model plays every file of FrameCount frames at once.                *)
(***************************************************************************)
EXTENDS AnimCanvas

CONSTANTS
  Frames,     \* the frames a file may hold
  FrameCount  \* info_.frame_count

Rects == {r \in [x : Pixels, w : 1..Width] : r.x + r.w <= Width}

\* A frame has the rectangle [x, w]; alpha is the has_alpha of its bitstream.
ASSUME FramesAssumption ==
  /\ FrameCount \in Nat
  /\ \A f \in Frames :
       /\ \E r \in Rects : f.x = r.x /\ f.w = r.w
       /\ f.pix \in [In(f) -> Seq(Layers)]
       /\ f.blend \in BOOLEAN /\ f.dispose \in BOOLEAN /\ f.alpha \in BOOLEAN
       /\ f.dur \in Nat
       /\ f.alpha \/ \A i \in In(f) : Opaque(f.pix[i])

VARIABLES
  nextFrame,  \* next_frame_
  prevIter,   \* prev_iter_: the rectangle and disposal of the last frame
  prevKey,    \* prev_frame_was_keyframe_
  curr,       \* curr_frame_
  disposed,   \* prev_frame_disposed_
  prevTime,   \* prev_frame_timestamp_
  out         \* the canvas of the last successful WebPAnimDecoderGetNext()

vars == <<nextFrame, prevIter, prevKey, curr, disposed, prevTime, out>>

NoIter == [x |-> 0, w |-> 0, dispose |-> FALSE]

TypeOK ==
  /\ nextFrame \in 1..FrameCount + 1
  /\ prevIter = NoIter \/ \E f \in Frames :
       prevIter = [x |-> f.x, w |-> f.w, dispose |-> f.dispose]
  /\ prevKey \in BOOLEAN
  /\ curr \in [Pixels -> Seq(Layers)] /\ disposed \in [Pixels -> Seq(Layers)]
  /\ out \in [Pixels -> Seq(Layers)]
  /\ prevTime \in Nat

\* WebPAnimDecoderNew()
Init ==
  /\ nextFrame = 1 /\ prevIter = NoIter /\ prevKey = FALSE
  /\ curr = Blank /\ disposed = Blank /\ out = Blank /\ prevTime = 0

\* WebPAnimDecoderHasMoreFrames()
HasMoreFrames == nextFrame <= FrameCount

IsFullFrame(r) == r.w = Width

\* Nothing is left of the canvas.
AnyDisposal == prevIter.dispose                                       \* (faulty)
CanvasCleared == prevIter.dispose /\ (IsFullFrame(prevIter) \/ prevKey)

IsKeyFrame(f) ==
  \/ nextFrame = 1
  \/ (~f.alpha \/ ~f.blend) /\ IsFullFrame(f)
  \/ CanvasCleared

\* The canvas the frame is decoded on.
Base(f) == IF IsKeyFrame(f) THEN Blank ELSE disposed

\* WebPDecode() writes the first n pixels of the frame: all, if it succeeds.
Decode(canvas, f, n) ==
  [i \in Pixels |-> IF i \in f.x..f.x + n - 1 THEN f.pix[i] ELSE canvas[i]]

\* The pixels of src before and after those of dst.
FindBlendRange(src, dst) ==
  IF src.x >= dst.x + dst.w \/ src.x + src.w <= dst.x
    THEN In(src)
    ELSE src.x..dst.x - 1 \cup dst.x + dst.w..src.x + src.w - 1

BlendRange(f) ==
  IF ~f.blend \/ IsKeyFrame(f) THEN {}
  ELSE IF prevIter.dispose THEN FindBlendRange(f, prevIter) ELSE In(f)

GetNext(f) ==
  LET decoded == Decode(Base(f), f, f.w) IN
  /\ HasMoreFrames
  /\ curr' = [i \in Pixels |->
                IF i \in BlendRange(f) THEN Over(decoded[i], disposed[i])
                                       ELSE decoded[i]]
  /\ out' = curr'
  /\ prevTime' = prevTime + f.dur
  /\ prevIter' = [x |-> f.x, w |-> f.w, dispose |-> f.dispose]
  /\ prevKey' = IsKeyFrame(f)
  /\ disposed' = Dispose(curr', f)
  /\ nextFrame' = nextFrame + 1

\* A decoding error leaves a partial frame in the buffer; the same frame may
\* be asked for again.
GetNextFails(f) ==
  /\ HasMoreFrames
  /\ \E n \in 0..f.w - 1 : curr' = Decode(Base(f), f, n)
  /\ UNCHANGED <<nextFrame, prevIter, prevKey, disposed, prevTime, out>>

\* The canvases keep what they hold.
Reset ==
  /\ prevTime' = 0 /\ prevIter' = NoIter /\ prevKey' = FALSE /\ nextFrame' = 1
  /\ UNCHANGED <<curr, disposed, out>>

Next == Reset \/ \E f \in Frames : GetNext(f) \/ GetNextFails(f)

Spec == Init /\ [][Next]_vars

------------------------------------------------------------------------------
(* What a key frame may rely on.                                           *)

\* What is kept of the last frame: nothing within its rectangle if it is to
\* be disposed of, nothing outside it if it was a key frame.  IsKeyFrame()
\* and FindBlendRangeAtRow() draw from these two facts that a canvas, or a
\* part of it, is empty.
KeptCanvas ==
  /\ prevIter.dispose => \A i \in In(prevIter) : disposed[i] = Transparent
  /\ prevKey => \A i \in Pixels \ In(prevIter) : disposed[i] = Transparent

\* Every canvas returned, and its timestamp, is the one obtained by composing
\* all the frames since the first: the shortcuts of WebPAnimDecoderGetNext(),
\* its failures and WebPAnimDecoderReset() make no difference.
Player == INSTANCE AnimPlayer WITH
  shown <- out,
  below <- IF nextFrame = 1 THEN Blank ELSE disposed,
  time  <- prevTime

PlaysAsSpecified == Player!Spec
=============================================================================
