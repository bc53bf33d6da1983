-------------------------- MODULE AnimDecoder_proofs --------------------------
(***************************************************************************)
(* For canvases of any width, files of any length and any frames, what     *)
(* WebPAnimDecoder returns is what AnimPlayer shows.  The inductive        *)
(* invariant is the type invariant with KeptCanvas, which says what the    *)
(* decoder may rely on when it starts from an empty canvas, or leaves a    *)
(* part of a frame unblended.                                              *)
(***************************************************************************)
EXTENDS AnimDecoder, SequenceTheorems, TLAPS

IInv == TypeOK /\ KeptCanvas

------------------------------------------------------------------------------
(* Colours and rectangles                                                  *)

\* Blending over nothing, or blending an opaque colour, gives the colour.
LEMMA OverFacts ==
  ASSUME NEW c \in Seq(Layers), NEW d \in Seq(Layers)
  PROVE  /\ Over(c, d) \in Seq(Layers)
         /\ Over(c, Transparent) = c
         /\ Opaque(c) => Over(c, d) = c
<1>1. c \o <<>> = c
  BY ConcatEmptySeq
<1>2. c \o d \in Seq(Layers)
  BY ConcatProperties
<1> QED
  BY <1>1, <1>2 DEF Over, Transparent

\* The members of a frame.
LEMMA FrameFacts ==
  ASSUME NEW f \in Frames
  PROVE  /\ f.x \in Nat /\ f.w \in Nat /\ f.x + f.w <= Width
         /\ In(f) \subseteq Pixels /\ (IsFullFrame(f) => In(f) = Pixels)
         /\ \A i \in In(f) : f.pix[i] \in Seq(Layers)
         /\ f.dispose \in BOOLEAN /\ f.blend \in BOOLEAN /\ f.dur \in Nat
         /\ f.alpha \/ \A i \in In(f) : Opaque(f.pix[i])
<1>1. PICK r \in Rects : f.x = r.x /\ f.w = r.w
  BY FramesAssumption
<1>2. f.x \in Nat /\ f.w \in Nat /\ f.x + f.w <= Width
  BY <1>1, WidthAssumption DEF Rects, Pixels
<1>3. In(f) \subseteq Pixels /\ (IsFullFrame(f) => In(f) = Pixels)
  BY <1>2, WidthAssumption DEF In, Pixels, IsFullFrame
<1>4. /\ f.pix \in [In(f) -> Seq(Layers)]
      /\ f.dispose \in BOOLEAN /\ f.blend \in BOOLEAN /\ f.dur \in Nat
      /\ f.alpha \/ \A i \in In(f) : Opaque(f.pix[i])
  BY FramesAssumption
<1> QED
  BY <1>2, <1>3, <1>4

\* The rectangle of the last frame lies in the canvas.
LEMMA IterFacts ==
  ASSUME TypeOK
  PROVE  /\ prevIter.x \in Nat /\ prevIter.w \in Nat /\ In(prevIter) \subseteq Pixels
         /\ IsFullFrame(prevIter) => In(prevIter) = Pixels
<1>1. CASE prevIter = NoIter
  BY <1>1, WidthAssumption DEF NoIter, In, Pixels, IsFullFrame
<1>2. CASE \E f \in Frames : prevIter = [x |-> f.x, w |-> f.w, dispose |-> f.dispose]
  <2>1. PICK f \in Frames : prevIter = [x |-> f.x, w |-> f.w, dispose |-> f.dispose]
    BY <1>2
  <2>2. prevIter.x = f.x /\ prevIter.w = f.w /\ In(prevIter) = In(f)
        /\ (IsFullFrame(prevIter) <=> IsFullFrame(f))
    BY <2>1 DEF In, IsFullFrame
  <2> QED
    BY <2>2, FrameFacts
<1> QED
  BY <1>1, <1>2 DEF TypeOK

\* What FindBlendRangeAtRow() leaves out of a frame is in the other one.
LEMMA BlendRangeFacts ==
  ASSUME NEW f \in Frames, TypeOK
  PROVE  /\ BlendRange(f) \subseteq In(f)
         /\ \A i \in In(f) \ FindBlendRange(f, prevIter) : i \in In(prevIter)
<1>1. f.x \in Nat /\ f.w \in Nat /\ prevIter.x \in Nat /\ prevIter.w \in Nat
  BY FrameFacts, IterFacts
<1>2. FindBlendRange(f, prevIter) \subseteq In(f)
  BY <1>1 DEF FindBlendRange, In
<1>3. \A i \in In(f) \ FindBlendRange(f, prevIter) : i \in In(prevIter)
  BY <1>1 DEF FindBlendRange, In
<1> QED
  BY <1>2, <1>3 DEF BlendRange

\* The canvas the next frame is rendered on, for a player.
Below == IF nextFrame = 1 THEN Blank ELSE disposed

\* Where a key frame starts from an empty canvas, a player has one too: all of
\* it, or outside the frame if the frame is full.
LEMMA KeyFrameStartsEmpty ==
  ASSUME IInv, NEW f \in Frames, IsKeyFrame(f)
  PROVE  \/ \A i \in Pixels : Below[i] = Transparent
         \/ (~f.alpha \/ ~f.blend) /\ In(f) = Pixels
<1>1. CASE nextFrame = 1
  BY <1>1 DEF Below, Blank
<1>2. CASE (~f.alpha \/ ~f.blend) /\ IsFullFrame(f)
  BY <1>2, FrameFacts
<1>3. CASE CanvasCleared
  <2>1. In(prevIter) \subseteq Pixels /\ (IsFullFrame(prevIter) => In(prevIter) = Pixels)
    BY IterFacts DEF IInv
  <2>2. \A i \in Pixels : disposed[i] = Transparent
    BY <1>3, <2>1 DEF CanvasCleared, KeptCanvas, IInv
  <2> QED
    BY <2>2 DEF Below, Blank
<1> QED
  BY <1>1, <1>2, <1>3 DEF IsKeyFrame

------------------------------------------------------------------------------
(* The step of WebPAnimDecoderGetNext()                                    *)

\* Outside the frame the canvas is the player's.
LEMMA OutsideFrame ==
  ASSUME IInv, NEW f \in Frames, NEW i \in Pixels, i \notin In(f)
  PROVE  Base(f)[i] = Below[i] /\ (IsKeyFrame(f) => Base(f)[i] = Transparent)
<1>1. CASE IsKeyFrame(f)
  <2>1. Base(f)[i] = Transparent
    BY <1>1 DEF Base, Blank
  <2>2. Below[i] = Transparent
    BY <1>1, KeyFrameStartsEmpty
  <2> QED
    BY <2>1, <2>2
<1>2. CASE ~IsKeyFrame(f)
  BY <1>2 DEF Base, Below, IsKeyFrame
<1> QED
  BY <1>1, <1>2

\* Within the frame, what is blended, or not, gives the player's colour.
LEMMA InsideFrame ==
  ASSUME IInv, NEW f \in Frames, NEW i \in Pixels, i \in In(f)
  PROVE  (IF i \in BlendRange(f) THEN Over(f.pix[i], disposed[i]) ELSE f.pix[i])
         = (IF f.blend THEN Over(f.pix[i], Below[i]) ELSE f.pix[i])
<1>1. f.pix[i] \in Seq(Layers) /\ disposed[i] \in Seq(Layers)
  BY FrameFacts DEF IInv, TypeOK
<1>2. CASE ~f.blend
  BY <1>2 DEF BlendRange
<1>3. CASE f.blend /\ IsKeyFrame(f)
  <2>1. BlendRange(f) = {}
    BY <1>3 DEF BlendRange
  <2>2. CASE Below[i] = Transparent
    BY <1>1, <1>3, <2>1, <2>2, OverFacts
  <2>3. CASE ~f.alpha
    <3>1. Opaque(f.pix[i])
      BY <2>3, FrameFacts
    <3> QED
      BY <1>3, <2>1, <3>1 DEF Over
  <2> QED
    BY <1>3, <2>2, <2>3, KeyFrameStartsEmpty
<1>4. CASE f.blend /\ ~IsKeyFrame(f)
  <2>1. Below = disposed
    BY <1>4 DEF Below, IsKeyFrame
  <2>2. CASE i \in BlendRange(f)
    BY <1>4, <2>1, <2>2
  <2>3. CASE i \notin BlendRange(f)
    <3>1. prevIter.dispose /\ i \in In(prevIter)
      BY <1>4, <2>3, BlendRangeFacts DEF BlendRange, IInv
    <3>2. disposed[i] = Transparent
      BY <3>1 DEF IInv, KeptCanvas
    <3> QED
      BY <1>1, <1>4, <2>1, <2>3, <3>2, OverFacts
  <2> QED
    BY <2>2, <2>3
<1> QED
  BY <1>2, <1>3, <1>4, FrameFacts

\* The canvas returned is the one a player shows.
LEMMA GetNextDraws ==
  ASSUME IInv, NEW f \in Frames, GetNext(f)
  PROVE  curr' = Draw(Below, f)
<1>1. f.x \in Nat /\ f.w \in Nat /\ In(f) \subseteq Pixels
  BY FrameFacts
<1>2. BlendRange(f) \subseteq In(f)
  BY BlendRangeFacts DEF IInv
<1> DEFINE pixel(i) == IF i \in BlendRange(f)
                         THEN Over(Decode(Base(f), f, f.w)[i], disposed[i])
                         ELSE Decode(Base(f), f, f.w)[i]
           drawn(i) == IF i \notin In(f) THEN Below[i]
                       ELSE IF f.blend THEN Over(f.pix[i], Below[i]) ELSE f.pix[i]
<1>3. ASSUME NEW i \in Pixels PROVE pixel(i) = drawn(i)
  <2>1. Decode(Base(f), f, f.w)[i] = IF i \in In(f) THEN f.pix[i] ELSE Base(f)[i]
    BY DEF Decode, In
  <2>2. CASE i \in In(f)
    BY <2>1, <2>2, InsideFrame
  <2>3. CASE i \notin In(f)
    <3>1. Base(f)[i] = Below[i]
      BY <2>3, OutsideFrame
    <3> QED
      BY <2>1, <2>3, <1>2, <3>1
  <2> QED
    BY <2>2, <2>3
<1>4. curr' = [i \in Pixels |-> pixel(i)]
  BY DEF GetNext
<1>5. Draw(Below, f) = [i \in Pixels |-> drawn(i)]
  BY DEF Draw
<1> HIDE DEF pixel, drawn
<1> QED
  BY <1>3, <1>4, <1>5

\* The canvas kept for the next frame.
LEMMA GetNextKeeps ==
  ASSUME IInv, NEW f \in Frames, GetNext(f)
  PROVE  KeptCanvas'
<1>1. In(f) \subseteq Pixels
  BY FrameFacts
<1>2. In(prevIter)' = In(f) /\ prevIter'.dispose = f.dispose /\ prevKey' = IsKeyFrame(f)
  BY DEF GetNext, In
<1>3. ASSUME f.dispose, NEW i \in In(f) PROVE disposed'[i] = Transparent
  BY <1>1, <1>3 DEF GetNext, Dispose, Clear
<1>4. ASSUME IsKeyFrame(f), NEW i \in Pixels \ In(f) PROVE disposed'[i] = Transparent
  <2>1. BlendRange(f) = {}
    BY <1>4 DEF BlendRange
  <2>2. Decode(Base(f), f, f.w)[i] = Base(f)[i]
    BY <1>4 DEF Decode, In
  <2>3. curr'[i] = Transparent
    BY <1>4, <2>1, <2>2, OutsideFrame DEF GetNext
  <2> QED
    BY <1>4, <2>3 DEF GetNext, Dispose, Clear
<1> QED
  BY <1>2, <1>3, <1>4 DEF KeptCanvas

\* The canvas a player renders on is a canvas.
LEMMA BelowType == ASSUME TypeOK PROVE Below \in [Pixels -> Seq(Layers)]
<1>1. Blank \in [Pixels -> Seq(Layers)]
  <2>1. <<>> \in Seq(Layers)
    OBVIOUS
  <2> QED
    BY <2>1 DEF Blank, Transparent
<1> QED
  BY <1>1 DEF Below, TypeOK

\* WebPAnimDecoderGetNext() keeps the types, and next_frame_ within the file.
LEMMA GetNextType ==
  ASSUME IInv, NEW f \in Frames, GetNext(f)
  PROVE  TypeOK'
<1>1. /\ \A i \in In(f) : f.pix[i] \in Seq(Layers)
      /\ f.dispose \in BOOLEAN /\ f.dur \in Nat
  BY FrameFacts
<1>2. Below \in [Pixels -> Seq(Layers)]
  BY BelowType DEF IInv
<1>3. curr' \in [Pixels -> Seq(Layers)]
  <2>1. \A i \in Pixels :
          (IF i \notin In(f) THEN Below[i]
           ELSE IF f.blend THEN Over(f.pix[i], Below[i]) ELSE f.pix[i]) \in Seq(Layers)
    BY <1>1, <1>2, OverFacts
  <2> QED
    BY <2>1, GetNextDraws DEF Draw
<1>4. disposed' \in [Pixels -> Seq(Layers)]
  <2>1. <<>> \in Seq(Layers)
    OBVIOUS
  <2>2. Clear(curr', f) \in [Pixels -> Seq(Layers)]
    BY <1>3, <2>1 DEF Clear, Transparent
  <2> QED
    BY <1>3, <2>2 DEF GetNext, Dispose
<1>5. nextFrame' \in 1..FrameCount + 1
  BY FramesAssumption DEF GetNext, HasMoreFrames, IInv, TypeOK
<1>6. prevIter' = [x |-> f.x, w |-> f.w, dispose |-> f.dispose]
  BY DEF GetNext
<1>7. prevKey' \in BOOLEAN
  <2>1. IsKeyFrame(f) \in BOOLEAN
    BY FrameFacts DEF IsKeyFrame, CanvasCleared, IsFullFrame, IInv, TypeOK
  <2> QED
    BY <2>1 DEF GetNext
<1>8. prevTime' \in Nat
  BY <1>1 DEF GetNext, IInv, TypeOK
<1>9. out' \in [Pixels -> Seq(Layers)]
  BY <1>3 DEF GetNext
<1> QED
  BY <1>3, <1>4, <1>5, <1>6, <1>7, <1>8, <1>9 DEF TypeOK

\* A failed call leaves what the invariant speaks of.
LEMMA GetNextFailsIInv ==
  ASSUME IInv, NEW f \in Frames, GetNextFails(f)
  PROVE  IInv'
<1>1. f.w \in Nat /\ f.x \in Nat /\ \A i \in In(f) : f.pix[i] \in Seq(Layers)
  BY FrameFacts
<1>2. Base(f) \in [Pixels -> Seq(Layers)]
  <2>1. <<>> \in Seq(Layers)
    OBVIOUS
  <2> QED
    BY <2>1 DEF Base, Blank, Transparent, IInv, TypeOK
<1>3. PICK n \in 0..f.w - 1 : curr' = Decode(Base(f), f, n)
  BY DEF GetNextFails
<1>4. \A i \in f.x..f.x + n - 1 : i \in In(f)
  BY <1>1, <1>3 DEF In
<1>5. curr' \in [Pixels -> Seq(Layers)]
  BY <1>1, <1>2, <1>3, <1>4 DEF Decode
<1>6. UNCHANGED <<nextFrame, prevIter, prevKey, disposed, prevTime, out>>
  BY DEF GetNextFails
<1>7. TypeOK'
  BY <1>5, <1>6 DEF IInv, TypeOK
<1>8. KeptCanvas'
  BY <1>6 DEF IInv, KeptCanvas, In
<1> QED
  BY <1>7, <1>8 DEF IInv

\* WebPAnimDecoderReset() forgets the last frame, so asks nothing of the canvas
\* it leaves.
LEMMA ResetIInv == ASSUME IInv, Reset PROVE IInv'
<1>1. TypeOK'
  <2>1. FrameCount \in Nat
    BY FramesAssumption
  <2>2. nextFrame' \in 1..FrameCount + 1 /\ prevTime' \in Nat
    BY <2>1 DEF Reset
  <2>3. prevIter' = NoIter /\ prevKey' \in BOOLEAN
    BY DEF Reset
  <2>4. UNCHANGED <<curr, disposed, out>>
    BY DEF Reset
  <2> QED
    BY <2>2, <2>3, <2>4 DEF IInv, TypeOK
<1>2. KeptCanvas'
  BY DEF Reset, KeptCanvas, NoIter
<1> QED
  BY <1>1, <1>2 DEF IInv

\* WebPAnimDecoderNew() establishes the invariant.
LEMMA InitIInv == Init => IInv
<1> SUFFICES ASSUME Init PROVE IInv
  OBVIOUS
<1>1. <<>> \in Seq(Layers)
  OBVIOUS
<1>2. Blank \in [Pixels -> Seq(Layers)]
  BY <1>1 DEF Blank, Transparent
<1>3. TypeOK
  <2>1. FrameCount \in Nat
    BY FramesAssumption
  <2>2. nextFrame \in 1..FrameCount + 1 /\ prevTime \in Nat
    BY <2>1 DEF Init
  <2>3. prevIter = NoIter /\ prevKey \in BOOLEAN
    BY DEF Init
  <2>4. curr = Blank /\ disposed = Blank /\ out = Blank
    BY DEF Init
  <2> QED
    BY <1>2, <2>2, <2>3, <2>4 DEF TypeOK
<1>4. KeptCanvas
  BY DEF Init, KeptCanvas, NoIter
<1> QED
  BY <1>3, <1>4 DEF IInv

\* Every call keeps it.
LEMMA NextIInv == IInv /\ [Next]_vars => IInv'
<1> SUFFICES ASSUME IInv, [Next]_vars PROVE IInv'
  OBVIOUS
<1>1. CASE Reset
  BY <1>1, ResetIInv
<1>2. ASSUME NEW f \in Frames, GetNext(f) PROVE IInv'
  BY <1>2, GetNextType, GetNextKeeps DEF IInv
<1>3. ASSUME NEW f \in Frames, GetNextFails(f) PROVE IInv'
  BY <1>3, GetNextFailsIInv
<1>4. CASE UNCHANGED vars
  BY <1>4 DEF vars, IInv, TypeOK, KeptCanvas, In
<1> QED
  BY <1>1, <1>2, <1>3, <1>4 DEF Next

------------------------------------------------------------------------------
(* Theorems                                                                *)

\* What the decoder keeps between two calls is as IInv says.
THEOREM Inductive == Spec => []IInv
  BY InitIInv, NextIInv, PTL DEF Spec

\* Every variable keeps to its type: in particular next_frame_ never goes past
\* the end of the file.
THEOREM TypeCorrect == Spec => []TypeOK
<1>1. IInv => TypeOK
  BY DEF IInv
<1> QED
  BY <1>1, Inductive, PTL

\* The disposed canvas is empty where IsKeyFrame() and FindBlendRangeAtRow()
\* take it to be.
THEOREM KeptCanvasHolds == Spec => []KeptCanvas
<1>1. IInv => KeptCanvas
  BY DEF IInv
<1> QED
  BY <1>1, Inductive, PTL

\* For every canvas and every file, WebPAnimDecoderGetNext() returns the
\* canvases and the timestamps a player has that composes all the frames.
THEOREM PlaysEveryFile == Spec => PlaysAsSpecified
<1>1. Init => Player!Init
  BY DEF Init, Player!Init, Player!Blank, Blank, Player!Pixels, Pixels,
         Player!Transparent, Transparent
<1>2. IInv /\ [Next]_vars => [Player!Next]_(Player!playerVars)
  <2> SUFFICES ASSUME IInv, [Next]_vars PROVE [Player!Next]_(Player!playerVars)
    OBVIOUS
  <2>1. CASE Reset
    <3>1. Player!Rewind
      BY <2>1 DEF Reset, Player!Rewind, Player!Blank, Blank, Player!Pixels, Pixels,
                  Player!Transparent, Transparent
    <3> QED
      BY <3>1 DEF Player!Next
  <2>2. ASSUME NEW f \in Frames, GetNext(f) PROVE Player!Next
    <3>1. out' = Draw(Below, f)
      BY <2>2, GetNextDraws DEF GetNext
    <3>2. nextFrame' # 1
      BY <2>2, FramesAssumption DEF GetNext, IInv, TypeOK
    <3>3. disposed' = Dispose(out', f) /\ prevTime' = prevTime + f.dur
      BY <2>2 DEF GetNext
    <3>4. Player!Show(f)
      BY <3>1, <3>2, <3>3 DEF Player!Show, Below, Draw, Player!Draw, Dispose,
         Player!Dispose, Clear, Player!Clear, In, Player!In, Over, Player!Over,
         Opaque, Player!Opaque, Blank, Player!Blank, Pixels, Player!Pixels,
         Transparent, Player!Transparent
    <3> QED
      BY <3>4 DEF Player!Next
  <2>3. ASSUME NEW f \in Frames, GetNextFails(f) PROVE UNCHANGED Player!playerVars
    BY <2>3 DEF GetNextFails, Player!playerVars, Player!Blank
  <2>4. CASE UNCHANGED vars
    BY <2>4 DEF vars, Player!playerVars, Player!Blank
  <2> QED
    BY <2>1, <2>2, <2>3, <2>4 DEF Next
<1> QED
  BY <1>1, <1>2, Inductive, PTL DEF Spec, PlaysAsSpecified, Player!Spec
=============================================================================
