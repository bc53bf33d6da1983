----------------------------- MODULE AnimCanvas -----------------------------
(***************************************************************************)
(* Canvases, frames and their composition, shared by the animation encoder *)
(* and decoder.  A canvas is one row of pixels (rows are all treated       *)
(* alike).  A colour is the sequence of the layers one sees, the nearest   *)
(* first: <<>> is the transparent colour, and what lies under an opaque    *)
(* layer is not seen.  Blending is exact; the rounding of the 8-bit        *)
(* arithmetic (anim_decode.c:216-247) is left out.                         *)
(***************************************************************************)
EXTENDS Integers, Sequences

CONSTANTS
  Width,        \* pixels of the canvas
  Sheer, Solid  \* the layers that are, and are not, partly transparent

ASSUME WidthAssumption == Width \in Nat \ {0}

Layers == Sheer \cup Solid
Pixels == 0..Width - 1

Transparent == <<>>
Opaque(c) == c # <<>> /\ c[Len(c)] \in Solid

\* BlendPixelRowNonPremult(): opaque pixels are left alone, the others are
\* blended, which keeps what is below of a transparent one.
Over(src, dst) == IF Opaque(src) THEN src ELSE src \o dst

\* The pixels of a rectangle, or of the rectangle of a frame.
In(r) == r.x..r.x + r.w - 1

Blank == [i \in Pixels |-> Transparent]

\* ClearRectangle(), ZeroFillFrameRect()
ClearAllButOne(canvas, r) ==                                          \* (faulty)
  [i \in Pixels |-> IF i \in r.x..r.x + r.w - 2 THEN Transparent ELSE canvas[i]]

Clear(canvas, r) ==
  [i \in Pixels |-> IF i \in In(r) THEN Transparent ELSE canvas[i]]

\* The rendering of a frame and its disposal, as the container format
\* defines them.
Draw(canvas, f) ==
  [i \in Pixels |->
     IF i \notin In(f) THEN canvas[i]
     ELSE IF f.blend THEN Over(f.pix[i], canvas[i]) ELSE f.pix[i]]

Dispose(canvas, f) == IF f.dispose THEN Clear(canvas, f) ELSE canvas
=============================================================================
