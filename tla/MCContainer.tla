----------------------------- MODULE MCContainer -----------------------------
(***************************************************************************)
(* Container with chunk headers of two bytes, payloads of one to three,    *)
(* up to two frames, and files that other programs wrote: unusual but      *)
(* valid, or wrong in one way each.                                        *)
(***************************************************************************)
EXTENDS Container

MCSizes == [t \in Tags \ {"ANMF"} |->
              CASE t = "VP8X" -> 2 [] t = "ANIM" -> 2 [] t \in ImageTags -> 3 [] OTHER -> 1]

Lossy(width, alph) ==
  [width |-> width, lossless |-> FALSE, alph |-> alph, inAlpha |-> FALSE]
MCBitstreams ==
  {Lossy(0, FALSE), Lossy(2, TRUE),
   [width |-> 4, lossless |-> TRUE, alph |-> TRUE, inAlpha |-> FALSE]}

X(flags, canvas) == ChunkOf("VP8X", [flags |-> flags, canvas |-> canvas])
C(tag) == ChunkOf(tag, <<>>)
I(tag, width) == ChunkOf(tag, [width |-> width, alpha |-> tag = "VP8L"])
A(x, inside) == AnmfAround([x |-> x, width |-> 2], inside)

Anim == <<X({"ANIMATION", "ALPHA"}, 4), C("ANIM")>>

\* A RIFF chunk that is shorter than its chunks.
Short(chunks, n) == [FileOf(chunks) EXCEPT !.size = @ - n]

MCHandmade ==
  {FileOf(s) : s \in
    {\* unknown chunks inside a frame, of two kinds, and after a simple image
     Anim \o A(0, <<I("VP8", 2), C("U1")>>) \o A(2, <<I("VP8L", 2)>>),
     <<X({"ANIMATION", "ALPHA"}, 2), C("ANIM")>> \o A(0, <<I("VP8L", 2), C("U1")>>),
     <<X({}, 2), C("U1"), I("VP8", 2), C("U2")>>,
     <<I("VP8L", 2), C("U1")>>,
     \* chunks that VP8X does not announce
     <<X({}, 2), C("ALPH"), I("VP8", 2), C("EXIF")>>,
     <<X({}, 4), C("ANIM")>> \o A(0, <<I("VP8", 2)>>),
     \* alpha after, twice, with VP8L or alone
     <<X({"ALPHA"}, 2), I("VP8", 2), C("ALPH")>>,
     <<X({"ALPHA"}, 2), C("ALPH"), C("ALPH"), I("VP8", 2)>>,
     <<X({"ALPHA"}, 2), C("ALPH"), I("VP8L", 2)>>,
     <<X({"ALPHA"}, 2), C("ALPH")>>,
     Anim \o A(0, <<C("ALPH")>>),
     Anim \o A(0, <<C("ALPH"), C("U1"), I("VP8", 2)>>),
     \* images where they should not be, or missing
     <<X({}, 2), I("VP8", 2), I("VP8", 2)>>,
     Anim \o <<I("VP8", 2)>>, Anim \o A(0, <<>>), Anim,
     Anim \o A(0, <<I("VP8", 2)>>) \o <<I("VP8", 2)>>,
     Anim \o A(0, <<I("VP8", 2)>>) \o A(2, <<I("VP8", 2)>>) \o <<I("VP8", 2)>>,
     <<X({"ANIMATION"}, 4)>> \o A(0, <<I("VP8", 2)>>),
     <<X({}, 2), X({}, 2), I("VP8", 2)>>, <<C("U1"), I("VP8", 2)>>,
     \* outside the canvas, or of another size
     Anim \o A(4, <<I("VP8", 2)>>), <<X({}, 4), I("VP8", 2)>>,
     \* sizes that do not fit what they enclose
     Anim \o <<[tag |-> "ANMF", size |-> 1, info |-> [x |-> 0, width |-> 2]],
               I("VP8", 2)>>,
     Anim \o <<[tag |-> "ANMF", size |-> 4, info |-> [x |-> 0, width |-> 2]],
               I("VP8", 2), C("U1")>>,
     <<X({}, 2), [tag |-> "VP8", size |-> 0, info |-> [width |-> 2, alpha |-> FALSE]]>>}}
  \cup {Short(<<X({}, 2)>>, 1), Short(<<I("VP8", 2)>>, 1),
        Short(<<X({}, 2), I("VP8", 2)>>, 6), Short(<<X({}, 2), C("U1")>>, 1),
        Short(Anim \o A(0, <<I("VP8", 2)>>), 2)}
=============================================================================
