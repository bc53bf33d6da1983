---------------------------- MODULE MCAnimDecoder ----------------------------
(***************************************************************************)
(* Frames over every rectangle of the canvas that starts at an even pixel, *)
(* of one colour or, the wider ones, with transparent pixels.              *)
(***************************************************************************)
EXTENDS AnimDecoder

Frame(r, pix, blend, dispose) ==
  [x |-> r.x, w |-> r.w, pix |-> pix, blend |-> blend, dispose |-> dispose,
   alpha |-> \E i \in In(r) : ~Opaque(pix[i]), dur |-> 1]

MCColours == {<<"red">>, <<"glass">>}

MCFrames ==
  LET rects == {r \in Rects : r.x % 2 = 0}
      plain == {<<r, [i \in In(r) |-> c]>> : r \in rects, c \in MCColours}
      mixed == {<<r, [i \in In(r) |-> IF i = r.x THEN <<"red">> ELSE Transparent]>> :
                  r \in {q \in rects : q.w > 1}}
  IN {Frame(p[1], p[2], b, d) : p \in plain \cup mixed, b \in BOOLEAN, d \in BOOLEAN}
=============================================================================
