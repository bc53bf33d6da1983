---------------------------- MODULE MCAnimEncoder ----------------------------
(***************************************************************************)
(* Pictures whose differences start at odd and even pixels, with opaque,   *)
(* partly transparent and transparent ones, and one option of each kind.   *)
(***************************************************************************)
EXTENDS AnimEncoder, TLC

Opt(kmin, kmax, minimize) == [kmin |-> kmin, kmax |-> kmax, minimize |-> minimize]

Row(a, b, c) == (0 :> a) @@ (1 :> b) @@ (2 :> c)
Red   == <<"red">>
Blue  == <<"blue">>
Glass == <<"glass">>

MCCanvases ==
  {Blank, Row(Red, Red, Red), Row(Red, Transparent, Glass), Row(Red, Blue, Transparent),
   Row(Transparent, Red, Red)}

MCOptions ==
  {Opt(0, 0, FALSE), Opt(0, 0, TRUE), Opt(5, 1, FALSE), Opt(0, 2, FALSE),
   Opt(9, 3, FALSE), Opt(0, 5, FALSE), Opt(0, 9, FALSE)}
=============================================================================
