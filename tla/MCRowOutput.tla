---------------------------- MODULE MCRowOutput ----------------------------
(***************************************************************************)
(* Instances of RowOutput: up to ten rows scaled to at most twelve, in     *)
(* every division into strips, and rows of up to seven pixels scaled to at *)
(* most ten.                                                               *)
(***************************************************************************)
EXTENDS RowOutput

Config(decoder, rgb, fancy, alpha, scaling, w, h, sw, sh) ==
  [decoder |-> decoder, rgb |-> rgb, fancy |-> fancy, alpha |-> alpha,
   scaling |-> scaling, w |-> w, h |-> h, scaled_width |-> sw, scaled_height |-> sh]

Alphas == {"unwanted", "absent", "present"}

Unscaled ==
  {Config("lossy", rgb, fancy, alpha, FALSE, 1, h, 0, 0) :
     rgb \in BOOLEAN, fancy \in BOOLEAN, alpha \in Alphas, h \in 1..11}
  \cup {Config("lossless", rgb, FALSE, "unwanted", FALSE, 1, h, 0, 0) :
          rgb \in BOOLEAN, h \in 1..5}

\* A width of 0 keeps the proportions.
Scaled ==
  {Config("lossy", rgb, FALSE, alpha, TRUE, 3, h, sw, sh) :
     rgb \in BOOLEAN, alpha \in Alphas, h \in 1..10, sw \in {0, 4}, sh \in 0..13}
  \cup {Config("lossless", rgb, FALSE, "unwanted", TRUE, 2, h, 3, sh) :
          rgb \in BOOLEAN, h \in 1..8, sh \in 1..11}
  \cup {Config("picture", TRUE, FALSE, "unwanted", TRUE, w, h, sw, sh) :
          w \in 1..7, h \in 1..3, sw \in 0..10, sh \in 0..4}

MCConfigs == Unscaled \cup Scaled
=============================================================================
