--------------------------- MODULE MCEntropyCodes ---------------------------
(***************************************************************************)
(* Histograms for the codes of the encoder: all those of five symbols over *)
(* a few counts, some of them deeper than the limit; and long ones, made   *)
(* of a few symbols between runs of zeros, of every length that takes      *)
(* another repeat code.  Pictures for the references: all those of eight   *)
(* pixels and two colors in one or three columns; and wider ones, for the  *)
(* plane codes to the right of the pixel above: periodic ones, which have  *)
(* matches at one distance, and phrases that share words, where a short    *)
(* match is best in the middle of a long one.                              *)
(***************************************************************************)
EXTENDS EntropyCodes

Histo(seq) == [s \in 0..(Len(seq) - 1) |-> seq[s + 1]]

Short == {Histo(seq) : seq \in [1..5 -> {0, 1, 4, 10, 22}]}

Runs == {0, 2, 3, 10, 11}
Bodies == {<<9>>, <<5, 5, 5, 5>>, <<2, 30, 2>>, <<5, 5, 5, 5, 5, 5, 5>>}

Long == {Histo(Repeat(0, a) \o b \o Repeat(0, c) \o d \o Repeat(0, e)) :
           a \in Runs, b \in Bodies, c \in {0, 4, 12}, d \in {<<>>, <<3>>}, e \in {0, 138, 139}}

MCHistograms == Short \cup Long

Picture(width, seq) == [width |-> width, argb |-> [k \in 0..(Len(seq) - 1) |-> seq[k + 1]]]

Columns == {Picture(w, seq) : w \in {1, 3}, seq \in [1..8 -> {0, 1}]}

Periodic == {[width |-> 12, argb |-> [k \in 0..26 |-> (3 * (k % d)) % 29]] : d \in 8..24}

Phrases == {Picture(12, <<1, 2, 3, 4, 5, 6, 0>> \o [k \in 1..n |-> 10 + k]
                        \o <<9, 3, 4, 5, 6, 7, 8, 0>> \o <<1, 2, 3, 4, 5, 6, 7, 8, 0>>) : n \in 0..4}

MCPictures == Columns \cup Periodic \cup Phrases

\* With long copies cheap, and with copies of two pixels cheap.
MCCostModels ==
  {[literal |-> [c \in 0..30 |-> 4], cache |-> [k \in 0..1 |-> 2], length |-> <<1, 1, 2, 2, 3, 3>>,
    distance |-> [d \in 1..144 |-> IF d < 5 THEN 1 ELSE 3]],
   [literal |-> [c \in 0..30 |-> 3], cache |-> [k \in 0..1 |-> 4], length |-> <<5, 1, 4, 4, 4, 4>>,
    distance |-> [d \in 1..144 |-> d % 3]]}
=============================================================================
