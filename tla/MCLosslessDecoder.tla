-------------------------- MODULE MCLosslessDecoder --------------------------
(***************************************************************************)
(* Files for LosslessDecoder.  Eight rows of two pixels, with checkpoints  *)
(* two rows apart and up to four rows in argb_cache_: half of the rows go  *)
(* through before the last ones, and backward references jump over rows    *)
(* that are due and over checkpoints.                                      *)
(***************************************************************************)
EXTENDS LosslessDecoder, SequencesExt

\* The color c goes to the slot c % 2 of the color cache.
MCSlot == [c \in 0..3 |-> c % 2]

\* Tokens without their positions: what they do and the data they take.
Lit(c, cost) == [kind |-> "literal", len |-> 1, arg |-> c, cost |-> cost]
Key(s) == [kind |-> "cache", len |-> 1, arg |-> s, cost |-> 1]
Ref(dist, len) == [kind |-> "copy", len |-> len, arg |-> dist, cost |-> 2]

\* What the encoder had in its own cache after the colors seen.
Latest(seen, s) ==
  LET I == {i \in DOMAIN seen : MCSlot[seen[i]] = s}
  IN  IF I = {} THEN Black ELSE seen[Max(I)]

\* The k-th pixel of a token that starts at pixel n.
Pixel(seen, n, t, k) ==
  CASE t.kind = "literal" -> t.arg
    [] t.kind = "cache" -> Latest(seen, t.arg)
    [] t.kind = "copy" -> IF t.arg > n THEN Black ELSE seen[n - t.arg + (k % t.arg)]

Write(f, t) ==
  IF f.n >= NumPixels THEN f
  ELSE [tokens |-> Append(f.tokens,
                     [kind |-> t.kind, at |-> f.n, len |-> t.len,
                      end |-> f.size + t.cost, arg |-> t.arg]),
        size |-> f.size + t.cost, n |-> f.n + t.len,
        seen |-> f.seen @@ [i \in f.n..(f.n + t.len - 1) |->
                              Pixel(f.seen, f.n, t, i - f.n)]]

\* A file made of tokens; the last backward reference fills the picture.
\* With lost > 0 the chunk is shorter than the tokens.
Encoded(tokens, lost) ==
  LET f == FoldLeft(Write, [tokens |-> <<>>, size |-> HeaderSize, n |-> 0, seen |-> <<>>],
                    tokens)
      g == IF f.n < NumPixels THEN Write(f, Ref(3, NumPixels - f.n)) ELSE f
  IN  [tokens |-> g.tokens, size |-> g.size - lost,
       picture |-> [i \in 0..(NumPixels - 1) |-> g.seen[i]]]

Start == <<Lit(1, 1), Lit(2, 1), Key(1)>>
Pieces == <<<<Lit(3, 1), Key(0)>>, <<Lit(3, 0), Lit(2, 0), Lit(1, 0)>>,
            <<Ref(1, 3), Key(1)>>, <<Ref(3, 6)>>>>

\* A file is named by its pieces.  After piece 5 the chunk is too short, and
\* piece 6 refers to pixels before the first one.
Names == {<<a, b, c>> : a \in 1..4, b \in 1..4, c \in 1..4}
         \cup {<<a, last>> : a \in 1..4, last \in {5, 6}}

Tokens(name) ==
  Start \o Pieces[name[1]] \o
    CASE name[2] = 5 -> <<>>
      [] name[2] = 6 -> <<Ref(20, 4)>>
      [] OTHER -> Pieces[name[2]] \o Pieces[name[3]]

MCFiles == {Encoded(Tokens(name), IF name[2] = 5 THEN 1 ELSE 0) : name \in Names}
=============================================================================
