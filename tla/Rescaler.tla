------------------------------ MODULE Rescaler ------------------------------
(***************************************************************************)
(* The rescaler (src/utils/rescaler_utils.c, src/dsp/rescaler.c): source   *)
(* rows are imported one after the other and output rows are exported as   *)
(* soon as they can be, the accumulator y_accum telling which comes next.  *)
(*                                                                         *)
(* A row of samples is what it is made of: a function from the rows (or    *)
(* the columns) of the source to their weights.  The fixed-point factors   *)
(* are left out, except where they wrap around: WEBP_RESCALER_FRAC(1, 1)   *)
(* is 2^32, which is 0 in the 32 bits of fy_scale.                         *)
(***************************************************************************)
EXTENDS Integers, Sequences

Unit(n, r) == [i \in 0..(n - 1) |-> IF i = r THEN 1 ELSE 0]
Blank(n) == [i \in 0..(n - 1) |-> 0]

\* a * v + b * w
Mix(a, v, b, w) == [i \in DOMAIN v |-> a * v[i] + b * w[i]]

WebPRescalerInit(w, h, dw, dh) ==
  LET expand == h < dh
      add == IF expand THEN h - 1 ELSE h
      sub == IF expand THEN dh - 1 ELSE dh
  IN  [w |-> w, h |-> h, dw |-> dw, dh |-> dh,
       x_add |-> IF w < dw THEN dw - 1 ELSE w,
       y_expand |-> expand, y_add |-> add, y_sub |-> sub,
       y_accum |-> IF expand THEN sub ELSE add,
       src_y |-> 0, dst_y |-> 0, irow |-> Blank(h), frow |-> Blank(h)]

HasPendingOutput(s) == s.dst_y < s.dh /\ s.y_accum <= 0

NeededLinesRoundedDown(s, max) ==                   \* (faulty)
  LET lines == s.y_accum \div s.y_sub IN IF lines > max THEN max ELSE lines

\* The lines to import before an output line can be produced.  The division
\* of C goes toward zero: -1 / y_sub is 0, except for y_sub = 1.
NeededLines(s, max) ==
  LET n == s.y_accum + s.y_sub - 1
      lines == IF n >= 0 THEN n \div s.y_sub ELSE -((-n) \div s.y_sub)
  IN  IF lines > max THEN max ELSE lines

\* One turn of the loop of WebPRescalerImport(), with a row of weights v,
\* while there are lines and no output line is pending.
CanImport(s, lines) == lines > 0 /\ ~HasPendingOutput(s)

ImportRow(s, v) ==
  [s EXCEPT !.irow = IF s.y_expand THEN s.frow ELSE Mix(1, s.irow, s.y_sub, v),
            !.frow = v,
            !.src_y = @ + 1,
            !.y_accum = @ - s.y_sub]

\* What fy_scale does to an expanded row: for x_add = 1 it is 0.
TimesYScale(s, v) == IF s.x_add = 1 THEN Blank(s.h) ELSE v

ExportedRow(s) ==
  IF s.y_expand
  THEN TimesYScale(s, Mix(s.y_sub + s.y_accum, s.frow, -s.y_accum, s.irow))
  ELSE Mix(1, s.irow, s.y_accum, s.frow)

\* The state after WebPRescalerExportRow(), a turn of the loops of
\* WebPRescalerExport(), ExportRGB() and the like.  When shrinking, the part of the
\* last row that the line did not take starts the next one.
AfterExport(s) ==
  [s EXCEPT !.irow = IF s.y_expand THEN @
                     ELSE Mix(-s.y_accum, s.frow, 0, s.irow),
            !.y_accum = @ + s.y_add,
            !.dst_y = @ + 1]

\* WebPRescalerGetScaledDimensions(): a dimension of 0 keeps the proportions.
\* max is INT_MAX / 2.
ScaledDimensions(w, h, scaled_width, scaled_height) ==
  LET dw == IF scaled_width = 0 THEN (w * scaled_height + h - 1) \div h
            ELSE scaled_width
      dh == IF scaled_height = 0 THEN (h * dw + w - 1) \div w
            ELSE scaled_height
  IN  [w |-> dw, h |-> dh]

AcceptableDimensions(d, max) == d.w \in 1..max /\ d.h \in 1..max

------------------------------------------------------------------------------
(* The loops over the columns: the weights of the pixels in each output    *)
(* pixel, and the accumulator after the last one.                          *)

\* WebPRescalerImportRowExpand_C()
ColumnsExpand(w, dw) ==
  LET add == dw - 1
      sub == w - 1
      at[x \in 0..(dw - 1)] ==
        IF x = 0 THEN [accum |-> add, left |-> 0, right |-> IF w > 1 THEN 1 ELSE 0]
        ELSE LET b == at[x - 1]
                 accum == b.accum - sub
             IN  IF accum >= 0 THEN [b EXCEPT !.accum = accum]
                 ELSE [accum |-> accum + add,
                       left |-> b.right, right |-> b.right + 1]
  IN  [accum |-> IF sub = 0 THEN 0 ELSE at[dw - 1].accum,
       pixels |-> [x \in 0..(dw - 1) |->
                     Mix(at[x].accum, Unit(w, at[x].left),
                         add - at[x].accum, Unit(w, at[x].right))]]

\* WebPRescalerImportRowShrink_C()
ColumnsShrink(w, dw) ==
  LET at[x \in -1..(dw - 1)] ==
        IF x = -1 THEN [accum |-> 0, x_in |-> 0, carry |-> Blank(w), pixel |-> Blank(w)]
        ELSE LET b == at[x - 1]
                 reads == (b.accum + w + dw - 1) \div dw
                 x_in == b.x_in + reads
                 accum == b.accum + w - reads * dw
                 sum == [i \in 0..(w - 1) |-> IF i \in b.x_in..(x_in - 1) THEN dw ELSE 0]
                 frac == Mix(-accum, Unit(w, x_in - 1), 0, Blank(w))
             IN  [accum |-> accum, x_in |-> x_in, carry |-> frac,
                  pixel |-> Mix(1, Mix(1, b.carry, 1, sum), -1, frac)]
  IN  [accum |-> at[dw - 1].accum,
       pixels |-> [x \in 0..(dw - 1) |-> at[x].pixel]]

Columns(w, dw) == IF w < dw THEN ColumnsExpand(w, dw) ELSE ColumnsShrink(w, dw)

------------------------------------------------------------------------------
(* What a rescaled line is meant to be, n source lines giving m.           *)

Larger(a, b) == IF a > b THEN a ELSE b
Smaller(a, b) == IF a > b THEN b ELSE a
Distance(a, b) == IF a > b THEN a - b ELSE b - a

\* Shrinking: source lines are m units high, output lines n, and a line takes
\* what it covers.  Expanding: output line y is at y * (n - 1) / (m - 1), and
\* takes the two lines around it in proportion to their distance.
Share(n, m, y) ==
  [r \in 0..(n - 1) |->
     Larger(0, IF n < m THEN (m - 1) - Distance(r * (m - 1), y * (n - 1))
               ELSE Smaller((r + 1) * m, (y + 1) * n) - Larger(r * m, y * n))]

RightColumns(w, dw) ==
  [accum |-> 0, pixels |-> [x \in 0..(dw - 1) |-> Share(w, dw, x)]]
=============================================================================
