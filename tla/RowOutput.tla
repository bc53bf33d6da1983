----------------------------- MODULE RowOutput -----------------------------
(***************************************************************************)
(* From decoded rows to the rows of the output buffer.  A decoder calls    *)
(* put() with strips of rows of the picture, already cropped:              *)
(*   "lossy": src/dec/io_dec.c, samples in YUV 4:2:0, alpha in a plane     *)
(*     that stays in memory while the samples do not;                      *)
(*   "lossless": the emission of ARGB rows in src/dec/vp8l_dec.c;          *)
(*   "picture": WebPPictureRescale(), the whole picture in one strip.      *)
(* Rescaling, the fancy upsampling and the alpha plane each have their own *)
(* delay between the rows that came in and the rows that go out.           *)
(*                                                                         *)
(* A row of the output is made of weights of rows of the source, for its   *)
(* luma (y), its chroma (uv) and its alpha (a); times counts how often it  *)
(* was multiplied, or divided, by its alpha.  The colorspace is one where  *)
(* that has to be done.  The planes u and v go through the same calls and  *)
(* are one.  Left out: failed allocations, the conversion to colors.       *)
(***************************************************************************)
EXTENDS Rescaler, TLC

CONSTANTS
  Configs,       \* what is decoded, and how; see ConfigsAssumption
  MaxDimension   \* INT_MAX / 2

ASSUME ConfigsAssumption ==
  /\ MaxDimension \in Nat
  /\ \A c \in Configs :
       /\ c.decoder \in {"lossy", "lossless", "picture"}
       /\ c.rgb \in BOOLEAN /\ c.fancy \in BOOLEAN /\ c.scaling \in BOOLEAN
       /\ c.alpha \in {"unwanted", "absent", "present"}
       /\ c.w \in Nat \ {0} /\ c.h \in Nat \ {0}
       /\ c.scaled_width \in Nat /\ c.scaled_height \in Nat
       /\ c.decoder # "lossy" => c.alpha = "unwanted" /\ ~c.fancy
       /\ c.decoder = "picture" => c.scaling

VARIABLES
  cfg,
  emit,          \* p->emit, or its equivalent; "none" before setup
  sy, su, sa,    \* scaler_y, scaler_u and scaler_a, or dec->rescaler (sy)
  tmp,           \* tmp_y, tmp_u: the row that EmitFancyRGB() has put aside
  io,            \* the strip: mb_y and mb_h
  pc, j, uv_j,   \* where put() is; lines of the strip taken so far
  lines,         \* num_lines_out
  alpha_lines,   \* how many of them have their alpha
  last_y,        \* p->last_y, or dec->last_out_row_
  times,         \* how often each source row was multiplied by its alpha
  out, chroma    \* the rows of the output, its chroma plane

scalers == <<sy, su, sa>>
locals  == <<j, uv_j, lines, alpha_lines>>
buffers == <<out, chroma>>
vars == <<cfg, emit, scalers, tmp, io, pc, locals, last_y, times, buffers>>

Half(n) == (n + 1) \div 2

Init ==
  /\ cfg \in Configs
  /\ emit = "none" /\ pc = "setup" /\ tmp = [y |-> 0, uv |-> 0]
  /\ sy = <<>> /\ su = <<>> /\ sa = <<>>
  /\ io = [mb_y |-> 0, mb_h |-> 0]
  /\ j = 0 /\ uv_j = 0 /\ lines = 0 /\ alpha_lines = 0 /\ last_y = 0
  /\ times = [r \in 0..(cfg.h - 1) |-> 0]
  /\ out = <<>> /\ chroma = <<>>

------------------------------------------------------------------------------
(* Setup.                                                                  *)

EmitOf(c) ==
  CASE c.decoder = "picture" -> "RescalePlane"
    [] c.decoder = "lossless" ->
         IF c.scaling THEN IF c.rgb THEN "EmitRescaledRowsRGBA" ELSE "EmitRescaledRowsYUVA"
         ELSE IF c.rgb THEN "EmitRows" ELSE "EmitRowsYUVA"
    [] c.decoder = "lossy" ->
         IF c.scaling THEN IF c.rgb THEN "EmitRescaledRGB" ELSE "EmitRescaledYUV"
         ELSE IF ~c.rgb THEN "EmitYUV"
         ELSE IF c.fancy THEN "EmitFancyRGB" ELSE "EmitSampledRGB"

OutputSize(c) ==
  IF c.scaling THEN ScaledDimensions(c.w, c.h, c.scaled_width, c.scaled_height)
  ELSE [w |-> c.w, h |-> c.h]

\* InitRGBRescaler() scales u and v to the size of the output, and
\* InitYUVRescaler() to half of it.
ChromaSize(c, d) == IF c.rgb THEN d ELSE [w |-> Half(d.w), h |-> Half(d.h)]

\* CustomSetup(), AllocateAndInitRescaler(), or the start of RescalePlane().
Setup ==
  /\ pc = "setup"
  /\ LET d == OutputSize(cfg)
         uv == ChromaSize(cfg, d)
         scaler == WebPRescalerInit(cfg.w, cfg.h, d.w, d.h)
     IN  IF cfg.scaling /\ ~AcceptableDimensions(d, MaxDimension)
         THEN pc' = "refused" /\ UNCHANGED <<emit, scalers>>
         ELSE /\ pc' = "idle" /\ emit' = EmitOf(cfg)
              /\ IF cfg.scaling
                 THEN /\ sy' = scaler /\ sa' = scaler
                      /\ su' = WebPRescalerInit(Half(cfg.w), Half(cfg.h), uv.w, uv.h)
                 ELSE UNCHANGED scalers
  /\ UNCHANGED <<cfg, tmp, io, locals, last_y, times, buffers>>

------------------------------------------------------------------------------
(* One call of put(): rows mb_y .. mb_y + mb_h - 1 of the picture.         *)

NextRow == io.mb_y + io.mb_h

\* Strips of the lossy decoder are of even height, except the last.
Strips ==
  LET rest == cfg.h - NextRow IN
  CASE cfg.decoder = "lossy" -> {n \in 1..rest : n % 2 = 0 \/ n = rest}
    [] cfg.decoder = "lossless" -> 1..rest
    [] cfg.decoder = "picture" -> {rest} \ {0}

HasAlpha == cfg.alpha = "present"

Multiplied(rows) == [r \in DOMAIN times |-> times[r] + IF r \in rows THEN 1 ELSE 0]

\* EmitRescaledYUV() first multiplies the luma in the decoder's own rows, and
\* WebPPictureRescale() the whole picture.
Put ==
  /\ pc = "idle"
  /\ \E n \in Strips :
       /\ io' = [mb_y |-> NextRow, mb_h |-> n]
       /\ times' = IF (emit = "EmitRescaledYUV" /\ HasAlpha) \/ emit = "RescalePlane"
                   THEN Multiplied(NextRow..(NextRow + n - 1)) ELSE times
  /\ pc' = IF emit = "RescalePlane" THEN "rescale" ELSE "emit"
  /\ j' = 0 /\ uv_j' = 0 /\ lines' = 0 /\ alpha_lines' = 0
  /\ UNCHANGED <<cfg, emit, scalers, tmp, last_y, buffers>>

\* The k-th row of the strip, at its place in the picture.
Luma(k) == Unit(cfg.h, io.mb_y + k)
Chroma(k) == Unit(Half(cfg.h), io.mb_y \div 2 + k)

\* A row of the output, its alpha not set yet, or opaque after a conversion
\* to RGB; or a row of pixels that have their own alpha.
Unset == <<-1>>
Opaque == <<255>>
Row(y, uv) == [y |-> y, uv |-> uv, times |-> 0,
               a |-> IF cfg.rgb THEN Opaque ELSE Unset]
Pixels(y) == [y |-> y, uv |-> <<>>, times |-> 0, a |-> y]
NoChroma == <<>>

\* rows, written from row first on.
Written(rows, first) == [r \in first..(first + Len(rows) - 1) |-> rows[r - first + 1]]
Lines(n, Of(_)) == [k \in 1..n |-> Of(k - 1)]

\* EmitYUV(), EmitSampledRGB()
EmitPlain ==
  /\ pc = "emit" /\ emit \in {"EmitYUV", "EmitSampledRGB"}
  /\ LET yuv == emit = "EmitYUV"
         row(k) == Row(Luma(k), IF yuv THEN NoChroma ELSE Chroma(k \div 2))
     IN  /\ out' = Written(Lines(io.mb_h, row), io.mb_y) @@ out
         /\ chroma' = IF yuv
                      THEN Written(Lines(Half(io.mb_h), Chroma), io.mb_y \div 2) @@ chroma
                      ELSE chroma
  /\ lines' = io.mb_h /\ pc' = "alpha"
  /\ UNCHANGED <<cfg, emit, scalers, tmp, io, j, uv_j, alpha_lines, last_y, times>>

\* A row of luma with the nearer and the further of the two rows of chroma
\* around it (WebPUpsamplers).
Upsampled(y, near, far) ==
  Row(Unit(cfg.h, y), Mix(3, Unit(Half(cfg.h), near), 1, Unit(Half(cfg.h), far)))

\* EmitFancyRGB(): a pair of rows is finished when the chroma row below the
\* upper one is there; a last row without one below is put aside.
EmitFancy ==
  /\ pc = "emit" /\ emit = "EmitFancyRGB"
  /\ LET y == io.mb_y
         y_end == y + io.mb_h
         uv == y \div 2
         turns == (io.mb_h - 1) \div 2
         last == [y |-> y + 2 * turns + 1, uv |-> uv + turns]
         final == y_end >= cfg.h
         start == IF y = 0 THEN 0 :> Upsampled(0, uv, uv)
                  ELSE (y - 1) :> Upsampled(tmp.y, tmp.uv, uv) @@ y :> Upsampled(y, uv, tmp.uv)
         loop == [r \in (y + 1)..(y + 2 * turns) |->
                    LET cur == uv + (r - y + 1) \div 2 IN
                    IF (r - y) % 2 = 1 THEN Upsampled(r, cur - 1, cur)
                    ELSE Upsampled(r, uv + (r - y) \div 2, uv + (r - y) \div 2 - 1)]
         end == IF final /\ y_end % 2 = 0
                THEN last.y :> Upsampled(last.y, last.uv, last.uv) ELSE <<>>
     IN  /\ out' = end @@ loop @@ start @@ out
         /\ tmp' = IF final THEN tmp ELSE last
         /\ lines' = io.mb_h + (IF y = 0 THEN 0 ELSE 1) - (IF final THEN 0 ELSE 1)
  /\ pc' = "alpha"
  /\ UNCHANGED <<cfg, emit, scalers, io, j, uv_j, alpha_lines, last_y, times, chroma>>

------------------------------------------------------------------------------
(* The alpha plane, without rescaling.                                     *)

\* Rows of the output get their alpha and are multiplied by it.
Blended(rows) ==
  [r \in DOMAIN out \cup DOMAIN rows |->
     LET o == IF r \in DOMAIN out THEN out[r] ELSE Row(Blank(cfg.h), NoChroma) IN
     IF r \in DOMAIN rows
     THEN [o EXCEPT !.a = rows[r], !.times = @ + IF cfg.rgb THEN 1 ELSE 0]
     ELSE o]

AlphaRowsOfStrip ==                                 \* (faulty) no last call
  IF cfg.fancy THEN IF io.mb_y = 0 THEN 0..(io.mb_h - 2)
                    ELSE (io.mb_y - 1)..(NextRow - 2)
  ELSE io.mb_y..(NextRow - 1)

AlphaRowsTwice ==                                   \* (faulty) two rows back
  IF cfg.fancy /\ io.mb_y > 0 THEN (io.mb_y - 2)..(NextRow - 1)
  ELSE io.mb_y..(NextRow - 1)

\* GetAlphaSourceRow(): the rows that EmitFancyRGB() has finished.
AlphaRows ==
  LET start == IF cfg.fancy /\ io.mb_y > 0 THEN io.mb_y - 1 ELSE io.mb_y
      n == CASE ~cfg.fancy -> io.mb_h
             [] cfg.fancy /\ NextRow = cfg.h -> cfg.h - start
             [] cfg.fancy /\ NextRow # cfg.h /\ io.mb_y = 0 -> io.mb_h - 1
             [] cfg.fancy /\ NextRow # cfg.h /\ io.mb_y # 0 -> io.mb_h
  IN  start..(start + n - 1)

\* EmitAlphaYUV(), EmitAlphaRGB()
EmitAlpha ==
  /\ pc = "alpha" /\ emit \in {"EmitYUV", "EmitSampledRGB", "EmitFancyRGB"}
  /\ out' = CASE cfg.alpha = "present" ->
                   Blended([r \in IF cfg.rgb THEN AlphaRows ELSE io.mb_y..(NextRow - 1) |->
                              Unit(cfg.h, r)])
              [] cfg.alpha = "absent" /\ ~cfg.rgb ->
                   Blended([r \in io.mb_y..(NextRow - 1) |-> Opaque])
              [] OTHER -> out
  /\ pc' = "end"
  /\ UNCHANGED <<cfg, emit, scalers, tmp, io, locals, last_y, times, chroma>>

------------------------------------------------------------------------------
(* EmitRescaledYUV(), EmitRescaledAlphaYUV(): one plane after the other,   *)
(* with Rescale().  A turn of one of its loops is a step.                  *)

\* A row that had to be multiplied once has nothing to give otherwise.
Source(r) == IF ~HasAlpha \/ times[r] = 1 THEN Unit(cfg.h, r) ELSE Blank(cfg.h)

RescaleY ==
  /\ pc = "emit" /\ emit = "EmitRescaledYUV"
  /\ \/ /\ CanImport(sy, io.mb_h - j)
        /\ sy' = ImportRow(sy, Source(io.mb_y + j)) /\ j' = j + 1
        /\ UNCHANGED <<pc, lines, out>>
     \/ /\ HasPendingOutput(sy)
        /\ out' = sy.dst_y :> Row(ExportedRow(sy), NoChroma) @@ out
        /\ sy' = AfterExport(sy) /\ lines' = lines + 1
        /\ UNCHANGED <<pc, j>>
     \/ /\ ~HasPendingOutput(sy) /\ j >= io.mb_h
        /\ pc' = "chroma" /\ j' = 0
        /\ UNCHANGED <<sy, lines, out>>
  /\ UNCHANGED <<cfg, emit, su, sa, tmp, io, uv_j, alpha_lines, last_y, times, chroma>>

RescaleUV ==
  /\ pc = "chroma"
  /\ \/ /\ CanImport(su, Half(io.mb_h) - uv_j)
        /\ su' = ImportRow(su, Chroma(uv_j)) /\ uv_j' = uv_j + 1
        /\ UNCHANGED <<pc, chroma>>
     \/ /\ HasPendingOutput(su)
        /\ chroma' = su.dst_y :> ExportedRow(su) @@ chroma
        /\ su' = AfterExport(su)
        /\ UNCHANGED <<pc, uv_j>>
     \/ /\ ~HasPendingOutput(su) /\ uv_j >= Half(io.mb_h)
        /\ pc' = IF HasAlpha THEN "alpha" ELSE "fill"
        /\ UNCHANGED <<su, uv_j, chroma>>
  /\ UNCHANGED <<cfg, emit, sy, sa, tmp, io, j, lines, alpha_lines, last_y, times, out>>

\* After its last line the luma is divided by the alpha.
RescaleA ==
  /\ pc = "alpha" /\ emit = "EmitRescaledYUV"
  /\ \/ /\ CanImport(sa, io.mb_h - j)
        /\ sa' = ImportRow(sa, Luma(j)) /\ j' = j + 1
        /\ UNCHANGED <<pc, alpha_lines, out>>
     \/ /\ HasPendingOutput(sa)
        /\ out' = Blended(sa.dst_y :> ExportedRow(sa))
        /\ sa' = AfterExport(sa) /\ alpha_lines' = alpha_lines + 1
        /\ UNCHANGED <<pc, j>>
     \/ /\ ~HasPendingOutput(sa) /\ j >= io.mb_h
        /\ out' = [r \in DOMAIN out |->
                     IF r \in last_y..(last_y + alpha_lines - 1)
                     THEN [out[r] EXCEPT !.times = @ + 1] ELSE out[r]]
        /\ pc' = "end"
        /\ UNCHANGED <<sa, j, alpha_lines>>
  /\ UNCHANGED <<cfg, emit, sy, su, tmp, io, uv_j, lines, last_y, times, chroma>>

\* A missing alpha plane is filled.
FillAlpha ==
  /\ pc = "fill"
  /\ out' = IF cfg.alpha = "absent"
            THEN Blended([r \in last_y..(last_y + lines - 1) |-> Opaque]) ELSE out
  /\ pc' = "end"
  /\ UNCHANGED <<cfg, emit, scalers, tmp, io, locals, last_y, times, chroma>>

------------------------------------------------------------------------------
(* EmitRescaledRGB(): a line goes out when there is one of luma and one of *)
(* chroma.  EmitRescaledAlphaRGB() then follows, as far as they went.      *)

ImportLuma ==
  /\ pc = "emit" /\ emit = "EmitRescaledRGB"
  /\ IF CanImport(sy, io.mb_h - j)
     THEN /\ sy' = ImportRow(sy, Luma(j)) /\ j' = j + 1
          /\ UNCHANGED pc
     ELSE /\ pc' = IF NeededLines(su, Half(io.mb_h) - uv_j) # 0
                   THEN "importUV" ELSE "export"
          /\ UNCHANGED <<sy, j>>
  /\ UNCHANGED <<cfg, emit, su, sa, tmp, io, uv_j, lines, alpha_lines, last_y, times, buffers>>

ImportChroma ==
  /\ pc = "importUV"
  /\ IF CanImport(su, Half(io.mb_h) - uv_j)
     THEN /\ su' = ImportRow(su, Chroma(uv_j)) /\ uv_j' = uv_j + 1
          /\ UNCHANGED pc
     ELSE /\ pc' = "export"
          /\ UNCHANGED <<su, uv_j>>
  /\ UNCHANGED <<cfg, emit, sy, sa, tmp, io, j, lines, alpha_lines, last_y, times, buffers>>

ExportRGB ==
  /\ pc = "export" /\ emit = "EmitRescaledRGB"
  /\ IF HasPendingOutput(sy) /\ HasPendingOutput(su)
     THEN /\ out' = (last_y + lines) :> Row(ExportedRow(sy), ExportedRow(su)) @@ out
          /\ sy' = AfterExport(sy) /\ su' = AfterExport(su)
          /\ lines' = lines + 1
          /\ UNCHANGED pc
     ELSE /\ pc' = IF j < io.mb_h THEN "emit" ELSE "importA"
          /\ UNCHANGED <<sy, su, lines, out>>
  /\ UNCHANGED <<cfg, emit, sa, tmp, io, j, uv_j, alpha_lines, last_y, times, chroma>>

\* The next row of alpha may be above the strip.
ImportAlpha ==
  /\ pc = "importA"
  /\ CASE ~HasAlpha \/ alpha_lines >= lines -> pc' = "end" /\ UNCHANGED sa
       [] HasAlpha /\ alpha_lines < lines /\ CanImport(sa, NextRow - sa.src_y) ->
            sa' = ImportRow(sa, Unit(cfg.h, sa.src_y)) /\ UNCHANGED pc
       [] HasAlpha /\ alpha_lines < lines /\ ~CanImport(sa, NextRow - sa.src_y) ->
            pc' = "exportA" /\ UNCHANGED sa
  /\ UNCHANGED <<cfg, emit, sy, su, tmp, io, locals, last_y, times, buffers>>

\* ExportAlpha()
ExportAlpha ==
  /\ pc = "exportA"
  /\ IF HasPendingOutput(sa) /\ alpha_lines < lines
     THEN /\ out' = Blended((last_y + alpha_lines) :> ExportedRow(sa))
          /\ sa' = AfterExport(sa) /\ alpha_lines' = alpha_lines + 1
          /\ UNCHANGED pc
     ELSE /\ pc' = "importA"
          /\ UNCHANGED <<sa, alpha_lines, out>>
  /\ UNCHANGED <<cfg, emit, sy, su, tmp, io, j, uv_j, lines, last_y, times, chroma>>

------------------------------------------------------------------------------
(* ARGB rows.                                                              *)

WithChromaOfStrip(r, y) ==                          \* (faulty) from the strip's top
  LET k == lines \div 2 IN
  IF lines % 2 = 0 THEN k :> <<y>> @@ chroma
  ELSE k :> Append(IF k \in DOMAIN chroma THEN chroma[k] ELSE <<>>, y) @@ chroma

\* ConvertToYUVA() of row r: the chroma of an even row is stored, the one of
\* an odd row is averaged with what is there.
WithChroma(r, y) ==
  LET k == r \div 2 IN
  IF r % 2 = 0 THEN k :> <<y>> @@ chroma
  ELSE k :> Append(IF k \in DOMAIN chroma THEN chroma[k] ELSE <<>>, y) @@ chroma

\* EmitRows(), EmitRowsYUVA(), a row at a time.
EmitARGB ==
  /\ pc = "emit" /\ emit \in {"EmitRows", "EmitRowsYUVA"}
  /\ LET r == last_y + lines IN
     /\ out' = r :> Pixels(Luma(lines)) @@ out
     /\ chroma' = IF cfg.rgb THEN chroma ELSE WithChroma(r, Luma(lines))
  /\ lines' = lines + 1
  /\ pc' = IF lines' = io.mb_h THEN "end" ELSE "emit"
  /\ UNCHANGED <<cfg, emit, scalers, tmp, io, j, uv_j, alpha_lines, last_y, times>>

\* EmitRescaledRowsRGBA(), EmitRescaledRowsYUVA(): the lines that the rescaler
\* is going to import are multiplied first.
MultiplyARGB ==
  /\ pc = "emit" /\ emit \in {"EmitRescaledRowsRGBA", "EmitRescaledRowsYUVA"}
  /\ LET first == io.mb_y + j
         needed == NeededLines(sy, io.mb_h - j)
     IN  times' = Multiplied(first..(first + needed - 1))
  /\ pc' = "rescale"
  /\ UNCHANGED <<cfg, emit, scalers, tmp, io, locals, last_y, buffers>>

\* ... imported and exported, by Export(), ExportYUVA() or RescalePlane().
RescaleARGB ==
  /\ pc = "rescale"
  /\ IF CanImport(sy, io.mb_h - j)
     THEN /\ LET r == io.mb_y + j IN
             sy' = ImportRow(sy, IF times[r] = 1 THEN Unit(cfg.h, r) ELSE Blank(cfg.h))
          /\ j' = j + 1
          /\ UNCHANGED pc
     ELSE /\ pc' = "export"
          /\ UNCHANGED <<sy, j>>
  /\ UNCHANGED <<cfg, emit, su, sa, tmp, io, uv_j, lines, alpha_lines, last_y, times, buffers>>

ExportARGB ==
  /\ pc = "export" /\ emit # "EmitRescaledRGB"
  /\ IF HasPendingOutput(sy)
     THEN /\ LET r == last_y + lines
                 y == ExportedRow(sy)
             IN  /\ out' = r :> [Pixels(y) EXCEPT !.times = 1] @@ out
                 /\ chroma' = IF cfg.rgb THEN chroma ELSE WithChroma(r, y)
          /\ sy' = AfterExport(sy) /\ lines' = lines + 1
          /\ UNCHANGED pc
     ELSE /\ pc' = CASE j >= io.mb_h -> "end"
                     [] j < io.mb_h /\ emit = "RescalePlane" -> "rescale"
                     [] j < io.mb_h /\ emit # "RescalePlane" -> "emit"
          /\ UNCHANGED <<sy, lines, buffers>>
  /\ UNCHANGED <<cfg, emit, su, sa, tmp, io, j, uv_j, alpha_lines, last_y, times>>

\* The end of CustomPut() or ProcessRows().
Return ==
  /\ pc = "end"
  /\ last_y' = last_y + lines /\ pc' = "idle"
  /\ UNCHANGED <<cfg, emit, scalers, tmp, io, locals, times, buffers>>

Work ==
  \/ EmitPlain \/ EmitFancy \/ EmitAlpha
  \/ RescaleY \/ RescaleUV \/ RescaleA \/ FillAlpha
  \/ ImportLuma \/ ImportChroma \/ ExportRGB \/ ImportAlpha \/ ExportAlpha
  \/ EmitARGB \/ MultiplyARGB \/ RescaleARGB \/ ExportARGB
  \/ Return

Finished == pc = "refused" \/ (pc = "idle" /\ NextRow = cfg.h)
Terminated == Finished /\ UNCHANGED vars

Next == Setup \/ Put \/ Work \/ Terminated

Spec == Init /\ [][Next]_vars

\* put() runs on.
FairSpec == Spec /\ WF_vars(Work)

------------------------------------------------------------------------------
(* Properties.                                                             *)

Size == OutputSize(cfg)

\* A rescaler whose fixed-point factors cannot be represented.
Narrow(s) == s.y_expand /\ s.x_add = 1
Exact == cfg.scaling => ~Narrow(sy) /\ ~(cfg.decoder = "lossy" /\ Narrow(su))

RightLuma(r) == IF cfg.scaling THEN Share(cfg.h, Size.h, r) ELSE Unit(cfg.h, r)

\* The chroma row that a row of RGB lies in, and the one on its other side.
RightFancy(r) ==
  LET near == r \div 2
      far == IF r % 2 = 0 THEN near - 1 ELSE near + 1
  IN  Mix(3, Unit(Half(cfg.h), near), 1,
          Unit(Half(cfg.h), IF far \in 0..(Half(cfg.h) - 1) THEN far ELSE near))

RightChroma(r) ==
  CASE emit = "EmitFancyRGB" -> RightFancy(r)
    [] emit = "EmitSampledRGB" -> Unit(Half(cfg.h), r \div 2)
    [] emit = "EmitRescaledRGB" -> Share(Half(cfg.h), Size.h, r)
    [] OTHER -> <<>>

RightAlpha(r) ==
  CASE cfg.decoder # "lossy" \/ HasAlpha -> RightLuma(r)
    [] cfg.decoder = "lossy" /\ ~HasAlpha ->
         IF cfg.rgb \/ cfg.alpha = "absent" THEN Opaque ELSE Unset

RightTimes ==
  IF (cfg.decoder = "lossy" /\ HasAlpha /\ emit # "EmitYUV")
     \/ (cfg.decoder # "lossy" /\ cfg.scaling)
  THEN 1 ELSE 0

RightPlane ==
  CASE emit = "EmitYUV" -> [k \in 0..(Half(cfg.h) - 1) |-> Unit(Half(cfg.h), k)]
    [] emit = "EmitRescaledYUV" ->
         [k \in 0..(Half(Size.h) - 1) |-> Share(Half(cfg.h), Half(Size.h), k)]
    [] cfg.decoder # "lossy" /\ ~cfg.rgb ->
         [k \in 0..(Half(Size.h) - 1) |->
            IF 2 * k + 1 < Size.h THEN <<RightLuma(2 * k), RightLuma(2 * k + 1)>>
            ELSE <<RightLuma(2 * k)>>]
    [] OTHER -> <<>>

RowsRight ==
  (pc = "idle" /\ Exact) =>
    /\ DOMAIN out = 0..(last_y - 1)
    /\ \A r \in DOMAIN out :
         out[r] = [y |-> RightLuma(r), uv |-> RightChroma(r),
                   a |-> RightAlpha(r), times |-> RightTimes]
    /\ NextRow = cfg.h => last_y = Size.h /\ chroma = RightPlane

\* After each call, whatever the strips were cut into, the rows that last_y
\* announces, and no others, are written, in the right proportions of the
\* source's rows, with the chroma and the alpha of the same place, multiplied
\* exactly once; after the last call all of them are, and the chroma plane.
\* The loops over the columns end where the source does, and give each output
\* pixel its share of the source's pixels.
OutputRight ==
  /\ \A s \in {sy, su} : s # <<>> => Columns(s.w, s.dw) = RightColumns(s.w, s.dw)
  /\ RowsRight

\* The rows of chroma all of whose rows are announced: the last of them may
\* share its chroma with the next.
WholeChroma ==
  IF cfg.rgb THEN {}
  ELSE 0..((IF last_y = Size.h THEN Half(last_y) ELSE last_y \div 2) - 1)

\* The rows that last_y announces are final, with their luma and their alpha:
\* neither the rows that are finished late nor the alpha that is blended late
\* touch them again.  So are the rows of the chroma plane whose two rows are
\* announced, but for EmitRescaledYUV(), whose chroma is final when it is
\* exported, one call later at the latest.  The chroma of an announced row that
\* is shared with the next one may be missing, or change, whatever the words of
\* decode.h:345, "last decoded row", suggest.
AnnouncedRowsStay ==
  [][/\ \A r \in 0..(last_y - 1) : r \in DOMAIN out' /\ out'[r] = out[r]
     /\ \A k \in IF emit = "EmitRescaledYUV" THEN DOMAIN chroma ELSE WholeChroma :
          k \in DOMAIN chroma' /\ chroma'[k] = chroma[k]
     /\ pc = "end" => WholeChroma \subseteq DOMAIN chroma]_vars

\* Every call returns: luma never waits for chroma, nor either for alpha,
\* that only the next strip can bring.
Working == pc \notin {"setup", "refused", "idle"}
PutReturns == Working ~> ~Working

\* A picture whose samples are all the same keeps them: no row of the output
\* is made of less than a whole row.
Total(v) ==
  LET sum[n \in 0..cfg.h] == IF n = 0 THEN 0 ELSE sum[n - 1] + v[n - 1]
  IN  sum[cfg.h]

FlatStaysFlat == \A r \in DOMAIN out : Total(out[r].y) = Total(RightLuma(r))
=============================================================================
