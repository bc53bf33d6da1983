--------------------------- MODULE LosslessDecoder ---------------------------
(***************************************************************************)
(* The lossless decoder (src/dec/vp8l_dec.c): DecodeImageData(), its       *)
(* checkpoints and its lazily filled color cache.  It has two users.       *)
(*   "image": WebPIDecoder, whose data arrives in pieces.  Decoding stops  *)
(*     anywhere, goes back to the last checkpoint and is called again.     *)
(*   "alpha": the alpha plane of a lossy picture, complete from the start, *)
(*     decoded up to a further row at each call.                           *)
(*                                                                         *)
(* A file is the picture an encoder had and the tokens it wrote for it.    *)
(* A token has the first pixel it describes (at), the number of pixels     *)
(* (len), the amount of data received when its last bit is (end) and an    *)
(* argument: the color, the key in the color cache, or the distance.  A    *)
(* token of a group with one trivial code takes no bit: its end is the     *)
(* previous one.  Left out: the header's contents, the transforms (which   *)
(* take whole rows, in order), the top and the sides of the crop window.   *)
(***************************************************************************)
EXTENDS Integers, Sequences, FiniteSetsExt

CONSTANTS
  Width, Height,
  SyncRows,     \* SYNC_EVERY_N_ROWS, 8 in the code
  CacheRows,    \* NUM_ARGB_CACHE_ROWS, 16 in the code
  HeaderSize,   \* data taken by everything before the first pixel
  HeaderShare,  \* the share of the chunk the header waits for, 8 in the code
  Colors,
  Black,        \* what the color cache holds at first
  Slots, Slot,  \* slots of the color cache, and the slot of a color
  Files

NumPixels == Width * Height

\* The color cache after the pixels a .. b-1 of px, starting from ch.
Insert(ch, px, a, b) ==
  [s \in Slots |->
     LET I == {i \in a..(b - 1) : Slot[px[i]] = s}
     IN  IF I = {} THEN ch[s] ELSE px[Max(I)]]

EmptyCache == [s \in Slots |-> Black]

\* A backward reference repeats the dist pixels before it.
CopyBlock(px, at, dist, len) ==
  [i \in DOMAIN px |-> IF i \in at..(at + len - 1)
                       THEN px[at - dist + ((i - at) % dist)] ELSE px[i]]

InRange(t, at) == t.arg <= at /\ t.len <= NumPixels - at

\* A token says what the picture holds.
Describes(t, picture) ==
  CASE t.kind = "literal" -> picture[t.at] = t.arg
    [] t.kind = "cache" ->
         picture[t.at] = Insert(EmptyCache, picture, 0, t.at)[t.arg]
    [] t.kind = "copy" ->
         InRange(t, t.at) => picture = CopyBlock(picture, t.at, t.arg, t.len)

ASSUME SizesAssumption ==
  /\ Width \in Nat \ {0} /\ Height \in Nat \ {0}
  /\ SyncRows \in Nat \ {0} /\ CacheRows \in Nat \ {0} /\ SyncRows <= CacheRows
  /\ HeaderSize \in Nat /\ HeaderShare \in Nat \ {0}
  /\ Black \in Colors /\ Slot \in [Colors -> Slots]

ASSUME FilesAssumption ==
  \A f \in Files :
    LET n == Len(f.tokens) IN
    /\ f.picture \in [0..(NumPixels - 1) -> Colors] /\ f.size \in Nat
    /\ f.tokens \in Seq([kind : {"literal", "cache", "copy"}, at : Nat,
                         len : Nat \ {0}, end : Nat, arg : Nat])
    /\ n > 0 /\ f.tokens[1].at = 0
    /\ f.tokens[n].at + f.tokens[n].len >= NumPixels
    /\ \A i \in 1..n :
         LET t == f.tokens[i] IN
         /\ i < n => f.tokens[i + 1].at = t.at + t.len
         /\ t.kind # "copy" => t.len = 1
         /\ t.kind = "copy" => t.arg > 0
         /\ t.kind = "literal" => t.arg \in Colors
         /\ t.kind = "cache" => t.arg \in Slots
         /\ Describes(t, f.picture)

VARIABLES
  use,         \* "image" or "alpha"
  file, crop,  \* what is decoded, and io->crop_bottom
  arrived,     \* data the bit reader can reach
  fresh,       \* it grew since the last call
  state,       \* STATE_VP8L_HEADER, STATE_VP8L_DATA, done, or error
  br,          \* the bit reader is after this number of tokens
  incremental, lastPixel, lastRow, pixels,   \* the VP8LDecoder, without "_"
  cache,       \* hdr_.color_cache_
  saved,       \* saved_br_, saved_last_pixel_ and saved_color_cache_
  pc,          \* where DecodeImageData() is
  lastRowAsked,                              \* its parameter last_row
  src, row, col, lastCached, nextSync,       \* its locals
  due,         \* the parameter of process_func()
  out          \* the rows given to the inverse transforms

inputs  == <<use, file, crop>>
decoder == <<br, incremental, lastPixel, pixels, cache, saved>>
locals  == <<lastRowAsked, src, row, col, lastCached, nextSync>>
output  == <<lastRow, due, out>>
vars == <<inputs, arrived, fresh, state, pc, decoder, locals, output>>

Init ==
  /\ use \in {"image", "alpha"} /\ file \in Files /\ crop \in 1..Height
  /\ arrived = IF use = "image" THEN 0 ELSE file.size
  /\ fresh = (use = "alpha")
  /\ state = "header" /\ pc = "idle"
  /\ br = 0 /\ incremental = FALSE /\ lastPixel = 0 /\ lastRow = 0
  /\ pixels = [i \in 0..(NumPixels - 1) |-> Black]
  /\ cache = EmptyCache
  /\ saved = [br |-> 0, lastPixel |-> 0, cache |-> EmptyCache]
  /\ lastRowAsked = 0 /\ src = 0 /\ row = 0 /\ col = 0
  /\ lastCached = 0 /\ nextSync = 0 /\ due = 0 /\ out = <<>>

------------------------------------------------------------------------------
(* The calls of the two users.                                             *)

\* WebPIAppend(), WebPIUpdate(): more data, up to the end of the chunk.
Receive ==
  /\ use = "image" /\ state \in {"header", "data"} /\ pc = "idle" /\ ~fresh
  /\ \E n \in (arrived + 1)..file.size : arrived' = n
  /\ fresh' = TRUE
  /\ UNCHANGED <<inputs, state, pc, decoder, locals, output>>

\* The header is decoded from its start at each call.
Decoding(s) == fresh /\ state = s /\ pc = "idle"

HeaderTooShort == arrived * HeaderShare < file.size \/ arrived < HeaderSize

DecodeHeader ==
  /\ Decoding("header") /\ ~HeaderTooShort
  /\ state' = "data"
  /\ UNCHANGED <<inputs, arrived, fresh, pc, decoder, locals, output>>

HeaderSuspended ==
  /\ Decoding("header") /\ HeaderTooShort
  /\ state' = IF arrived < file.size THEN "header" ELSE "error"
  /\ fresh' = FALSE
  /\ UNCHANGED <<inputs, arrived, pc, decoder, locals, output>>

\* DecodeImageData() up to its loop.
Enter(upTo, isIncremental) ==
  /\ pc' = "loop" /\ lastRowAsked' = upTo
  /\ incremental' = isIncremental
  /\ src' = lastPixel /\ lastCached' = lastPixel
  /\ row' = lastPixel \div Width /\ col' = lastPixel % Width
  /\ nextSync' = IF isIncremental THEN row' ELSE Height + 1
  /\ UNCHANGED <<inputs, arrived, state, br, lastPixel, pixels, cache, saved,
                 output>>

DecodeAtOnce ==                                                    \* (faulty)
  /\ use = "image" /\ Decoding("data")
  /\ fresh' = FALSE
  /\ Enter(crop, FALSE)

DecodeImage ==
  /\ use = "image" /\ Decoding("data")
  /\ fresh' = FALSE
  /\ Enter(crop, arrived < file.size)

DecodeAlphaRows ==
  /\ use = "alpha" /\ Decoding("data")
  /\ \E upTo \in (lastRow + 1)..crop : Enter(upTo, FALSE)
  /\ UNCHANGED fresh

------------------------------------------------------------------------------
(* One iteration of the loop.                                              *)

Token == file.tokens[br + 1]

SaveState ==
  /\ saved' = [br |-> br, lastPixel |-> src, cache |-> cache]
  /\ nextSync' = row + SyncRows

NotTheLastBit == arrived > Token.end                               \* (faulty)

\* ~VP8LIsEndOfStream() after the token: exactly what is there may be read.
Complete == arrived >= Token.end

StartOfLoop ==
  /\ pc = "loop" /\ src < lastRowAsked * Width
  /\ IF row >= nextSync THEN SaveState ELSE UNCHANGED <<saved, nextSync>>

Iteration(kind) ==
  /\ StartOfLoop /\ Complete /\ Token.kind = kind
  /\ UNCHANGED <<inputs, arrived, fresh, incremental, lastPixel,
                 lastRowAsked, row, output>>

Advance(length) ==
  /\ br' = br + 1 /\ src' = src + length /\ col' = col + length
  /\ UNCHANGED state

\* Literals and colors of the cache are only inserted at the end of a row.
AdvanceByOne(color) ==
  /\ pixels' = [pixels EXCEPT ![src] = color]
  /\ Advance(1)
  /\ pc' = IF col + 1 >= Width THEN "wrap" ELSE "loop"

Literal ==
  /\ Iteration("literal")
  /\ AdvanceByOne(Token.arg)
  /\ UNCHANGED <<cache, lastCached>>

InsertPending == cache' = Insert(cache, pixels, lastCached, src) /\ lastCached' = src

ColorCache ==
  /\ Iteration("cache")
  /\ InsertPending
  /\ AdvanceByOne(cache'[Token.arg])

BackwardReference ==
  /\ Iteration("copy")
  /\ IF InRange(Token, src)
     THEN /\ pixels' = CopyBlock(pixels, src, Token.arg, Token.len)
          /\ Advance(Token.len)
          /\ pc' = "wrap"
     ELSE /\ state' = "error" /\ pc' = "idle"
          /\ UNCHANGED <<pixels, br, src, col>>
  /\ UNCHANGED <<cache, lastCached>>

RestoreReader ==                                                   \* (faulty)
  br' = saved'.br /\ lastPixel' = saved'.lastPixel /\ cache' = cache

\* VP8LIsEndOfStream(): back to the checkpoint, or an error if this was all.
RestoreState ==
  /\ br' = saved'.br /\ lastPixel' = saved'.lastPixel /\ cache' = saved'.cache

EndOfStream ==
  /\ StartOfLoop /\ ~Complete
  /\ pc' = "idle"
  /\ IF incremental THEN RestoreState /\ UNCHANGED state
     ELSE state' = "error" /\ UNCHANGED <<br, lastPixel, cache>>
  /\ UNCHANGED <<inputs, arrived, fresh, incremental, pixels, lastRowAsked, src,
                 row, col, lastCached, output>>

------------------------------------------------------------------------------
(* Ends of rows.                                                           *)

IsDue(r) == r <= lastRowAsked /\ r % CacheRows = 0

Wrap ==
  /\ pc = "wrap" /\ col >= Width
  /\ col' = col - Width /\ row' = row + 1
  /\ IF IsDue(row + 1) THEN pc' = "rows" /\ due' = row + 1
                       ELSE UNCHANGED <<pc, due>>
  /\ UNCHANGED <<inputs, arrived, fresh, state, decoder, lastRowAsked, src,
                 lastCached, nextSync, lastRow, out>>

EndOfToken ==
  /\ pc = "wrap" /\ col < Width
  /\ InsertPending
  /\ pc' = "loop"
  /\ UNCHANGED <<inputs, arrived, fresh, state, br, incremental, lastPixel,
                 pixels, saved, lastRowAsked, src, row, col, nextSync, output>>

EndOfLoop ==
  /\ pc = "loop" /\ src >= lastRowAsked * Width
  /\ due' = Min({row, lastRowAsked})
  /\ pc' = "last"
  /\ UNCHANGED <<inputs, arrived, fresh, state, decoder, locals, lastRow, out>>

RowsOf(px, first, n) ==
  [k \in 1..n |-> [c \in 0..(Width - 1) |-> px[(first + k - 1) * Width + c]]]

AllAtOnce == due - lastRow                                         \* (faulty)

\* ProcessRows() takes all the rows at once; ExtractAlphaRows() loops.
Piece == IF use = "image" THEN due - lastRow ELSE Min({due - lastRow, CacheRows})

ProcessRows ==
  /\ pc \in {"rows", "last"}
  /\ out' = out \o RowsOf(pixels, lastRow, Piece)
  /\ lastRow' = lastRow + Piece
  /\ IF lastRow' # due THEN UNCHANGED <<pc, state, lastPixel>>
     ELSE IF pc = "rows" THEN pc' = "wrap" /\ UNCHANGED <<state, lastPixel>>
     ELSE /\ pc' = "idle" /\ lastPixel' = src
          /\ state' = IF lastRow' = crop THEN "done" ELSE "data"
  /\ UNCHANGED <<inputs, arrived, fresh, br, incremental, pixels, cache, saved,
                 locals, due>>

------------------------------------------------------------------------------
User == Receive \/ DecodeAlphaRows

Decode ==
  \/ DecodeHeader \/ HeaderSuspended \/ DecodeImage
  \/ Literal \/ ColorCache \/ BackwardReference \/ EndOfStream
  \/ Wrap \/ EndOfToken \/ EndOfLoop \/ ProcessRows

Stopped == state \in {"done", "error"} /\ UNCHANGED vars

Next == User \/ Decode \/ Stopped

Spec == Init /\ [][Next]_vars

\* A call returns; the frame decoder asks for the alpha rows up to the last.
\* Nothing is assumed of the data.
FairSpec == Spec /\ WF_vars(Decode) /\ WF_vars(DecodeAlphaRows)

------------------------------------------------------------------------------
(* Properties                                                              *)

\* However the data is cut, and however often decoding went back to a
\* checkpoint, the rows that left the decoder are the picture's rows, each
\* once, in order (DecodeImageData, SaveState, RestoreState).
OutputRight == out = RowsOf(file.picture, 0, lastRow)

\* The assertion of ProcessRows() and the size of argb_cache_: the rows given
\* to the transforms at once fit, and last_row_ never goes back, although the
\* checkpoint may be before rows that were already given, and the alpha rows
\* may be asked for long after a backward reference decoded them.
BatchFits == [][lastRow' - lastRow \in 0..CacheRows]_vars

\* Nothing is wrong with what a file says of the rows to decode.
Good(f) ==
  /\ f.size >= HeaderSize
  /\ \A i \in DOMAIN f.tokens :
       LET t == f.tokens[i] IN
       t.at < crop * Width =>
         t.end <= f.size /\ (t.kind = "copy" => InRange(t, t.at))

\* A good file is decoded once all of its data is there, and data that has
\* not arrived yet is not mistaken for a wrong stream: in incremental decoding
\* the end of the data suspends (DecodeVP8LHeader, DecodeVP8LData, the end of
\* DecodeImageData), and an error is final.
GoodFilesAreDecoded ==
  Good(file) /\ (arrived = file.size \/ state = "error") ~> state = "done"
=============================================================================
