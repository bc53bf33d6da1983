---------------------- MODULE IncrementalDecoder_proofs ---------------------
(***************************************************************************)
(* The addresses of the incremental decoder, what it decodes of the bytes  *)
(* it got, its hooks and its errors, for every layout of the files, every  *)
(* way to cut them, and every size of the chunks, of the macroblocks and   *)
(* of what the bit readers load ahead.                                     *)
(***************************************************************************)
EXTENDS IncrementalDecoder, TLAPS

-----------------------------------------------------------------------------
(* The inductive invariant                                                 *)

Modes     == {"NONE", "APPEND", "MAP"}
Addresses == [buf : Buffers \cup {0}, off : Int]
Readers   == [ptr : Addresses, len : Int, pos : Int, eof : BOOLEAN]
Memories  == [mode : Modes, buf : {0, 1, 2}, start : Int, end : Int, size : Int]

\* Types.
TypeOK ==
  /\ file \in Files
  /\ received \in Nat
  /\ live \subseteq Buffers
  /\ base \in [Buffers -> Int]
  /\ mem \in Memories
  /\ state \in {"WEBP_HEADER", "VP8_HEADER", "VP8_PARTS0", "VP8_DATA", "DONE",
                "ERROR"}
  /\ dec \in BOOLEAN /\ ready \in BOOLEAN
  /\ ioData \in Addresses /\ br \in Readers /\ alphaData \in Addresses
  /\ parts \in [1..file.nparts -> Readers]
  /\ alphaDone \in BOOLEAN
  /\ mbX \in Nat /\ mbY \in Nat /\ lastMbY \in Int /\ modeRows \in Int
  /\ pc \in {"client", "decode", "copy", "enter", "deleted"}
  /\ blame \in BOOLEAN

\* Where a call is, and what there is at each state.
CallInv ==
  /\ pc = "client" => state # "VP8_HEADER"
  /\ pc = "decode" => state \notin {"DONE", "ERROR"}
  /\ pc \in {"copy", "enter"} => state = "VP8_PARTS0" /\ ready
  /\ state = "VP8_PARTS0" /\ pc \in {"client", "decode"} => ~ready
  /\ state \in {"WEBP_HEADER", "VP8_HEADER", "DONE"} => ~ready
  /\ state = "VP8_DATA" => ready
  /\ state = "WEBP_HEADER" => ~dec
  /\ state \notin {"WEBP_HEADER", "ERROR"} => dec
  /\ hooks = "open" => state = "VP8_DATA"
  /\ state = "VP8_DATA" /\ pc # "deleted" => hooks = "open"
  /\ pc = "deleted" => hooks # "open"

\* The memory holds the bytes received from base[mem.buf] on.
MemInv ==
  /\ 0 <= mem.start /\ mem.start <= mem.end /\ mem.end <= mem.size
  /\ mem.buf = 0 => /\ received = 0 /\ mem.size = 0
                    /\ state = "WEBP_HEADER" /\ mem.mode # "MAP"
  /\ mem.buf # 0 => /\ mem.buf \in live
                    /\ base[mem.buf] + mem.end = received
                    /\ mem.mode # "NONE"
                    /\ (mem.mode = "MAP" => base[mem.buf] = 0)

\* The offset in the file of the first byte that is not released.
StartsAt(pos) == base[mem.buf] + mem.start = pos

\* Address p is in the memory, not released, and of byte pos.
InMem(p, pos) ==
  p.buf = mem.buf /\ base[mem.buf] + p.off = pos /\ mem.start <= p.off

\* The headers.
HeadersInv ==
  /\ state = "WEBP_HEADER" => /\ mem.start = 0
                              /\ (mem.buf # 0 => base[mem.buf] = 0)
  /\ state = "VP8_HEADER" \/ (state = "VP8_PARTS0" /\ pc # "enter") =>
       StartsAt(file.vp8)
  /\ state \in {"VP8_HEADER", "VP8_PARTS0"} =>
       /\ ioData.buf = mem.buf /\ ioData.off >= 0
       /\ base[mem.buf] + ioData.off = file.vp8

\* The reader of partition 0.
Part0Inv ==
  /\ ready => Holds(br.ptr, br.pos)
  /\ ready /\ mem.mode = "MAP" => br.ptr.buf = mem.buf
  /\ (pc = "enter" \/ state = "VP8_DATA") /\ mem.mode = "APPEND" =>
       br.ptr.buf = Part0Copy
  /\ pc = "copy" =>
       /\ br.len = file.parts - file.modes
       /\ \A p \in 1..file.nparts : parts[p].pos >= file.parts

\* The readers of the other partitions.
PartsInv ==
  ready => \A p \in 1..file.nparts :
    /\ InMem(parts[p].ptr, parts[p].pos)
    /\ parts[p].len >= 0
    /\ p = file.nparts => parts[p].ptr.off + parts[p].len = mem.end
    /\ p # file.nparts => parts[p].pos + parts[p].len = file.last
    /\ state # "ERROR" => ~parts[p].eof

\* The compressed alpha is kept.
AlphaInv ==
  /\ state = "WEBP_HEADER" \/ ~dec \/ file.alpha = 0 => alphaData = NULL
  /\ dec /\ file.alpha # 0 /\ ~alphaDone =>
       /\ alphaData.buf = mem.buf
       /\ base[mem.buf] + alphaData.off = file.alpha
       /\ 0 <= alphaData.off /\ alphaData.off <= mem.start

\* The rows whose modes are parsed, and the place in the rows.
RowsInv ==
  /\ modeRows = lastMbY + 1 /\ lastMbY \in {mbY - 1, mbY}
  /\ mbX > 0 => lastMbY = mbY
  /\ mbX <= file.mbW /\ mbY <= file.mbH
  /\ state \in {"WEBP_HEADER", "VP8_HEADER", "VP8_PARTS0"} => mbX = 0 /\ mbY = 0

\* A single partition is released up to the last macroblock decoded.
Decoded == mbY * file.mbW + mbX

MbInv ==
  file.nparts = 1 /\ pc # "deleted" /\ (state = "VP8_DATA" \/ pc = "enter") =>
    /\ Decoded = 0 => StartsAt(file.parts - (file.modes - file.vp8))
    /\ Decoded > 0 => /\ file.mbs[Decoded] <= base[mem.buf] + mem.start
                      /\ parts[1].ptr.off = mem.start

\* A call that returned SUSPENDED could not go on.
SuspendedInv ==
  pc = "client" /\ ret = "SUSPENDED" /\ Suspended /\ MbsInPartition =>
    received < NextByte

IncrementalInv ==
  /\ TypeOK /\ CallInv /\ RowsInv /\ SuspendedInv /\ NoFalseError
  /\ pc # "deleted" =>
       MemInv /\ HeadersInv /\ Part0Inv /\ PartsInv /\ AlphaInv /\ MbInv

-----------------------------------------------------------------------------
(* The files and the types                                                 *)

\* What FilesAssumption says of the file.
LEMMA FileFacts ==
  ASSUME TypeOK
  PROVE  /\ file.alpha \in Nat /\ file.vp8 \in Nat /\ file.modes \in Nat
         /\ file.parts \in Nat /\ file.last \in Nat /\ file.size \in Nat
         /\ file.alpha < file.vp8 /\ file.vp8 < file.modes
         /\ file.modes < file.parts /\ file.parts <= file.last
         /\ file.last < file.size
         /\ file.parts + 3 * (file.nparts - 1) <= file.last
         /\ file.nparts = 1 => file.last = file.parts
         /\ file.nparts \in {1, 2}
         /\ file.mbW \in Nat /\ file.mbW > 0 /\ file.mbH \in Nat /\ file.mbH > 0
<1>1. {file.alpha, file.vp8, file.modes, file.parts, file.last, file.size} \subseteq Nat
  BY FilesAssumption DEF TypeOK
<1>2. file.nparts \in {1, 2} /\ file.parts + 3 * (file.nparts - 1) <= file.last
  BY FilesAssumption DEF TypeOK
<1>3. file.parts <= file.last
  BY <1>1, <1>2
<1> QED  BY <1>1, <1>2, <1>3, FilesAssumption DEF TypeOK

\* The fields of the records TypeOK describes.
LEMMA Fields ==
  ASSUME TypeOK
  PROVE  /\ received \in Nat
         /\ mem.mode \in Modes /\ mem.buf \in {0, 1, 2}
         /\ mem.start \in Int /\ mem.end \in Int /\ mem.size \in Int
         /\ \A b \in Buffers : base[b] \in Int
         /\ ioData \in Addresses /\ ioData.off \in Int
         /\ alphaData \in Addresses /\ alphaData.off \in Int
         /\ br.ptr \in Addresses /\ br.ptr.off \in Int
         /\ br.len \in Int /\ br.pos \in Int
         /\ \A p \in 1..file.nparts :
              /\ parts[p] \in Readers /\ parts[p].ptr \in Addresses
              /\ parts[p].ptr.off \in Int
              /\ parts[p].len \in Int /\ parts[p].pos \in Int
BY DEF TypeOK, Memories, Addresses, Readers

\* Releasing what precedes s.
LEMMA Released ==
  ASSUME NEW m \in Memories, NEW s \in Int, NEW r, r = [m EXCEPT !.start = s]
  PROVE  /\ r \in Memories /\ r.mode = m.mode /\ r.buf = m.buf
         /\ r.start = s /\ r.end = m.end /\ r.size = m.size
BY DEF Memories

-----------------------------------------------------------------------------
(* The start                                                               *)

\* Before the first call.
LEMMA InitInv ==
  ASSUME Init
  PROVE  IncrementalInv
<1> USE DEF Init
<1>1. NULL \in Addresses
  BY DEF NULL, Addresses
<1>2. NoReader \in Readers
  BY <1>1 DEF NoReader, Reader, Readers
<1>3. TypeOK
  <2>1. parts \in [1..file.nparts -> Readers]
    BY <1>2
  <2>2. mem \in Memories
    BY DEF Memories, Modes
  <2>3. base \in [Buffers -> Int]
    OBVIOUS
  <2>4. dec \in BOOLEAN /\ ready \in BOOLEAN /\ alphaDone \in BOOLEAN /\ blame \in BOOLEAN
    BY Zenon
  <2>5. mbX \in Nat /\ mbY \in Nat /\ lastMbY \in Int /\ modeRows \in Int /\ received \in Nat
    OBVIOUS
  <2> QED  BY <1>1, <1>2, <2>1, <2>2, <2>3, <2>4, <2>5, Zenon DEF TypeOK
<1>4. CallInv /\ RowsInv /\ SuspendedInv /\ NoFalseError
  BY <1>3, FileFacts DEF CallInv, RowsInv, SuspendedInv, NoFalseError
<1>5. MemInv
  BY DEF MemInv
<1>6. HeadersInv /\ Part0Inv /\ PartsInv /\ AlphaInv /\ MbInv
  BY DEF HeadersInv, Part0Inv, PartsInv, AlphaInv, MbInv
<1> QED  BY <1>3, <1>4, <1>5, <1>6 DEF IncrementalInv

-----------------------------------------------------------------------------
(* The calls that take in nothing, and the steps that suspend              *)

\* The parts of the invariant that are about the memory and the readers stay
\* when only the call in progress and its result change.
LEMMA OnlyTheCall ==
  ASSUME IncrementalInv, pc # "deleted",
         UNCHANGED <<file, received, live, base, mem, state, dec, ready, readers, rows>>,
         pc' \in {"client", "decode"}, pc \in {"client", "decode"}
  PROVE  (MemInv /\ HeadersInv /\ Part0Inv /\ PartsInv /\ AlphaInv /\ MbInv)'
<1> USE DEF IncrementalInv, readers, rows
<1>1. MemInv' BY DEF MemInv
<1>2. HeadersInv' BY DEF HeadersInv, StartsAt
<1>3. Part0Inv' BY DEF Part0Inv, Holds
<1>4. PartsInv' BY DEF PartsInv, InMem
<1>5. AlphaInv' BY DEF AlphaInv
<1>6. MbInv' BY DEF MbInv, Decoded, StartsAt
<1> QED BY <1>1, <1>2, <1>3, <1>4, <1>5, <1>6

\* WebPIAppend() or WebPIUpdate() refuse the bytes.
LEMMA FeedRefusedInv ==
  ASSUME IncrementalInv, FeedRefused
  PROVE  IncrementalInv'
<1> USE DEF IncrementalInv, FeedRefused
<1> USE Fields
<1>1. CallInv' /\ RowsInv' /\ SuspendedInv' /\ NoFalseError'
  BY DEF CallInv, RowsInv, SuspendedInv, NoFalseError, Returns, readers, rows, history, Suspended, MbsFit
<1>2. mem' = [mem EXCEPT !.mode = mem'.mode] /\ mem'.mode \in {"APPEND", mem.mode}
  BY DEF Memories, Modes, TypeOK
<1>3. mem' \in Memories /\ mem'.start = mem.start /\ mem'.end = mem.end
      /\ mem'.buf = mem.buf /\ mem'.size = mem.size
  BY <1>2 DEF Memories, Modes, TypeOK
<1>4. mem'.mode # mem.mode => mem.mode = "NONE" /\ mem'.mode = "APPEND"
  BY DEF Memories, Modes, TypeOK
<1>5. TypeOK'
  BY <1>3 DEF TypeOK, Returns, readers, rows, history
<1>6. MemInv'
  BY <1>3, <1>4 DEF MemInv, CallInv
<1>7. HeadersInv'
  BY <1>3 DEF HeadersInv, StartsAt, readers, Returns
<1>8. Part0Inv'
  BY <1>3, <1>4 DEF Part0Inv, Holds, MemInv, CallInv, readers, Returns
<1>9. PartsInv'
  BY <1>3 DEF PartsInv, InMem, readers
<1>10. AlphaInv'
  BY <1>3 DEF AlphaInv, readers, rows
<1>11. MbInv'
  BY <1>3 DEF MbInv, Decoded, StartsAt, readers, rows, Returns
<1> QED BY <1>1, <1>5, <1>6, <1>7, <1>8, <1>9, <1>10, <1>11

\* A call when the image is decoded, or could not be.
LEMMA FeedTooLateInv ==
  ASSUME IncrementalInv, FeedTooLate
  PROVE  IncrementalInv'
<1> USE DEF IncrementalInv, FeedTooLate
<1>1. CallInv' /\ RowsInv' /\ SuspendedInv' /\ NoFalseError'
  BY DEF CallInv, RowsInv, SuspendedInv, NoFalseError, Returns, readers, rows, history, Suspended, MbsFit, input
<1>2. TypeOK'
  BY DEF TypeOK, Returns, readers, rows, history, input
<1>3. (MemInv /\ HeadersInv /\ Part0Inv /\ PartsInv /\ AlphaInv /\ MbInv)'
  BY OnlyTheCall DEF Returns, input
<1> QED BY <1>1, <1>2, <1>3

\* WebPIDelete() closes the hooks of a frame that is not finished.
LEMMA DeleteInv ==
  ASSUME IncrementalInv, Delete
  PROVE  IncrementalInv'
<1> USE DEF IncrementalInv, Delete
<1>1. RowsInv' /\ SuspendedInv' /\ NoFalseError'
  BY DEF RowsInv, SuspendedInv, NoFalseError, readers, rows, Suspended, MbsFit
<1>3. hooks' # "open"
  BY DEF CallInv
<1>4. CallInv'
  BY <1>3 DEF CallInv, RowsInv, SuspendedInv, NoFalseError, Returns, readers, rows, history, Suspended, MbsFit
<1>2. TypeOK'
  BY DEF TypeOK, readers, rows
<1> QED BY <1>1, <1>2, <1>4

\* DecodeWebPHeaders() gives up when the frame header is not there, which is
\* at file.vp8.
LEMMA HeadersSuspendedInv ==
  ASSUME IncrementalInv, HeadersSuspended
  PROVE  IncrementalInv'
<1> USE DEF IncrementalInv, HeadersSuspended
<1> USE FileFacts, Fields
<1>1. CallInv' /\ RowsInv' /\ NoFalseError'
  BY DEF CallInv, RowsInv, NoFalseError, Returns, readers, rows, history, MbsFit, input
<1>2. TypeOK'
  BY DEF TypeOK, Returns, readers, rows, history, input
<1>3. (MemInv /\ HeadersInv /\ Part0Inv /\ PartsInv /\ AlphaInv /\ MbInv)'
  BY OnlyTheCall DEF Returns, input
<1>4. received < file.vp8 + VP8_FRAME_HEADER_SIZE
  <2>1. mem.end < file.vp8 + VP8_FRAME_HEADER_SIZE
    BY DEF HeadersInv, MemDataSize, VP8_FRAME_HEADER_SIZE, TypeOK
  <2>2. received <= mem.end
    <3>1. CASE mem.buf = 0  BY <3>1 DEF MemInv, TypeOK
    <3>2. CASE mem.buf # 0  BY <3>2 DEF MemInv, HeadersInv, TypeOK
    <3> QED  BY <3>1, <3>2
  <2> QED  BY <2>1, <2>2 DEF VP8_FRAME_HEADER_SIZE, TypeOK
<1>5. NextByte' = file.vp8 + VP8_FRAME_HEADER_SIZE
  BY Zenon DEF NextByte, input
<1>6. SuspendedInv'
  BY <1>4, <1>5 DEF SuspendedInv, input
<1> QED BY <1>1, <1>2, <1>3, <1>6

\* DecodeWebPHeaders() releases what precedes the frame header, after it noted
\* where the compressed alpha is.
LEMMA DecodeWebPHeadersInv ==
  ASSUME IncrementalInv, DecodeWebPHeaders
  PROVE  IncrementalInv'
<1> USE DEF IncrementalInv
<1> USE FileFacts, Fields
<1>0. /\ pc = "decode" /\ state = "WEBP_HEADER"
      /\ MemDataSize(mem) >= file.vp8 + VP8_FRAME_HEADER_SIZE
      /\ UNCHANGED <<file, received, live, base, ready, br, parts, rows>>
  BY DEF DecodeWebPHeaders
<1>1. ~ready /\ ~dec /\ mem.start = 0 /\ alphaData = NULL
  BY <1>0 DEF CallInv, HeadersInv, AlphaInv
<1>2. mem.buf # 0
  BY <1>0, <1>1 DEF MemInv, MemDataSize, VP8_FRAME_HEADER_SIZE
<1>3. mem.buf \in live /\ base[mem.buf] = 0 /\ mem.mode # "NONE" /\ mem.buf \in Buffers
  BY <1>0, <1>2 DEF MemInv, HeadersInv, Buffers, Part0Copy
<1>4. CASE IDecError("BITSTREAM_ERROR", hooks) /\ file.bad = "headers"
           /\ UNCHANGED <<mem, dec, ioData, alphaData, blame>>
  <2> USE <1>0, <1>1, <1>4 DEF IDecError, Returns
  <2>1. CallInv' /\ RowsInv' /\ SuspendedInv' /\ NoFalseError'
    BY DEF CallInv, RowsInv, SuspendedInv, NoFalseError, rows
  <2>2. TypeOK'
    BY DEF TypeOK, rows
  <2>3. MemInv'
    BY <1>2, <1>3 DEF MemInv
  <2>5. HeadersInv' /\ AlphaInv'
    BY DEF HeadersInv, AlphaInv, rows
  <2>4. Part0Inv' /\ PartsInv' /\ MbInv'
    BY DEF Part0Inv, PartsInv, MbInv
  <2> QED  BY <2>1, <2>2, <2>3, <2>4, <2>5
<1>5. CASE Returns("OUT_OF_MEMORY") /\ blame' = TRUE
           /\ UNCHANGED <<mem, state, dec, ioData, alphaData, hooks>>
  <2> USE <1>0, <1>1, <1>5 DEF Returns
  <2>1. CallInv' /\ RowsInv' /\ SuspendedInv' /\ NoFalseError'
    BY DEF CallInv, RowsInv, SuspendedInv, NoFalseError, rows
  <2>2. TypeOK'
    BY DEF TypeOK, rows
  <2>3. (MemInv /\ HeadersInv /\ Part0Inv /\ PartsInv /\ AlphaInv /\ MbInv)'
    BY OnlyTheCall DEF readers
  <2> QED  BY <2>1, <2>2, <2>3
<1>6. CASE /\ dec' = TRUE
           /\ alphaData' = IF file.alpha = 0 THEN NULL
                           ELSE At(mem, mem.start + file.alpha)
           /\ state' = "VP8_HEADER"
           /\ mem' = [mem EXCEPT !.start = @ + file.vp8]
           /\ ioData' = At(mem, mem.start + file.vp8)
           /\ UNCHANGED <<pc, ret, blame, hooks>>
  <2> USE <1>0, <1>1, <1>2, <1>3, <1>6
  <2>1. CallInv' /\ RowsInv' /\ SuspendedInv' /\ NoFalseError'
    BY DEF CallInv, RowsInv, SuspendedInv, NoFalseError, rows
  <2>2. /\ mem'.start = file.vp8 /\ mem'.end = mem.end /\ mem'.buf = mem.buf
        /\ mem'.size = mem.size /\ mem'.mode = mem.mode /\ mem' \in Memories
    <3>1. mem.start + file.vp8 = file.vp8
      BY <1>1
    <3>2. mem' = [mem EXCEPT !.start = file.vp8] /\ mem \in Memories
      BY <3>1 DEF TypeOK
    <3>3. file.vp8 \in Int
      OBVIOUS
    <3> QED  BY <3>2, <3>3, Released
  <2>3. ioData' = [buf |-> mem.buf, off |-> file.vp8] /\ ioData' \in Addresses
    BY DEF At, Addresses, Buffers, Part0Copy
  <2>4. file.alpha # 0 => alphaData' = [buf |-> mem.buf, off |-> file.alpha]
    BY DEF At
  <2>5. alphaData' \in Addresses
    BY <2>4 DEF Addresses, NULL, Buffers, Part0Copy
  <2>6. TypeOK'
    BY <2>2, <2>3, <2>5 DEF TypeOK, rows
  <2>7. MemInv'
    BY <2>2 DEF MemInv, MemDataSize, VP8_FRAME_HEADER_SIZE
  <2>8. HeadersInv'
    BY <2>2, <2>3 DEF HeadersInv, StartsAt
  <2>9. AlphaInv'
    BY <2>2, <2>4 DEF AlphaInv, NULL
  <2>10. Part0Inv' /\ PartsInv' /\ MbInv'
    BY DEF Part0Inv, PartsInv, MbInv
  <2> QED  BY <2>1, <2>6, <2>7, <2>8, <2>9, <2>10
<1> QED  BY <1>4, <1>5, <1>6 DEF DecodeWebPHeaders

\* DecodeVP8FrameHeader() releases nothing.
LEMMA DecodeVP8FrameHeaderInv ==
  ASSUME IncrementalInv, DecodeVP8FrameHeader
  PROVE  IncrementalInv'
<1> USE DEF IncrementalInv, DecodeVP8FrameHeader
<1> USE FileFacts, Fields
<1>1. CallInv' /\ RowsInv' /\ SuspendedInv' /\ NoFalseError'
  BY DEF CallInv, RowsInv, SuspendedInv, NoFalseError, rows, history, input
<1>2. ~ready /\ mem.buf # 0 /\ ioData' = [buf |-> mem.buf, off |-> mem.start]
  BY DEF CallInv, MemInv, At
<1>3. ioData' \in Addresses
  BY <1>2 DEF Addresses, Buffers, Part0Copy
<1>4. TypeOK'
  BY <1>3 DEF TypeOK, rows, history, input
<1>5. MemInv' /\ AlphaInv'
  BY <1>2 DEF MemInv, AlphaInv, input, rows
<1>6. HeadersInv'
  BY <1>2 DEF HeadersInv, StartsAt, input, MemInv
<1>7. Part0Inv' /\ PartsInv' /\ MbInv'
  BY <1>2 DEF Part0Inv, PartsInv, MbInv
<1> QED BY <1>1, <1>4, <1>5, <1>6, <1>7

\* DecodePartition0() gives up when partition 0 is not all there.
LEMMA Part0SuspendedInv ==
  ASSUME IncrementalInv, Part0Suspended
  PROVE  IncrementalInv'
<1> USE DEF IncrementalInv, Part0Suspended
<1> USE FileFacts, Fields
<1>1. CallInv' /\ RowsInv' /\ NoFalseError'
  BY DEF CallInv, RowsInv, NoFalseError, Returns, readers, rows, history, MbsFit, input
<1>2. TypeOK'
  BY DEF TypeOK, Returns, readers, rows, history, input
<1>3. (MemInv /\ HeadersInv /\ Part0Inv /\ PartsInv /\ AlphaInv /\ MbInv)'
  BY OnlyTheCall DEF Returns, input
<1>4. received < file.last + 1
  <2>1. /\ mem.buf \in Buffers /\ base[mem.buf] + mem.end = received
        /\ base[mem.buf] + mem.start = file.vp8
    BY DEF MemInv, HeadersInv, StartsAt, Buffers, Part0Copy
  <2>2. mem.end - mem.start < file.parts - file.vp8
    BY DEF MemDataSize, Part0Size
  <2>3. base[mem.buf] \in Int
    BY <2>1, Fields
  <2>4. file.parts <= file.last /\ file.parts \in Int /\ file.vp8 \in Int /\ file.last \in Int
    BY FileFacts
  <2>5. mem.start \in Int /\ mem.end \in Int
    BY Fields
  <2> QED  BY <2>1, <2>2, <2>3, <2>4, <2>5
<1>5. NextByte' = file.last + 1
  BY Zenon DEF NextByte, input
<1>6. SuspendedInv'
  BY <1>4, <1>5 DEF SuspendedInv, input
<1> QED BY <1>1, <1>2, <1>3, <1>6

-----------------------------------------------------------------------------
(* The first partition                                                     *)

\* A reader.
LEMMA ReaderType ==
  ASSUME NEW a \in Addresses, NEW n \in Int, NEW pos \in Int, NEW eof \in BOOLEAN
  PROVE  [ptr |-> a, len |-> n, pos |-> pos, eof |-> eof] \in Readers
BY DEF Readers

\* ParsePartitions(): the readers of the partitions start where they should,
\* in the memory, and the last one has what is left of the data.
LEMMA PartReadersRight ==
  ASSUME TypeOK, NEW p \in Addresses, NEW n \in Int, n >= Sizes
  PROVE  LET r == PartReaders(p, n)
         IN  /\ r \in [1..file.nparts -> Readers]
             /\ \A i \in 1..file.nparts :
                  /\ r[i].ptr.buf = p.buf
                  /\ r[i].pos - r[i].ptr.off = file.parts - p.off
                  /\ r[i].pos >= file.parts
                  /\ r[i].len >= 0 /\ ~r[i].eof
                  /\ i = file.nparts => r[i].ptr.off + r[i].len = p.off + n
                  /\ i # file.nparts /\ r[file.nparts].len > 0 =>
                       r[i].pos + r[i].len = file.last
             /\ r[file.nparts].len > 0 <=> file.parts + n > file.last
<1> USE FileFacts
<1> DEFINE first == Least(file.last - SizesEnd, n - Sizes)
           FromFirst(k, len) ==
             Reader([p EXCEPT !.off = @ + Sizes + k], len, SizesEnd + k)
           r == PartReaders(p, n)
<1>1. /\ Sizes \in Nat /\ SizesEnd = file.parts + Sizes /\ SizesEnd <= file.last
      /\ SizesEnd \in Nat /\ p.off \in Int
      /\ file.nparts = 1 => Sizes = 0 /\ SizesEnd = file.last
  BY DEF Sizes, SizesEnd, Addresses
<1>2. first \in Int /\ 0 <= first /\ first <= n - Sizes /\ first <= file.last - SizesEnd
      /\ (n - Sizes - first > 0 => first = file.last - SizesEnd)
      /\ (first = file.last - SizesEnd \/ first = n - Sizes)
  BY <1>1 DEF Least
<1> HIDE DEF first
<1>3. ASSUME NEW k \in Int, NEW len \in Int
      PROVE  FromFirst(k, len) = [ptr |-> [buf |-> p.buf, off |-> p.off + Sizes + k],
                                  len |-> len, pos |-> SizesEnd + k, eof |-> FALSE]
  <2>1. [p EXCEPT !.off = @ + Sizes + k] = [buf |-> p.buf, off |-> p.off + Sizes + k]
    BY DEF Addresses
  <2> QED  BY <2>1, Zenon DEF Reader
<1>4. ASSUME NEW k \in Int, NEW len \in Int
      PROVE  FromFirst(k, len) \in Readers
  <2>1. [buf |-> p.buf, off |-> p.off + Sizes + k] \in Addresses
    BY <1>1 DEF Addresses
  <2>2. SizesEnd + k \in Int
    BY <1>1
  <2> QED  BY <1>3, <2>1, <2>2, ReaderType
<1> HIDE DEF FromFirst
<1>5. r = [i \in 1..file.nparts |->
             IF i = file.nparts THEN FromFirst(first, n - Sizes - first)
                                ELSE FromFirst(0, first)]
  BY DEF PartReaders, FromFirst, first
<1> HIDE DEF r
<1>6. n - Sizes - first \in Int
  BY <1>1, <1>2
<1>7. r \in [1..file.nparts -> Readers]
  BY <1>2, <1>4, <1>5, <1>6
<1>8. file.nparts \in 1..file.nparts
  OBVIOUS
<1>9. r[file.nparts] = [ptr |-> [buf |-> p.buf, off |-> p.off + Sizes + first],
                        len |-> n - Sizes - first, pos |-> SizesEnd + first, eof |-> FALSE]
  BY <1>2, <1>3, <1>5, <1>6, <1>8
<1>10. ASSUME NEW i \in 1..file.nparts, i # file.nparts
       PROVE  r[i] = [ptr |-> [buf |-> p.buf, off |-> p.off + Sizes + 0],
                      len |-> first, pos |-> SizesEnd + 0, eof |-> FALSE]
  <2>1. r[i] = FromFirst(0, first)
    BY <1>5, <1>10
  <2>2. 0 \in Int /\ first \in Int
    BY <1>2
  <2> QED  BY <1>3, <2>1, <2>2, Zenon
<1>11. ASSUME NEW i \in 1..file.nparts
       PROVE  /\ r[i].ptr.buf = p.buf
              /\ r[i].pos - r[i].ptr.off = file.parts - p.off
              /\ r[i].pos >= file.parts
              /\ r[i].len >= 0 /\ ~r[i].eof
              /\ i = file.nparts => r[i].ptr.off + r[i].len = p.off + n
              /\ i # file.nparts /\ r[file.nparts].len > 0 =>
                   r[i].pos + r[i].len = file.last
  <2>1. CASE i = file.nparts
    <3>1. /\ r[i].ptr.buf = p.buf /\ r[i].ptr.off = p.off + Sizes + first
          /\ r[i].len = n - Sizes - first /\ r[i].pos = SizesEnd + first /\ ~r[i].eof
      BY <1>9, <2>1
    <3>2. /\ file.parts \in Int
          /\ SizesEnd + first - (p.off + Sizes + first) = file.parts - p.off
          /\ SizesEnd + first >= file.parts /\ n - Sizes - first >= 0
          /\ p.off + Sizes + first + (n - Sizes - first) = p.off + n
      BY <1>1, <1>2
    <3>3. r[i].pos - r[i].ptr.off = file.parts - p.off
      BY <1>1, <1>2, <3>1
    <3>4. r[i].pos >= file.parts
      BY <3>1, <3>2
    <3>5. r[i].len >= 0
      BY <3>1, <3>2
    <3>6. r[i].ptr.off + r[i].len = p.off + n
      BY <3>1, <3>2
    <3> QED  BY <2>1, <3>1, <3>3, <3>4, <3>5, <3>6, Zenon
  <2>2. CASE i # file.nparts
    <3>1. /\ r[i].ptr.buf = p.buf /\ r[i].ptr.off = p.off + Sizes + 0
          /\ r[i].len = first /\ r[i].pos = SizesEnd + 0 /\ ~r[i].eof
      BY <1>10, <2>2
    <3>2. r[file.nparts].len = n - Sizes - first
      BY <1>9
    <3> QED  BY <1>1, <1>2, <2>2, <3>1, <3>2
  <2> QED  BY <2>1, <2>2
<1>12. r[file.nparts].len > 0 <=> file.parts + n > file.last
  BY <1>1, <1>2, <1>9
<1> QED  BY <1>7, <1>11, <1>12 DEF r

\* What the memory is at state VP8_PARTS0, before partition 0 is parsed.
LEMMA AtPartition0 ==
  ASSUME IncrementalInv, pc \in {"decode", "client", "copy"}, state = "VP8_PARTS0"
  PROVE  /\ mem.buf \in Buffers /\ mem.buf \in live /\ base[mem.buf] \in Int
         /\ base[mem.buf] + mem.end = received
         /\ base[mem.buf] + mem.start = file.vp8
         /\ 0 <= mem.start /\ mem.start <= mem.end
         /\ mem.mode \in {"APPEND", "MAP"}
<1>1. MemInv /\ HeadersInv /\ TypeOK
  BY DEF IncrementalInv
<1>2. mem.buf \in Buffers /\ mem.mode \in Modes
  BY <1>1, Fields DEF MemInv, Buffers, Part0Copy
<1> QED  BY <1>1, <1>2, Fields DEF MemInv, HeadersInv, StartsAt, Modes

\* VP8GetHeaders() opens the readers, and the decoder is ready when the last
\* partition has a byte; otherwise it suspends, with too few bytes.
LEMMA VP8GetHeadersInv ==
  ASSUME IncrementalInv, VP8GetHeaders
  PROVE  IncrementalInv'
<1> USE DEF IncrementalInv
<1>0. /\ pc = "decode" /\ state = "VP8_PARTS0" /\ MemDataSize(mem) >= Part0Size
      /\ UNCHANGED <<file, received, live, base, mem, dec, ioData, alphaData,
                     alphaDone, mbX, mbY, lastMbY, modeRows, blame>>
  BY DEF VP8GetHeaders, input, rows
<1>1. /\ mem.buf \in Buffers /\ mem.buf \in live /\ base[mem.buf] \in Int
      /\ base[mem.buf] + mem.end = received
      /\ base[mem.buf] + mem.start = file.vp8
      /\ 0 <= mem.start /\ mem.start <= mem.end
      /\ mem.start \in Int /\ mem.end \in Int /\ mem.mode \in {"APPEND", "MAP"}
  BY <1>0, AtPartition0, Fields
<1>2. ioData \in Addresses /\ ioData.buf = mem.buf /\ ioData.off = mem.start
  BY <1>0, <1>1, Fields DEF HeadersInv
<1>3. ~ready /\ TypeOK
  BY <1>0 DEF CallInv
<1>4. MemInv' /\ AlphaInv'
  <2>1. MemInv'
    <3>1. state' # "WEBP_HEADER" \/ mem.buf # 0
      BY <1>1 DEF Buffers, Part0Copy
    <3>2. mem.buf # 0
      BY <1>1 DEF Buffers, Part0Copy
    <3> QED  BY <1>0, <3>1, <3>2 DEF MemInv
  <2>2. state' # "WEBP_HEADER"
    BY <1>0 DEF VP8GetHeaders, IDecError
  <2> QED  BY <1>0, <2>1, <2>2 DEF AlphaInv
<1>5. CASE /\ file.bad = "part0"
           /\ IDecError("BITSTREAM_ERROR", hooks)
           /\ UNCHANGED <<ready, br, parts>>
  <2> USE <1>0, <1>3, <1>5 DEF IDecError, Returns
  <2>1. CallInv' /\ RowsInv' /\ SuspendedInv' /\ NoFalseError'
    BY DEF CallInv, RowsInv, SuspendedInv, Suspended, NoFalseError
  <2>2. TypeOK'
    BY DEF TypeOK
  <2>3. HeadersInv' /\ Part0Inv' /\ PartsInv' /\ MbInv'
    BY DEF HeadersInv, Part0Inv, PartsInv, MbInv
  <2> QED  BY <1>4, <2>1, <2>2, <2>3
<1>6. ASSUME file.bad # "part0"
      PROVE  IncrementalInv'
  <2> DEFINE after  == MemDataSize(mem) - Part0Size
             used   == file.modes - file.vp8
             data   == [ioData EXCEPT !.off = @ + Part0Size]
             opened == IF after < Sizes THEN parts ELSE PartReaders(data, after)
  <2>1. /\ br' = Reader([ioData EXCEPT !.off = @ + used], Part0Size - used, file.modes)
        /\ parts' = opened
        /\ IF after >= Sizes /\ opened[file.nparts].len > 0
           THEN ready' = TRUE /\ pc' = "copy" /\ UNCHANGED ret
           ELSE Returns("SUSPENDED") /\ UNCHANGED ready
        /\ UNCHANGED <<state, hooks>>
    BY <1>6 DEF VP8GetHeaders
  <2>2. /\ after \in Int /\ after = mem.end - mem.start - (file.parts - file.vp8)
        /\ file.parts + after = received /\ Sizes \in Nat
        /\ file.parts + Sizes <= file.last
        /\ used \in Nat /\ Part0Size - used = file.parts - file.modes /\ Part0Size \in Nat
    <3>1. Sizes \in Nat /\ file.parts + Sizes <= file.last
      BY <1>3, FileFacts DEF Sizes
    <3> QED  BY <1>0, <1>1, <1>3, <3>1, FileFacts, Fields DEF MemDataSize, Part0Size
  <2>3. /\ data \in Addresses /\ data.buf = mem.buf
        /\ data.off = mem.start + (file.parts - file.vp8)
    BY <1>2, <1>3, <2>2, FileFacts DEF Addresses, Part0Size
  <2>4. br' = [ptr |-> [buf |-> mem.buf, off |-> mem.start + used],
               len |-> file.parts - file.modes, pos |-> file.modes, eof |-> FALSE]
    <3>1. [ioData EXCEPT !.off = @ + used] = [buf |-> mem.buf, off |-> mem.start + used]
      BY <1>2 DEF Addresses
    <3> QED  BY <2>1, <2>2, <3>1, Zenon DEF Reader
  <2>5. br' \in Readers
    <3>1. [buf |-> mem.buf, off |-> mem.start + used] \in Addresses
      BY <1>1, <2>2 DEF Addresses
    <3>2. file.parts - file.modes \in Int /\ file.modes \in Int
      BY <1>3, FileFacts
    <3> QED  BY <2>4, <3>1, <3>2, ReaderType
  <2> HIDE DEF after, used, data
  <2>6. after >= Sizes =>
          /\ parts' \in [1..file.nparts -> Readers]
          /\ \A i \in 1..file.nparts :
               /\ parts'[i].ptr.buf = data.buf
               /\ parts'[i].pos - parts'[i].ptr.off = file.parts - data.off
               /\ parts'[i].pos >= file.parts
               /\ parts'[i].len >= 0 /\ ~parts'[i].eof
               /\ i = file.nparts => parts'[i].ptr.off + parts'[i].len = data.off + after
               /\ i # file.nparts /\ parts'[file.nparts].len > 0 =>
                    parts'[i].pos + parts'[i].len = file.last
          /\ parts'[file.nparts].len > 0 <=> file.parts + after > file.last
    <3>1. SUFFICES ASSUME after >= Sizes
                   PROVE  parts' = PartReaders(data, after)
      BY <1>3, <2>2, <2>3, PartReadersRight
    <3> QED  BY <2>1, <2>2, <3>1
  <2>7. parts' \in [1..file.nparts -> Readers]
    BY <2>1, <2>2, <2>6, <1>3 DEF TypeOK
  <2>8. CASE after >= Sizes /\ opened[file.nparts].len > 0
    <3>1. /\ ready' = TRUE /\ pc' = "copy" /\ UNCHANGED <<ret, state, hooks>>
          /\ parts'[file.nparts].len > 0
      BY <2>1, <2>8
    <3>2. CallInv' /\ RowsInv' /\ SuspendedInv' /\ NoFalseError'
      BY <1>0, <3>1 DEF CallInv, RowsInv, SuspendedInv, NoFalseError
    <3>3. TypeOK'
      BY <1>0, <1>3, <2>5, <2>7, <3>1 DEF TypeOK
    <3>4. HeadersInv'
      BY <1>0, <1>1, <1>2, <3>1 DEF HeadersInv, StartsAt
    <3>5. Holds(br.ptr, br.pos)'
      BY <1>0, <1>1, <1>3, <2>2, <2>4, FileFacts DEF Holds, used
    <3>6. Part0Inv'
      BY <1>0, <1>1, <2>4, <2>6, <2>8, <3>1, <3>5 DEF Part0Inv
    <3>7. PartsInv'
      <4>1. SUFFICES ASSUME NEW p \in 1..file.nparts
                     PROVE  /\ InMem(parts'[p].ptr, parts'[p].pos)
                            /\ parts'[p].len >= 0
                            /\ p = file.nparts => parts'[p].ptr.off + parts'[p].len = mem.end
                            /\ p # file.nparts => parts'[p].pos + parts'[p].len = file.last
                            /\ ~parts'[p].eof
        BY <1>0, <3>1 DEF PartsInv, InMem
      <4>2. /\ parts'[p].ptr.off \in Int /\ parts'[p].pos \in Int
        BY <2>7 DEF Readers, Addresses
      <4>3. /\ parts'[p].ptr.buf = mem.buf
            /\ parts'[p].pos - parts'[p].ptr.off = file.parts - data.off
            /\ parts'[p].pos >= file.parts
            /\ parts'[p].len >= 0 /\ ~parts'[p].eof
            /\ p = file.nparts => parts'[p].ptr.off + parts'[p].len = data.off + after
            /\ p # file.nparts => parts'[p].pos + parts'[p].len = file.last
        BY <2>3, <2>6, <2>8, <3>1
      <4>4. InMem(parts'[p].ptr, parts'[p].pos)
        <5>1. data.off = mem.start + (file.parts - file.vp8) /\ data.off \in Int
          BY <2>3 DEF Addresses
        <5>2. base[mem.buf] + parts'[p].ptr.off = parts'[p].pos
          BY <1>1, <1>3, <4>2, <4>3, <5>1, FileFacts
        <5>3. mem.start <= parts'[p].ptr.off
          BY <1>1, <1>3, <4>2, <4>3, <5>1, FileFacts
        <5> QED  BY <4>3, <5>2, <5>3 DEF InMem
      <4>5. data.off + after = mem.end
        BY <1>1, <1>3, <2>2, <2>3, FileFacts
      <4> QED  BY <4>3, <4>4, <4>5
    <3>8. MbInv'
      BY <1>0, <3>1 DEF MbInv
    <3> QED  BY <1>4, <3>2, <3>3, <3>4, <3>6, <3>7, <3>8
  <2>9. CASE ~(after >= Sizes /\ opened[file.nparts].len > 0)
    <3>1. ret' = "SUSPENDED" /\ pc' = "client" /\ UNCHANGED <<ready, state, hooks>>
      BY <2>1, <2>9 DEF Returns
    <3>2. CallInv' /\ RowsInv' /\ NoFalseError'
      BY <1>0, <3>1 DEF CallInv, RowsInv, NoFalseError, MbsFit
    <3>3. TypeOK'
      BY <1>0, <1>3, <2>5, <2>7, <3>1 DEF TypeOK
    <3>4. HeadersInv'
      BY <1>0, <1>1, <1>2, <3>1 DEF HeadersInv, StartsAt
    <3>5. Part0Inv' /\ PartsInv' /\ MbInv'
      BY <1>0, <1>3, <3>1 DEF Part0Inv, PartsInv, MbInv
    <3>6. received < file.last + 1
      <4>1. CASE after < Sizes
        BY <1>3, <2>2, <4>1, FileFacts, Fields
      <4>2. CASE ~(after < Sizes)
        <5>1. ~(parts'[file.nparts].len > 0) /\ after >= Sizes
          BY <2>1, <2>2, <2>9, <4>2
        <5>2. ~(file.parts + after > file.last)
          BY <2>6, <5>1
        <5> QED  BY <1>3, <2>2, <5>2, FileFacts, Fields
      <4> QED  BY <4>1, <4>2
    <3>7. NextByte' = file.last + 1
      BY <1>0, <3>1, Zenon DEF NextByte
    <3>8. SuspendedInv'
      BY <1>0, <3>6, <3>7 DEF SuspendedInv
    <3> QED  BY <1>4, <3>2, <3>3, <3>4, <3>5, <3>8
  <2> QED  BY <2>8, <2>9
<1> QED  BY <1>5, <1>6 DEF VP8GetHeaders

\* CopyParts0Data() copies partition 0 out of a memory that may move, and
\* releases no byte that a reader of the partitions has to read.
LEMMA CopyParts0DataInv ==
  ASSUME IncrementalInv, CopyParts0Data
  PROVE  IncrementalInv'
<1> USE DEF IncrementalInv
<1>0. /\ pc = "copy" /\ state = "VP8_PARTS0" /\ ready /\ TypeOK
      /\ UNCHANGED <<file, received, dec, ready, ioData, parts, alphaData,
                     alphaDone, mbX, mbY, lastMbY, modeRows>>
  BY DEF CopyParts0Data, rows, CallInv
<1>1. /\ mem.buf \in Buffers /\ mem.buf \in live /\ base[mem.buf] \in Int
      /\ base[mem.buf] + mem.end = received
      /\ base[mem.buf] + mem.start = file.vp8
      /\ 0 <= mem.start /\ mem.start <= mem.end
      /\ mem.start \in Int /\ mem.end \in Int /\ mem.mode \in {"APPEND", "MAP"}
  BY <1>0, AtPartition0, Fields
<1>2. CASE /\ IDecError("OUT_OF_MEMORY", hooks) /\ blame' = TRUE
           /\ UNCHANGED <<live, base, br, mem>>
  <2> USE <1>0, <1>2 DEF IDecError, Returns
  <2>1. CallInv' /\ RowsInv' /\ SuspendedInv' /\ NoFalseError'
    BY DEF CallInv, RowsInv, SuspendedInv, Suspended, NoFalseError
  <2>2. TypeOK'
    BY DEF TypeOK
  <2>3. MemInv' /\ AlphaInv'
    BY <1>1 DEF MemInv, AlphaInv
  <2>4. HeadersInv' /\ Part0Inv' /\ PartsInv' /\ MbInv'
    BY DEF HeadersInv, Part0Inv, PartsInv, MbInv, InMem, Holds
  <2> QED  BY <2>1, <2>2, <2>3, <2>4
<1>3. ASSUME /\ IF mem.mode = "APPEND"
                THEN /\ live' = live \cup {Part0Copy}
                     /\ base' = [base EXCEPT ![Part0Copy] = base[br.ptr.buf] + br.ptr.off]
                     /\ br' = [br EXCEPT !.ptr = [buf |-> Part0Copy, off |-> 0]]
                ELSE UNCHANGED <<live, base, br>>
             /\ mem' = [mem EXCEPT !.start = @ + br.len]
             /\ pc' = "enter"
             /\ UNCHANGED <<state, ret, hooks, blame>>
      PROVE  IncrementalInv'
  <2> USE <1>3
  <2>1. CallInv' /\ RowsInv' /\ SuspendedInv' /\ NoFalseError'
    BY <1>0 DEF CallInv, RowsInv, SuspendedInv, NoFalseError
  <2>2. /\ br.len = file.parts - file.modes
        /\ \A p \in 1..file.nparts : parts[p].pos >= file.parts
    BY <1>0 DEF Part0Inv
  <2>3. /\ mem'.start = mem.start + (file.parts - file.modes) /\ mem'.start \in Int
        /\ mem'.end = mem.end /\ mem'.size = mem.size /\ mem'.buf = mem.buf
        /\ mem'.mode = mem.mode /\ mem' \in Memories
    <3>1. mem \in Memories
      BY <1>0 DEF TypeOK
    <3>2. mem.start + (file.parts - file.modes) \in Int
      BY <1>0, <1>1, FileFacts
    <3> DEFINE s == mem.start + (file.parts - file.modes)
    <3>3. mem' = [mem EXCEPT !.start = s]
      BY <1>3, <2>2, <3>1 DEF Memories
    <3>4. s \in Int
      BY <3>2
    <3>5. s = mem.start + (file.parts - file.modes)
      OBVIOUS
    <3> HIDE DEF s
    <3>6. /\ mem'.start = s /\ mem'.end = mem.end /\ mem'.size = mem.size
          /\ mem'.buf = mem.buf /\ mem'.mode = mem.mode /\ mem' \in Memories
      BY <3>1, <3>3, <3>4 DEF Memories
    <3> QED  BY <3>4, <3>5, <3>6
  <2>4. /\ mem.buf # Part0Copy /\ mem.buf \in live' /\ base'[mem.buf] = base[mem.buf]
        /\ base' \in [Buffers -> Int] /\ live' \subseteq Buffers
    <3>1. mem.buf # Part0Copy
      BY <1>0, Fields DEF Part0Copy
    <3>2. base[br.ptr.buf] + br.ptr.off = br.pos
      BY <1>0 DEF Part0Inv, Holds
    <3> QED  BY <1>0, <1>1, <3>1, <3>2, Fields DEF TypeOK, Part0Copy, Buffers
  <2>5. Holds(br.ptr, br.pos)' /\ br' \in Readers /\ br'.pos = br.pos
        /\ (mem.mode = "APPEND" => br'.ptr.buf = Part0Copy)
        /\ (mem.mode = "MAP" => br'.ptr.buf = mem.buf)
    <3>1. Holds(br.ptr, br.pos) /\ (mem.mode = "MAP" => br.ptr.buf = mem.buf)
      BY <1>0 DEF Part0Inv
    <3>2. CASE mem.mode = "APPEND"
      <4>1. br' = [br EXCEPT !.ptr = [buf |-> Part0Copy, off |-> 0]] /\ br \in Readers
        BY <1>0, <3>2 DEF TypeOK
      <4>2. [buf |-> Part0Copy, off |-> 0] \in Addresses
        BY DEF Addresses, Buffers
      <4>3. /\ br' \in Readers /\ br'.pos = br.pos /\ br'.ptr.buf = Part0Copy
            /\ br'.ptr.off = 0
        BY <4>1, <4>2 DEF Readers
      <4>4. Part0Copy \in live' /\ base'[Part0Copy] = br.pos
        BY <1>0, <3>1, <3>2 DEF TypeOK, Holds, Buffers
      <4>5. br.pos \in Int
        BY <1>0, Fields
      <4> QED  BY <3>2, <4>3, <4>4, <4>5 DEF Holds
    <3>3. CASE mem.mode # "APPEND"
      BY <1>0, <3>1, <3>3 DEF TypeOK, Holds
    <3> QED  BY <3>2, <3>3
  <2>6. TypeOK'
    BY <1>0, <2>3, <2>4, <2>5 DEF TypeOK
  <2>7. \A p \in 1..file.nparts :
          /\ InMem(parts[p].ptr, parts[p].pos)
          /\ parts[p].len >= 0
          /\ p = file.nparts => parts[p].ptr.off + parts[p].len = mem.end
          /\ p # file.nparts => parts[p].pos + parts[p].len = file.last
          /\ ~parts[p].eof
    BY <1>0 DEF PartsInv
  <2>8. \A p \in 1..file.nparts : mem'.start <= parts[p].ptr.off
    <3>1. SUFFICES ASSUME NEW p \in 1..file.nparts
                   PROVE  mem'.start <= parts[p].ptr.off
      OBVIOUS
    <3>2. base[mem.buf] + parts[p].ptr.off = parts[p].pos /\ parts[p].pos >= file.parts
      BY <2>2, <2>7 DEF InMem
    <3> QED  BY <1>0, <1>1, <2>3, <3>2, FileFacts, Fields
  <2>9. PartsInv'
    BY <1>0, <2>3, <2>4, <2>7, <2>8 DEF PartsInv, InMem
  <2>10. MemInv'
    <3>1. mem'.start <= mem.end
      <4>1. file.nparts \in 1..file.nparts
        BY <1>0, FileFacts
      <4>2. /\ mem'.start <= parts[file.nparts].ptr.off
            /\ parts[file.nparts].ptr.off + parts[file.nparts].len = mem.end
            /\ parts[file.nparts].len >= 0
        BY <2>7, <2>8, <4>1
      <4> QED  BY <1>0, <1>1, <2>3, <4>1, <4>2, Fields
    <3>2. 0 <= mem'.start
      BY <1>0, <1>1, <2>3, FileFacts
    <3>3. mem.buf # 0
      BY <1>1 DEF Buffers, Part0Copy
    <3> QED  BY <1>0, <1>1, <2>3, <2>4, <3>1, <3>2, <3>3 DEF MemInv
  <2>11. HeadersInv'
    BY <1>0, <2>3, <2>4 DEF HeadersInv
  <2>12. Part0Inv'
    BY <1>0, <2>3, <2>5 DEF Part0Inv
  <2>13. AlphaInv'
    <3>1. mem.start <= mem'.start
      BY <1>0, <1>1, <2>3, FileFacts
    <3> QED  BY <1>0, <1>1, <2>3, <2>4, <3>1, Fields DEF AlphaInv
  <2>14. MbInv'
    <3>1. mbX = 0 /\ mbY = 0
      BY <1>0 DEF RowsInv
    <3>2. Decoded' = 0
      BY <1>0, <3>1, FileFacts DEF Decoded
    <3>3. StartsAt(file.parts - (file.modes - file.vp8))'
      BY <1>0, <1>1, <2>3, <2>4, FileFacts DEF StartsAt
    <3> QED  BY <3>2, <3>3 DEF MbInv
  <2> QED  BY <2>1, <2>6, <2>9, <2>10, <2>11, <2>12, <2>13, <2>14
<1> QED  BY <1>2, <1>3 DEF CopyParts0Data

\* VP8EnterCritical() and VP8InitFrame() open the hooks or close them again.
LEMMA EnterFrameInv ==
  ASSUME IncrementalInv, EnterFrame
  PROVE  IncrementalInv'
<1> USE DEF IncrementalInv
<1>0. /\ pc = "enter" /\ state = "VP8_PARTS0" /\ ready /\ dec
      /\ UNCHANGED <<file, received, live, base, mem, dec, ready, ioData, br, parts,
                     alphaData, alphaDone, mbX, mbY, lastMbY, modeRows>>
      /\ \/ IDecError("USER_ABORT", "refused") /\ blame' = TRUE
         \/ IDecError("OUT_OF_MEMORY", "open") /\ blame' = TRUE
         \/ /\ hooks' = "open" /\ state' = "VP8_DATA" /\ pc' = "decode"
            /\ UNCHANGED <<ret, blame>>
  BY DEF EnterFrame, input, readers, rows, CallInv
<1>1. /\ \/ state' = "ERROR" /\ pc' = "client" /\ blame' = TRUE /\ hooks' # "open"
         \/ state' = "VP8_DATA" /\ pc' = "decode" /\ blame' = blame /\ hooks' = "open"
  BY <1>0 DEF IDecError, Returns
<1>2. CallInv' /\ RowsInv' /\ SuspendedInv' /\ NoFalseError'
  BY <1>0, <1>1 DEF CallInv, RowsInv, SuspendedInv, Suspended, NoFalseError
<1>3. TypeOK'
  BY <1>0, <1>1 DEF TypeOK
<1>4. MemInv' /\ HeadersInv' /\ AlphaInv'
  <2>1. mem.buf # 0
    BY <1>0 DEF MemInv
  <2> QED  BY <1>0, <1>1, <2>1 DEF MemInv, HeadersInv, AlphaInv
<1>5. Part0Inv'
  BY <1>0, <1>1 DEF Part0Inv, Holds
<1>6. PartsInv'
  BY <1>0, <1>1 DEF PartsInv, InMem
<1>7. MbInv'
  BY <1>0, <1>1 DEF MbInv, Decoded, StartsAt
<1> QED  BY <1>2, <1>3, <1>4, <1>5, <1>6, <1>7

-----------------------------------------------------------------------------
(* The macroblocks                                                         *)

\* A product is monotonic.
LEMMA TimesInOrder ==
  ASSUME NEW a \in Nat, NEW b \in Nat, NEW c \in Nat, a <= b
  PROVE  a * c <= b * c
OBVIOUS

\* The place of the next macroblock in file.mbs.
LEMMA NextMb ==
  ASSUME TypeOK, mbY < file.mbH, mbX < file.mbW
  PROVE  /\ Decoded \in Nat /\ Decoded + 1 \in DOMAIN file.mbs
         /\ Needed = file.mbs[Decoded + 1] /\ Needed \in Nat
         /\ Decoded > 0 => file.mbs[Decoded] \in Nat
<1>1. /\ mbX \in Nat /\ mbY \in Nat /\ file.mbW \in Nat /\ file.mbH \in Nat /\ file.size \in Nat
  BY FileFacts DEF TypeOK
<1>2. (mbY + 1) * file.mbW <= file.mbH * file.mbW
  <2>1. mbY + 1 \in Nat /\ mbY + 1 <= file.mbH
    BY <1>1
  <2> QED  BY <1>1, <2>1, TimesInOrder
<1>3. mbY * file.mbW \in Nat /\ file.mbW * file.mbH \in Nat
      /\ (mbY + 1) * file.mbW = mbY * file.mbW + file.mbW
      /\ file.mbH * file.mbW = file.mbW * file.mbH
  BY <1>1
<1> DEFINE row == mbY * file.mbW
           all == file.mbW * file.mbH
<1>4. /\ row \in Nat /\ all \in Nat /\ row + file.mbW <= all
  BY <1>2, <1>3
<1>5. file.mbs \in [1..all -> 0..file.size]
  BY FilesAssumption DEF TypeOK
<1>6. Decoded = row + mbX /\ Needed = file.mbs[row + mbX + 1]
  BY Zenon DEF Decoded, Needed
<1> HIDE DEF row, all
<1>7. row + mbX + 1 \in 1..all /\ (row + mbX > 0 => row + mbX \in 1..all) /\ row + mbX \in Nat
  BY <1>1, <1>4
<1>8. DOMAIN file.mbs = 1..all /\ \A i \in 1..all : file.mbs[i] \in Nat
  <2>1. \A i \in 0..file.size : i \in Nat
    BY <1>1
  <2>2. DOMAIN file.mbs = 1..all /\ \A i \in 1..all : file.mbs[i] \in 0..file.size
    BY <1>5, Zenon
  <2> QED  BY <2>1, <2>2
<1>9. Decoded \in Nat /\ Decoded + 1 \in 1..all /\ (Decoded > 0 => Decoded \in 1..all)
      /\ Needed = file.mbs[Decoded + 1]
  BY <1>6, <1>7
<1> QED  BY <1>8, <1>9

\* VP8LoadNewBytes(): the reader advances by n bytes.
LEMMA LoadedRight ==
  ASSUME NEW r \in Readers, NEW n \in Int
  PROVE  /\ Loaded(r, n) \in Readers
         /\ Loaded(r, n).ptr.buf = r.ptr.buf /\ Loaded(r, n).ptr.off = r.ptr.off + n
         /\ Loaded(r, n).len = r.len - n /\ Loaded(r, n).pos = r.pos + n
         /\ Loaded(r, n).eof = r.eof
<1>1. [r.ptr EXCEPT !.off = @ + n] = [buf |-> r.ptr.buf, off |-> r.ptr.off + n]
  BY DEF Readers, Addresses
<1>2. Loaded(r, n) = [ptr |-> [buf |-> r.ptr.buf, off |-> r.ptr.off + n],
                      len |-> r.len - n, pos |-> r.pos + n, eof |-> r.eof]
  <2>1. r = [ptr |-> r.ptr, len |-> r.len, pos |-> r.pos, eof |-> r.eof]
        /\ r.ptr = [buf |-> r.ptr.buf, off |-> r.ptr.off]
    BY DEF Readers, Addresses
  <2>2. Loaded(r, n) = [r EXCEPT !.ptr = [r.ptr EXCEPT !.off = @ + n],
                                 !.len = @ - n, !.pos = @ + n]
    BY <2>1 DEF Loaded
  <2> QED  BY <1>1, <2>1, <2>2
<1>3. [buf |-> r.ptr.buf, off |-> r.ptr.off + n] \in Addresses
  BY DEF Readers, Addresses
<1>4. r.len - n \in Int /\ r.pos + n \in Int /\ r.eof \in BOOLEAN
  BY DEF Readers
<1>5. Loaded(r, n) \in Readers
  BY <1>2, <1>3, <1>4, ReaderType
<1> QED  BY <1>2, <1>5

\* The reader of the row, and where its partition ends.
LEMMA TokenReader ==
  ASSUME IncrementalInv, InFrame
  PROVE  /\ TokenPart \in 1..file.nparts /\ TokenBr \in Readers
         /\ TokenBr.len \in Nat /\ ~TokenBr.eof
         /\ TokenBr.pos \in Int /\ TokenBr.ptr.off \in Int
         /\ TokenPart = file.nparts => TokenBr.pos + TokenBr.len = received
         /\ TokenPart # file.nparts =>
              file.nparts = 2 /\ mbY % 2 = 0 /\ TokenBr.pos + TokenBr.len = file.last
<1>1. /\ pc = "decode" /\ state = "VP8_DATA" /\ ready /\ TypeOK /\ MemInv /\ PartsInv
      /\ mem.buf # 0
  BY DEF InFrame, IncrementalInv, CallInv, MemInv
<1>2. file.nparts \in {1, 2} /\ mbY \in Nat
  BY <1>1, FileFacts DEF TypeOK
<1>3. /\ TokenPart \in 1..file.nparts
      /\ TokenPart # file.nparts => file.nparts = 2 /\ mbY % 2 = 0
  BY <1>2 DEF TokenPart
<1>4. /\ InMem(TokenBr.ptr, TokenBr.pos) /\ TokenBr.len >= 0 /\ ~TokenBr.eof
      /\ TokenPart = file.nparts => TokenBr.ptr.off + TokenBr.len = mem.end
      /\ TokenPart # file.nparts => TokenBr.pos + TokenBr.len = file.last
  BY <1>1, <1>3 DEF PartsInv, TokenBr
<1>5. TokenBr \in Readers /\ TokenBr.len \in Int /\ TokenBr.pos \in Int /\ TokenBr.ptr.off \in Int
  BY <1>1, <1>3, Fields DEF TokenBr
<1>6. base[mem.buf] \in Int /\ base[mem.buf] + mem.end = received /\ received \in Nat /\ mem.end \in Int
  BY <1>1, Fields DEF MemInv, Buffers, Part0Copy
<1>7. TokenPart = file.nparts => TokenBr.pos + TokenBr.len = received
  BY <1>4, <1>5, <1>6 DEF InMem
<1> QED  BY <1>3, <1>4, <1>5, <1>7

\* The modes of a row are parsed from partition 0, once.
LEMMA ParseIntraModeRowInv ==
  ASSUME IncrementalInv, ParseIntraModeRow
  PROVE  IncrementalInv'
<1> USE DEF IncrementalInv
<1>0. /\ pc = "decode" /\ state = "VP8_DATA" /\ ready /\ TypeOK
      /\ lastMbY # mbY
      /\ UNCHANGED <<file, received, live, base, mem, dec, ready, ioData, parts,
                     alphaData, alphaDone, mbX, mbY, blame>>
  BY DEF ParseIntraModeRow, InFrame, input, CallInv
<1>1. CASE /\ file.bad = "modes"
           /\ IDecError("BITSTREAM_ERROR", hooks)
           /\ UNCHANGED <<br, lastMbY, modeRows>>
  <2> USE <1>0, <1>1 DEF IDecError, Returns
  <2>1. CallInv' /\ RowsInv' /\ SuspendedInv' /\ NoFalseError'
    BY DEF CallInv, RowsInv, SuspendedInv, Suspended, NoFalseError
  <2>2. TypeOK'
    BY DEF TypeOK
  <2>3. MemInv' /\ HeadersInv' /\ AlphaInv'
    BY DEF MemInv, HeadersInv, AlphaInv
  <2>4. Part0Inv' /\ PartsInv' /\ MbInv'
    BY DEF Part0Inv, PartsInv, MbInv, InMem, Holds
  <2> QED  BY <2>1, <2>2, <2>3, <2>4
<1>2. ASSUME /\ \E n \in 0..Least(Prefetch, br.len) : br' = Loaded(br, n)
             /\ lastMbY' = mbY
             /\ modeRows' = modeRows + 1
             /\ UNCHANGED <<state, pc, ret, hooks>>
      PROVE  IncrementalInv'
  <2> USE <1>2
  <2>1. PICK n \in 0..Least(Prefetch, br.len) : br' = Loaded(br, n)
    OBVIOUS
  <2>2. /\ br' \in Readers /\ br'.ptr.buf = br.ptr.buf /\ br'.ptr.off = br.ptr.off + n
        /\ br'.pos = br.pos + n /\ n \in Nat
    <3>1. br \in Readers
      BY <1>0 DEF TypeOK
    <3>2. n \in Nat
      <4>1. Least(Prefetch, br.len) \in Int
        BY <1>0, Fields, BoundsAssumption DEF Least
      <4> QED  BY <4>1
    <3> QED  BY <2>1, <3>1, <3>2, LoadedRight
  <2>3. lastMbY = mbY - 1 /\ mbX = 0
    BY <1>0 DEF RowsInv, TypeOK
  <2>4. RowsInv'
    BY <1>0, <2>3 DEF RowsInv, TypeOK
  <2>5. CallInv' /\ SuspendedInv' /\ NoFalseError'
    BY <1>0 DEF CallInv, SuspendedInv, NoFalseError
  <2>6. TypeOK'
    <3>1. mbY \in Int /\ modeRows + 1 \in Int
      BY <1>0 DEF TypeOK
    <3> QED  BY <1>0, <2>2, <3>1 DEF TypeOK
  <2>7. MemInv' /\ HeadersInv' /\ AlphaInv'
    BY <1>0 DEF MemInv, HeadersInv, AlphaInv
  <2>8. Holds(br.ptr, br.pos)'
    <3>1. Holds(br.ptr, br.pos)
      BY <1>0 DEF Part0Inv
    <3>2. base[br.ptr.buf] \in Int
      BY <1>0, <3>1 DEF TypeOK, Holds
    <3> QED  BY <1>0, <2>2, <3>1, <3>2, Fields DEF Holds
  <2>9. Part0Inv'
    BY <1>0, <2>2, <2>8 DEF Part0Inv
  <2>10. PartsInv' /\ MbInv'
    BY <1>0 DEF PartsInv, MbInv, InMem, Decoded, StartsAt
  <2> QED  BY <2>4, <2>5, <2>6, <2>7, <2>9, <2>10
<1> QED  BY <1>1, <1>2 DEF ParseIntraModeRow

\* The decoder suspends when the macroblock needs more than was received.
LEMMA MbSuspendedInv ==
  ASSUME IncrementalInv, MbSuspended
  PROVE  IncrementalInv'
<1> USE DEF IncrementalInv, MbSuspended
<1>1. CallInv' /\ RowsInv' /\ NoFalseError'
  BY DEF AtMb, InFrame, CallInv, RowsInv, NoFalseError, Returns, readers, rows, history, MbsFit, input
<1>2. TypeOK'
  BY DEF TypeOK, Returns, readers, rows, history, input
<1>3. (MemInv /\ HeadersInv /\ Part0Inv /\ PartsInv /\ AlphaInv /\ MbInv)'
  BY OnlyTheCall DEF Returns, input, AtMb, InFrame
<1>4. ASSUME MbsInPartition
      PROVE  received < Needed
  <2>1. /\ TypeOK /\ InFrame /\ mbY < file.mbH /\ mbX < file.mbW /\ ~MbDecodes
    BY DEF AtMb, InFrame
  <2>2. /\ TokenBr.pos + TokenBr.len < Needed
        /\ TokenPart = file.nparts => TokenBr.pos + TokenBr.len = received
        /\ TokenPart # file.nparts =>
             file.nparts = 2 /\ mbY % 2 = 0 /\ TokenBr.pos + TokenBr.len = file.last
    BY <2>1, TokenReader, NextMb DEF MbDecodes
  <2>3. TokenPart = file.nparts
    <3>1. SUFFICES ASSUME TokenPart # file.nparts
                   PROVE  Needed <= file.last
      BY <2>1, <2>2, NextMb, FileFacts
    <3>2. mbY \in 0..file.mbH - 1 /\ mbX \in 0..file.mbW - 1
      BY <2>1, FileFacts DEF TypeOK
    <3> QED  BY <1>4, <2>2, <3>1, <3>2 DEF MbsInPartition, Needed
  <2> QED  BY <2>2, <2>3
<1>5. state = "VP8_DATA" /\ NextByte' = Needed
  <2>1. state = "VP8_DATA"
    BY DEF AtMb, InFrame
  <2>2. state' = "VP8_DATA" /\ UNCHANGED <<file, mbX, mbY>>
    BY <2>1 DEF input, rows
  <2> QED  BY <2>1, <2>2, Zenon DEF NextByte, Needed
<1>6. SuspendedInv'
  <2>1. MbsInPartition' => MbsInPartition
    BY DEF MbsInPartition, input
  <2> QED  BY <1>4, <1>5, <2>1 DEF SuspendedInv, input
<1> QED BY <1>1, <1>2, <1>3, <1>6

\* A macroblock takes its bytes, and a single partition is released up to there.
LEMMA DecodeMBInv ==
  ASSUME IncrementalInv, DecodeMB
  PROVE  IncrementalInv'
<1> USE DEF IncrementalInv
<1>0. /\ pc = "decode" /\ state = "VP8_DATA" /\ ready /\ dec /\ TypeOK /\ InFrame /\ MbDecodes
      /\ mbY < file.mbH /\ mbX < file.mbW /\ lastMbY = mbY /\ mbX' = mbX + 1
      /\ UNCHANGED <<file, received, live, base, state, dec, ready, ioData, br, alphaData,
                     alphaDone, mbY, lastMbY, modeRows, pc, ret, hooks, blame>>
      /\ mem' = IF file.nparts > 1 THEN mem ELSE [mem EXCEPT !.start = parts'[1].ptr.off]
  BY DEF DecodeMB, AtMb, InFrame, history, CallInv
<1> DEFINE least == Most(Needed - TokenBr.pos, 0)
<1>1. PICK n \in least..Least(least + Prefetch, TokenBr.len) :
        parts' = [parts EXCEPT ![TokenPart] = Loaded(@, n)]
  BY DEF DecodeMB
<1>2. /\ Needed \in Nat /\ Needed = file.mbs[Decoded + 1] /\ Decoded \in Nat
  BY <1>0, NextMb
<1>3. /\ TokenPart \in 1..file.nparts /\ TokenBr \in Readers /\ TokenBr = parts[TokenPart]
      /\ TokenBr.len \in Nat /\ ~TokenBr.eof
      /\ TokenBr.pos \in Int /\ TokenBr.ptr.off \in Int
  BY <1>0, TokenReader DEF TokenBr
<1>4. /\ n \in Int /\ 0 <= n /\ n <= TokenBr.len /\ Needed <= TokenBr.pos + n
  <2>1. least \in Int /\ 0 <= least /\ Needed - TokenBr.pos <= least
    BY <1>2, <1>3 DEF Most
  <2>2. Least(least + Prefetch, TokenBr.len) \in Int
        /\ Least(least + Prefetch, TokenBr.len) <= TokenBr.len
    BY <1>3, <2>1, BoundsAssumption DEF Least
  <2> HIDE DEF least
  <2> QED  BY <1>2, <1>3, <2>1, <2>2
<1> HIDE DEF least
<1>5. /\ parts' \in [1..file.nparts -> Readers]
      /\ \A p \in 1..file.nparts : p # TokenPart => parts'[p] = parts[p]
      /\ parts'[TokenPart] = Loaded(TokenBr, n)
  <2>1. Loaded(TokenBr, n) \in Readers /\ parts \in [1..file.nparts -> Readers]
    BY <1>0, <1>3, <1>4, LoadedRight DEF TypeOK
  <2> QED  BY <1>1, <1>3, <2>1
<1>6. LET r == parts'[TokenPart]
      IN  /\ r.ptr.buf = TokenBr.ptr.buf /\ r.ptr.off = TokenBr.ptr.off + n
          /\ r.len = TokenBr.len - n /\ r.pos = TokenBr.pos + n /\ r.eof = TokenBr.eof
  <2>1. LET r == Loaded(TokenBr, n)
        IN  /\ r.ptr.buf = TokenBr.ptr.buf /\ r.ptr.off = TokenBr.ptr.off + n
            /\ r.len = TokenBr.len - n /\ r.pos = TokenBr.pos + n /\ r.eof = TokenBr.eof
    BY <1>3, <1>4, LoadedRight
  <2> QED  BY <1>5, <2>1, Zenon
<1>7. /\ MemInv /\ mem.buf # 0 /\ mem.buf \in Buffers /\ base[mem.buf] \in Int
      /\ mem.start \in Int /\ mem.end \in Int /\ mem.size \in Int /\ mem \in Memories
  BY <1>0, Fields DEF MemInv, Buffers, Part0Copy, TypeOK
<1>8. \A p \in 1..file.nparts :
        /\ InMem(parts[p].ptr, parts[p].pos)
        /\ parts[p].len >= 0
        /\ p = file.nparts => parts[p].ptr.off + parts[p].len = mem.end
        /\ p # file.nparts => parts[p].pos + parts[p].len = file.last
        /\ ~parts[p].eof
  BY <1>0 DEF PartsInv
<1>9. /\ mem' \in Memories /\ mem'.buf = mem.buf /\ mem'.end = mem.end
      /\ mem'.mode = mem.mode /\ mem'.size = mem.size
      /\ mem.start <= mem'.start /\ mem'.start <= mem.end
      /\ file.nparts = 1 => TokenPart = 1 /\ mem'.start = parts'[1].ptr.off
      /\ file.nparts # 1 => mem'.start = mem.start
  <2>1. CASE file.nparts = 1
    <3>1. TokenPart = 1
      BY <1>3, <2>1
    <3>2. parts'[1].ptr.off = TokenBr.ptr.off + n /\ parts'[1].ptr.off \in Int
      BY <1>3, <1>4, <1>6, <3>1
    <3>3. mem' = [mem EXCEPT !.start = parts'[1].ptr.off]
      BY <1>0, <2>1
    <3>4. /\ mem' \in Memories /\ mem'.buf = mem.buf /\ mem'.end = mem.end
          /\ mem'.mode = mem.mode /\ mem'.size = mem.size /\ mem'.start = parts'[1].ptr.off
      BY <1>7, <3>2, <3>3, Released
    <3>5. mem.start <= TokenBr.ptr.off /\ TokenBr.ptr.off + TokenBr.len = mem.end
      BY <1>3, <1>8, <2>1, <3>1 DEF InMem
    <3>6. mem.start <= mem'.start /\ mem'.start <= mem.end
      BY <1>3, <1>4, <1>7, <3>2, <3>4, <3>5
    <3> QED  BY <2>1, <3>1, <3>4, <3>6
  <2>2. CASE file.nparts # 1
    <3>1. file.nparts > 1
      BY <1>0, <2>2, FileFacts
    <3> QED  BY <1>0, <1>7, <2>2, <3>1 DEF MemInv
  <2> QED  BY <2>1, <2>2
<1>10. CallInv' /\ SuspendedInv' /\ NoFalseError'
  BY <1>0 DEF CallInv, SuspendedInv, NoFalseError
<1>11. RowsInv'
  BY <1>0, FileFacts DEF RowsInv, TypeOK
<1>12. TypeOK'
  <2>1. mbX' \in Nat
    BY <1>0 DEF TypeOK
  <2> QED  BY <1>0, <1>5, <1>9, <2>1 DEF TypeOK
<1>13. MemInv'
  <2>1. 0 <= mem'.start
    BY <1>7, <1>9, <1>12, Fields DEF MemInv, TypeOK, Memories
  <2> QED  BY <1>0, <1>7, <1>9, <2>1 DEF MemInv
<1>14. HeadersInv' /\ Part0Inv'
  BY <1>0, <1>9 DEF HeadersInv, Part0Inv, Holds
<1>15. AlphaInv'
  <2>1. mem'.start \in Int
    BY <1>9 DEF Memories
  <2> QED  BY <1>0, <1>7, <1>9, <2>1, Fields DEF AlphaInv
<1>16. PartsInv'
  <2>1. SUFFICES ASSUME NEW p \in 1..file.nparts
                 PROVE  /\ parts'[p].ptr.buf = mem.buf
                        /\ base[mem.buf] + parts'[p].ptr.off = parts'[p].pos
                        /\ mem'.start <= parts'[p].ptr.off
                        /\ parts'[p].len >= 0
                        /\ p = file.nparts => parts'[p].ptr.off + parts'[p].len = mem.end
                        /\ p # file.nparts => parts'[p].pos + parts'[p].len = file.last
                        /\ ~parts'[p].eof
    BY <1>0, <1>9 DEF PartsInv, InMem
  <2>2. CASE p = TokenPart
    <3>1. /\ TokenBr.ptr.buf = mem.buf /\ base[mem.buf] + TokenBr.ptr.off = TokenBr.pos
          /\ mem.start <= TokenBr.ptr.off
          /\ p = file.nparts => TokenBr.ptr.off + TokenBr.len = mem.end
          /\ p # file.nparts => TokenBr.pos + TokenBr.len = file.last
      BY <1>3, <1>8, <2>2 DEF InMem
    <3>2. /\ base[mem.buf] + (TokenBr.ptr.off + n) = TokenBr.pos + n
          /\ mem.start <= TokenBr.ptr.off + n /\ TokenBr.len - n >= 0
          /\ TokenBr.ptr.off + n + (TokenBr.len - n) = TokenBr.ptr.off + TokenBr.len
          /\ TokenBr.pos + n + (TokenBr.len - n) = TokenBr.pos + TokenBr.len
      BY <1>3, <1>4, <1>7, <3>1
    <3>3. mem'.start <= parts'[p].ptr.off
      <4>1. CASE file.nparts = 1
        BY <1>3, <1>4, <1>6, <1>9, <2>2, <4>1
      <4>2. CASE file.nparts # 1
        BY <1>6, <1>9, <2>2, <3>2, <4>2
      <4> QED  BY <4>1, <4>2
    <3> QED  BY <1>3, <1>6, <2>2, <3>1, <3>2, <3>3
  <2>3. CASE p # TokenPart
    <3>1. file.nparts # 1
      BY <1>3, <2>3
    <3> QED  BY <1>5, <1>8, <1>9, <2>3, <3>1 DEF InMem
  <2> QED  BY <2>2, <2>3
<1>17. MbInv'
  <2>1. SUFFICES ASSUME file.nparts = 1
                 PROVE  /\ Decoded' > 0
                        /\ file.mbs[Decoded'] <= base[mem.buf] + mem'.start
                        /\ parts'[1].ptr.off = mem'.start
    BY <1>0, <1>2, <1>9 DEF MbInv
  <2>2. Decoded' = Decoded + 1
    <3>1. mbY * file.mbW \in Nat /\ mbX \in Nat
      BY <1>0, FileFacts DEF TypeOK
    <3> QED  BY <1>0, <3>1 DEF Decoded
  <2>3. base[mem.buf] + TokenBr.ptr.off = TokenBr.pos
    BY <1>3, <1>8 DEF InMem
  <2>4. mem'.start = TokenBr.ptr.off + n
    BY <1>6, <1>9, <2>1
  <2>5. Needed <= base[mem.buf] + mem'.start
    BY <1>2, <1>3, <1>4, <1>7, <2>3, <2>4
  <2> QED  BY <1>2, <1>9, <2>1, <2>2, <2>5
<1> QED  BY <1>10, <1>11, <1>12, <1>13, <1>14, <1>15, <1>16, <1>17

\* Only a macroblock larger than MaxMbSize does not decode when there are more
\* bytes than this after what a single partition released.
LEMMA MbTooLargeInv ==
  ASSUME IncrementalInv, MbTooLarge
  PROVE  IncrementalInv'
<1> USE DEF IncrementalInv
<1>0. /\ pc = "decode" /\ state = "VP8_DATA" /\ ready /\ TypeOK /\ InFrame /\ ~MbDecodes
      /\ mbY < file.mbH /\ mbX < file.mbW
      /\ file.nparts = 1 /\ MemDataSize(mem) > MaxMbSize
      /\ IDecError("BITSTREAM_ERROR", hooks)
      /\ parts' = EofKept
      /\ UNCHANGED <<file, received, live, base, mem, dec, ready, ioData, br, alphaData,
                     alphaDone, mbX, mbY, lastMbY, modeRows, blame>>
  BY DEF MbTooLarge, AtMb, InFrame, CallInv, input, rows
<1>1. /\ state' = "ERROR" /\ pc' = "client" /\ hooks' = "closed"
  BY <1>0 DEF IDecError, Returns
<1>2. /\ TokenPart = 1 /\ TokenBr \in Readers /\ TokenBr.len \in Nat /\ ~TokenBr.eof
      /\ TokenBr.pos \in Int /\ TokenBr.pos + TokenBr.len = received
      /\ TokenBr = parts[1]
  BY <1>0, TokenReader DEF TokenBr
<1>3. /\ mem.buf \in Buffers /\ mem.buf # 0 /\ base[mem.buf] \in Int
      /\ base[mem.buf] + mem.end = received /\ mem.start \in Int /\ mem.end \in Int
  BY <1>0, Fields DEF MemInv, Buffers, Part0Copy
<1>4. ~MbsFit
  <2>1. Needed > received
    BY <1>0, <1>2, NextMb DEF MbDecodes
  <2>2. received > base[mem.buf] + mem.start + MaxMbSize
    BY <1>0, <1>3, BoundsAssumption DEF MemDataSize
  <2>3. /\ Decoded \in Nat /\ Decoded + 1 \in DOMAIN file.mbs
        /\ Needed = file.mbs[Decoded + 1] /\ Needed \in Nat
        /\ Decoded > 0 => file.mbs[Decoded] \in Nat
    BY <1>0, NextMb
  <2>4. SUFFICES ASSUME MbsFit
                 PROVE  FALSE
    OBVIOUS
  <2> DEFINE k == Decoded + 1
  <2>5. k = Decoded + 1 /\ k \in DOMAIN file.mbs /\ Needed = file.mbs[k]
    BY <2>3
  <2> HIDE DEF k
  <2>8. file.mbs[k] <= MaxMbSize + 1 +
          (IF k = 1 THEN file.parts - (file.modes - file.vp8) ELSE file.mbs[k - 1])
    <3>1. \A i \in DOMAIN file.mbs :
            file.mbs[i] <= MaxMbSize + 1 +
              (IF i = 1 THEN file.parts - (file.modes - file.vp8) ELSE file.mbs[i - 1])
      BY <2>4 DEF MbsFit
    <3> QED  BY <2>5, <3>1, Zenon
  <2>6. CASE Decoded = 0
    <3>1. base[mem.buf] + mem.start = file.parts - (file.modes - file.vp8)
      BY <1>0, <2>6 DEF MbInv, StartsAt
    <3>2. Needed <= MaxMbSize + 1 + (file.parts - (file.modes - file.vp8))
      <4>1. k = 1
        BY <2>5, <2>6
      <4> QED  BY <2>5, <2>8, <4>1
    <3> QED  BY <1>0, <1>3, <2>1, <2>2, <2>3, <3>1, <3>2, BoundsAssumption, Fields
  <2>7. CASE Decoded > 0
    <3>1. file.mbs[Decoded] <= base[mem.buf] + mem.start
      BY <1>0, <2>7 DEF MbInv
    <3>2. Needed <= MaxMbSize + 1 + file.mbs[Decoded]
      <4>1. k # 1 /\ k - 1 = Decoded
        BY <2>3, <2>5, <2>7
      <4> QED  BY <2>5, <2>8, <4>1
    <3> QED  BY <1>0, <1>3, <2>1, <2>2, <2>3, <2>7, <3>1, <3>2, BoundsAssumption, Fields
  <2> QED  BY <2>3, <2>6, <2>7
<1>5. parts' \in [1..file.nparts -> Readers]
      /\ \A p \in 1..file.nparts : parts'[p].ptr.buf = parts[p].ptr.buf
           /\ parts'[p].ptr.off = parts[p].ptr.off + parts[p].len
           /\ parts'[p].len = parts[p].len - parts[p].len
           /\ parts'[p].pos = parts[p].pos + parts[p].len
  <2>1. LET r == Loaded(TokenBr, TokenBr.len)
        IN  /\ r \in Readers /\ r.ptr.buf = TokenBr.ptr.buf
            /\ r.ptr.off = TokenBr.ptr.off + TokenBr.len
            /\ r.len = TokenBr.len - TokenBr.len /\ r.pos = TokenBr.pos + TokenBr.len
    <3>1. TokenBr.len \in Int
      BY <1>2
    <3> QED  BY <1>2, <3>1, LoadedRight, Zenon
  <2> DEFINE e == [Loaded(TokenBr, TokenBr.len) EXCEPT !.eof = TRUE]
  <2>2. /\ e \in Readers /\ e.ptr.buf = TokenBr.ptr.buf
        /\ e.ptr.off = TokenBr.ptr.off + TokenBr.len
        /\ e.len = TokenBr.len - TokenBr.len /\ e.pos = TokenBr.pos + TokenBr.len
    BY <2>1 DEF Readers
  <2>3. parts' = [parts EXCEPT ![1] = e]
    BY <1>0, <1>2 DEF EofKept
  <2> HIDE DEF e
  <2> QED  BY <1>0, <1>2, <2>2, <2>3 DEF TypeOK
<1>6. CallInv' /\ RowsInv' /\ SuspendedInv'
  BY <1>0, <1>1 DEF CallInv, RowsInv, SuspendedInv, Suspended
<1>7. NoFalseError'
  <2>1. ~MbsFit'
    BY <1>0, <1>4 DEF MbsFit
  <2> QED  BY <1>0, <2>1 DEF NoFalseError
<1>8. TypeOK'
  BY <1>0, <1>1, <1>5 DEF TypeOK
<1>9. MemInv' /\ HeadersInv' /\ AlphaInv'
  BY <1>0, <1>1, <1>3 DEF MemInv, HeadersInv, AlphaInv
<1>10. Part0Inv' /\ MbInv'
  BY <1>0, <1>1 DEF Part0Inv, MbInv, Holds
<1>11. PartsInv'
  <2>1. SUFFICES ASSUME NEW p \in 1..file.nparts
                 PROVE  /\ parts'[p].ptr.buf = mem.buf
                        /\ base[mem.buf] + parts'[p].ptr.off = parts'[p].pos
                        /\ mem.start <= parts'[p].ptr.off
                        /\ parts'[p].len >= 0
                        /\ p = file.nparts => parts'[p].ptr.off + parts'[p].len = mem.end
                        /\ p # file.nparts => parts'[p].pos + parts'[p].len = file.last
    BY <1>0, <1>1 DEF PartsInv, InMem
  <2>2. /\ parts[p].ptr.buf = mem.buf
        /\ base[mem.buf] + parts[p].ptr.off = parts[p].pos
        /\ mem.start <= parts[p].ptr.off
        /\ parts[p].len >= 0
        /\ p = file.nparts => parts[p].ptr.off + parts[p].len = mem.end
    BY <1>0 DEF PartsInv, InMem
  <2>3. parts[p].ptr.off \in Int /\ parts[p].pos \in Int /\ parts[p].len \in Int /\ p = file.nparts
    BY <1>0, Fields
  <2>4. /\ parts'[p].ptr.buf = parts[p].ptr.buf
        /\ parts'[p].ptr.off = parts[p].ptr.off + parts[p].len
        /\ parts'[p].len = 0
        /\ parts'[p].pos = parts[p].pos + parts[p].len
    BY <1>5, <2>3
  <2>5. parts'[p].ptr.off = mem.end /\ mem.start <= mem.end
    BY <1>0, <2>2, <2>3, <2>4 DEF MemInv
  <2>6. base[mem.buf] + parts'[p].ptr.off = parts'[p].pos
    BY <1>3, <2>2, <2>3, <2>4
  <2> QED  BY <1>3, <2>2, <2>3, <2>4, <2>5, <2>6
<1> QED  BY <1>6, <1>7, <1>8, <1>9, <1>10, <1>11

\* VP8ProcessRow() goes to the next row, and may be done with the alpha.
LEMMA ProcessRowInv ==
  ASSUME IncrementalInv, ProcessRow
  PROVE  IncrementalInv'
<1> USE DEF IncrementalInv
<1>0. /\ pc = "decode" /\ state = "VP8_DATA" /\ ready /\ TypeOK /\ mem.buf # 0
      /\ mbY < file.mbH /\ mbX = file.mbW
      /\ UNCHANGED <<file, received, live, base, mem, dec, ready, ioData, br, parts,
                     alphaData, lastMbY, modeRows>>
  BY DEF ProcessRow, InFrame, CallInv, MemInv, input, readers
<1>1. CASE /\ IDecError("USER_ABORT", hooks) /\ blame' = TRUE
           /\ UNCHANGED <<alphaDone, mbX, mbY>>
  <2> USE <1>0, <1>1 DEF IDecError, Returns
  <2>1. CallInv' /\ RowsInv' /\ SuspendedInv' /\ NoFalseError'
    BY DEF CallInv, RowsInv, SuspendedInv, Suspended, NoFalseError
  <2>2. TypeOK'
    BY DEF TypeOK
  <2>3. MemInv' /\ HeadersInv' /\ AlphaInv'
    BY DEF MemInv, HeadersInv, AlphaInv
  <2>4. Part0Inv' /\ PartsInv' /\ MbInv'
    BY DEF Part0Inv, PartsInv, MbInv, InMem, Holds
  <2> QED  BY <2>1, <2>2, <2>3, <2>4
<1>2. ASSUME /\ \/ alphaDone' = TRUE /\ file.alpha # 0
                \/ UNCHANGED alphaDone
                   /\ (mbY + 1 = file.mbH => file.alpha = 0 \/ alphaDone)
             /\ mbX' = 0 /\ mbY' = mbY + 1
             /\ UNCHANGED <<state, pc, ret, hooks, blame>>
      PROVE  IncrementalInv'
  <2> USE <1>0, <1>2
  <2>1. mbX > 0 /\ mbY \in Nat /\ mbX \in Nat /\ file.mbW \in Nat /\ file.mbH \in Nat
    BY FileFacts DEF TypeOK
  <2>2. RowsInv'
    BY <2>1 DEF RowsInv
  <2>3. CallInv' /\ SuspendedInv' /\ NoFalseError'
    BY DEF CallInv, SuspendedInv, NoFalseError
  <2>4. alphaDone' \in BOOLEAN
    BY DEF TypeOK
  <2>5. TypeOK'
    <3>1. mbX' \in Nat /\ mbY' \in Nat
      BY <2>1
    <3> QED  BY <2>4, <3>1 DEF TypeOK
  <2>6. MemInv' /\ HeadersInv' /\ Part0Inv' /\ PartsInv'
    BY DEF MemInv, HeadersInv, Part0Inv, PartsInv, InMem, Holds
  <2>7. AlphaInv'
    BY DEF AlphaInv
  <2>8. Decoded' = Decoded
    <3>1. (mbY + 1) * file.mbW + 0 = mbY * file.mbW + file.mbW
      BY <2>1
    <3> QED  BY <3>1 DEF Decoded
  <2>9. MbInv'
    BY <2>8 DEF MbInv, StartsAt
  <2> QED  BY <2>2, <2>3, <2>5, <2>6, <2>7, <2>9
<1> QED  BY <1>1, <1>2 DEF ProcessRow, history

\* VP8ExitCritical() closes the hooks.
LEMMA FinishDecodingInv ==
  ASSUME IncrementalInv, FinishDecoding
  PROVE  IncrementalInv'
<1> USE DEF IncrementalInv
<1>0. /\ pc = "decode" /\ state = "VP8_DATA" /\ ready /\ TypeOK /\ dec /\ mem.buf # 0
      /\ UNCHANGED <<file, received, live, base, mem, dec, ioData, br, parts,
                     alphaData, alphaDone, mbX, mbY, lastMbY, modeRows>>
      /\ pc' = "client" /\ hooks' = "closed"
      /\ \/ state' = "ERROR" /\ blame' = TRUE /\ ready' = ready
         \/ state' = "DONE" /\ ready' = FALSE /\ blame' \in {blame, TRUE}
  BY DEF FinishDecoding, InFrame, CallInv, MemInv, input, readers, rows, Returns
<1>1. CallInv' /\ RowsInv' /\ SuspendedInv' /\ NoFalseError'
  BY <1>0 DEF CallInv, RowsInv, SuspendedInv, Suspended, NoFalseError
<1>2. TypeOK'
  BY <1>0 DEF TypeOK
<1>3. MemInv' /\ HeadersInv' /\ AlphaInv'
  BY <1>0 DEF MemInv, HeadersInv, AlphaInv
<1>4. Part0Inv' /\ PartsInv' /\ MbInv'
  BY <1>0 DEF Part0Inv, PartsInv, MbInv, InMem, Holds
<1> QED  BY <1>1, <1>2, <1>3, <1>4

-----------------------------------------------------------------------------
(* The memory grows and moves                                              *)

\* The moves of the memory.
Moves == [from : {0, 1, 2}, to : {0, 1, 2}, by : Int]

\* VP8RemapBitReader(): a reader of the memory follows it.
LEMMA RemapRight ==
  ASSUME NEW r \in Readers, NEW d \in Moves
  PROVE  LET q == VP8RemapBitReader(r, d)
         IN  /\ q \in Readers
             /\ r.ptr.buf = d.from /\ d.from # 0 =>
                  /\ q.ptr.buf = d.to /\ q.ptr.off = r.ptr.off + d.by
                  /\ q.len = r.len /\ q.pos = r.pos /\ q.eof = r.eof
<1>1. Moved(r.ptr, d) \in Addresses
      /\ (r.ptr.buf = d.from => Moved(r.ptr, d) = [buf |-> d.to, off |-> r.ptr.off + d.by])
  BY DEF Moved, Moves, NULL, Readers, Addresses, Buffers, Part0Copy
<1> DEFINE p == Moved(r.ptr, d)
<1>2. VP8RemapBitReader(r, d) = IF r.ptr.buf = 0 THEN r ELSE [r EXCEPT !.ptr = p]
  BY DEF VP8RemapBitReader
<1>3. p \in Addresses /\ (r.ptr.buf = d.from => p.buf = d.to /\ p.off = r.ptr.off + d.by)
  BY <1>1
<1> HIDE DEF p
<1>4. LET q == [r EXCEPT !.ptr = p]
      IN  q \in Readers /\ q.ptr = p /\ q.len = r.len /\ q.pos = r.pos /\ q.eof = r.eof
  BY <1>3 DEF Readers
<1> QED  BY <1>2, <1>3, <1>4

\* VP8BitReaderSetBuffer() changes the length alone.
LEMMA UpToEndRight ==
  ASSUME NEW r \in Readers, NEW m, m.end \in Int
  PROVE  LET q == UpToEnd(r, m)
         IN  /\ q \in Readers
             /\ q.ptr = r.ptr /\ q.pos = r.pos /\ q.eof = r.eof
             /\ r.ptr.buf # 0 => q.len = m.end - r.ptr.off
<1>1. m.end - r.ptr.off \in Int
  BY DEF Readers, Addresses
<1> QED  BY <1>1 DEF UpToEnd, Readers

\* How far the first byte that is not released moved in the memory.
By == mem'.start - mem.start

\* What a call that takes in n bytes does of the memory: it holds all that it
\* held from mem.start on, or from the compressed alpha on, and n bytes more.
Grown(mode, n) ==
  /\ mem' \in Memories /\ mem'.mode = mode
  /\ 0 <= mem'.start /\ mem'.start <= mem'.end /\ mem'.end <= mem'.size
  /\ mem'.buf = 0 => mem.buf = 0 /\ received' = 0 /\ mem'.size = 0 /\ mode = "APPEND"
  /\ mem'.buf # 0 => /\ mem'.buf \in live'
                     /\ base'[mem'.buf] + mem'.end = received'
                     /\ (mode = "MAP" => base'[mem'.buf] = 0)
  /\ mem.buf # 0 => mem'.buf # 0 /\ base'[mem'.buf] = base[mem.buf] - By
  /\ mem.buf = 0 /\ mem'.buf # 0 => base'[mem'.buf] = 0
  /\ mem.buf = 0 => By = 0
  /\ live' \subseteq Buffers /\ base' \in [Buffers -> Int]
  /\ Part0Copy \in live => Part0Copy \in live'
  /\ base'[Part0Copy] = base[Part0Copy]
  /\ mode = "MAP" \/ state = "WEBP_HEADER" => By = 0
  /\ NeedCompressedAlpha => alphaData.off + By >= 0
  /\ DoRemap(mem', [from |-> mem.buf, to |-> mem'.buf, by |-> By])

\* Rounding up to whole chunks.
LEMMA RoundedUp ==
  ASSUME NEW n \in Nat
  PROVE  Rounded(n) \in Nat /\ n <= Rounded(n)
<1> DEFINE c == ChunkSize
           q == (n + c - 1) \div c
           r == (n + c - 1) % c
<1>1. c \in Nat /\ c > 0
  BY BoundsAssumption
<1>2. n + c - 1 \in Nat
  BY <1>1
<1>3. q \in Nat /\ r \in 0..(c - 1) /\ n + c - 1 = q * c + r
  BY <1>1, <1>2
<1>4. Rounded(n) = q * c
  BY DEF Rounded
<1> HIDE DEF c, q, r
<1>5. q * c \in Nat
  BY <1>1, <1>3
<1> DEFINE m == q * c
<1>6. m \in Nat /\ n + c - 1 = m + r
  BY <1>3, <1>5
<1> HIDE DEF m
<1>7. n <= m
  BY <1>1, <1>3, <1>6
<1> QED  BY <1>4, <1>6, <1>7 DEF m

\* The alpha the decoder still needs is in the memory, before mem.start.
LEMMA AlphaKept ==
  ASSUME IncrementalInv, pc # "deleted", NeedCompressedAlpha
  PROVE  /\ dec /\ file.alpha # 0 /\ ~alphaDone /\ mem.buf # 0
         /\ alphaData.buf = mem.buf
         /\ base[mem.buf] + alphaData.off = file.alpha
         /\ 0 <= alphaData.off /\ alphaData.off <= mem.start
BY DEF IncrementalInv, NeedCompressedAlpha, AlphaInv, MemInv

\* Where the memory is reallocated from.
LEMMA OldBaseRight ==
  ASSUME IncrementalInv, pc # "deleted"
  PROVE  /\ OldBase \in Int /\ 0 <= OldBase /\ OldBase <= mem.start
         /\ NeedCompressedAlpha => OldBase = alphaData.off
         /\ ~NeedCompressedAlpha => OldBase = mem.start
<1>1. TypeOK /\ MemInv
  BY DEF IncrementalInv
<1>2. CASE NeedCompressedAlpha  BY <1>1, <1>2, AlphaKept, Fields DEF OldBase
<1>3. CASE ~NeedCompressedAlpha  BY <1>1, <1>3, Fields DEF OldBase, MemInv
<1> QED  BY <1>2, <1>3

\* AppendToMemBuffer() when the memory is large enough.
LEMMA AppendedInPlace ==
  ASSUME IncrementalInv, pc = "client", NEW n \in Nat, mem.mode \in {"NONE", "APPEND"},
         received' = received + n, mem.end + n <= mem.size,
         mem' = [mem EXCEPT !.mode = "APPEND", !.end = @ + n],
         DoRemap(mem', [from |-> mem.buf, to |-> mem.buf, by |-> 0]),
         UNCHANGED <<live, base>>
  PROVE  Grown("APPEND", n)
<1>1. TypeOK /\ MemInv /\ HeadersInv /\ mem \in Memories
  BY DEF IncrementalInv, TypeOK
<1>2. /\ mem' \in Memories /\ mem'.mode = "APPEND" /\ mem'.start = mem.start
      /\ mem'.end = mem.end + n /\ mem'.size = mem.size /\ mem'.buf = mem.buf
  <2>1. mem' = [mode |-> "APPEND", buf |-> mem.buf, start |-> mem.start,
                end |-> mem.end + n, size |-> mem.size]
    BY <1>1 DEF Memories
  <2>2. mem.end + n \in Int
    BY <1>1, Fields
  <2> QED  BY <1>1, <2>1, <2>2 DEF Memories, Modes
<1>3. /\ mem.buf \in {0, 1, 2} /\ mem.start \in Int /\ mem.end \in Int /\ received \in Nat
      /\ \A b \in Buffers : base[b] \in Int
      /\ live \subseteq Buffers /\ base \in [Buffers -> Int]
  BY <1>1, Fields DEF TypeOK
<1>4. By = 0
  BY <1>2, <1>3 DEF By
<1>5. mem'.end <= mem'.size /\ 0 <= mem'.start /\ mem'.start <= mem'.end
  BY <1>1, <1>2, <1>3 DEF MemInv
<1>6. mem'.buf = 0 => received' = 0 /\ mem'.size = 0
  <2>1. SUFFICES ASSUME mem.buf = 0
                 PROVE  n = 0
    BY <1>1, <1>2, <1>3 DEF MemInv
  <2>2. mem.size = 0 /\ 0 <= mem.start /\ mem.start <= mem.end
    BY <1>1, <2>1 DEF MemInv
  <2> QED  BY <1>3, <2>2
<1>7. mem.buf # 0 => /\ mem.buf \in live /\ base[mem.buf] \in Int
                     /\ base[mem.buf] + (mem.end + n) = received + n
                     /\ base[mem.buf] = base[mem.buf] - 0
  BY <1>1, <1>3 DEF MemInv, Buffers, Part0Copy
<1>8. NeedCompressedAlpha => alphaData.off + By >= 0
  BY <1>1, <1>4, AlphaKept, Fields
<1> QED  BY <1>2, <1>3, <1>4, <1>5, <1>6, <1>7, <1>8 DEF Grown

\* AppendToMemBuffer() when it is reallocated.
LEMMA AppendedElsewhere ==
  ASSUME IncrementalInv, pc = "client", NEW n \in Nat, mem.mode \in {"NONE", "APPEND"},
         received' = received + n,
         LET start == mem.start - OldBase
             kept  == MemDataSize(mem) + start
             new   == Other(mem.buf)
             m     == [mode |-> "APPEND", buf |-> new, start |-> start,
                       end |-> kept + n, size |-> Rounded(kept + n)]
         IN  /\ mem' = m
             /\ live' = (live \ {mem.buf}) \cup {new}
             /\ base' = [base EXCEPT ![new] =
                           IF mem.buf = 0 THEN 0 ELSE base[mem.buf] + OldBase]
             /\ DoRemap(m, [from |-> mem.buf, to |-> new, by |-> start - mem.start])
  PROVE  Grown("APPEND", n)
<1> DEFINE start == mem.start - OldBase
           kept  == MemDataSize(mem) + start
           new   == Other(mem.buf)
           to    == IF mem.buf = 0 THEN 0 ELSE base[mem.buf] + OldBase
<1>1. TypeOK /\ MemInv /\ HeadersInv
  BY DEF IncrementalInv
<1>2. /\ mem.buf \in {0, 1, 2} /\ mem.start \in Int /\ mem.end \in Int /\ mem.size \in Int
      /\ received \in Nat /\ \A b \in Buffers : base[b] \in Int
      /\ live \subseteq Buffers /\ base \in [Buffers -> Int]
  BY <1>1, Fields DEF TypeOK
<1>3. new \in {1, 2} /\ new # mem.buf /\ new \in Buffers
  BY <1>2 DEF Other, Buffers, Part0Copy
<1>4. /\ start \in Nat /\ kept \in Nat /\ start <= kept
      /\ start = mem.start - OldBase /\ kept = mem.end - OldBase
      /\ 0 <= mem.start /\ mem.start <= mem.end
      /\ OldBase \in Int /\ 0 <= OldBase /\ OldBase <= mem.start
  BY <1>1, <1>2, OldBaseRight DEF MemInv, MemDataSize
<1>5. kept + n \in Nat /\ Rounded(kept + n) \in Nat /\ kept + n <= Rounded(kept + n)
  BY <1>4, RoundedUp
<1>6. /\ mem' = [mode |-> "APPEND", buf |-> new, start |-> start,
                 end |-> kept + n, size |-> Rounded(kept + n)]
      /\ live' = (live \ {mem.buf}) \cup {new}
      /\ base' = [base EXCEPT ![new] = to]
      /\ DoRemap(mem', [from |-> mem.buf, to |-> new, by |-> start - mem.start])
  OBVIOUS
<1> HIDE DEF start, kept, new
<1>7. /\ mem' \in Memories /\ mem'.mode = "APPEND" /\ mem'.start = start
      /\ mem'.end = kept + n /\ mem'.size = Rounded(kept + n) /\ mem'.buf = new
  BY <1>3, <1>4, <1>5, <1>6 DEF Memories, Modes
<1>8. By = start - mem.start /\ By = 0 - OldBase
  BY <1>2, <1>4, <1>7 DEF By
<1>9. /\ to \in Int
      /\ mem.buf # 0 => to = base[mem.buf] - By /\ to + mem'.end = received'
      /\ mem.buf = 0 => to = 0 /\ to + mem'.end = received' /\ By = 0
  <2>1. CASE mem.buf # 0
    <3>1. base[mem.buf] \in Int /\ base[mem.buf] + mem.end = received /\ to = base[mem.buf] + OldBase
      BY <1>1, <1>2, <2>1 DEF MemInv, Buffers, Part0Copy
    <3>2. to \in Int /\ to = base[mem.buf] - By
      BY <1>4, <1>8, <3>1
    <3>3. to + (kept + n) = received + n
      BY <1>2, <1>4, <3>1
    <3> QED  BY <1>7, <2>1, <3>2, <3>3
  <2>2. CASE mem.buf = 0
    <3>1. mem.size = 0 /\ received = 0 /\ mem.end <= mem.size /\ to = 0
      BY <1>1, <2>2 DEF MemInv
    <3> QED  BY <1>2, <1>4, <1>7, <1>8, <2>2, <3>1
  <2> QED  BY <2>1, <2>2
<1> HIDE DEF to
<1>10. /\ base' \in [Buffers -> Int] /\ base'[new] = to /\ base'[Part0Copy] = base[Part0Copy]
       /\ live' \subseteq Buffers /\ new \in live' /\ (Part0Copy \in live => Part0Copy \in live')
  <2>1. new # Part0Copy /\ mem.buf # Part0Copy /\ Part0Copy \in Buffers
    BY <1>2, <1>3 DEF Part0Copy, Buffers
  <2>2. base' \in [Buffers -> Int] /\ base'[new] = to /\ base'[Part0Copy] = base[Part0Copy]
    BY <1>2, <1>3, <1>6, <1>9, <2>1
  <2>3. live' \subseteq Buffers /\ new \in live' /\ (Part0Copy \in live => Part0Copy \in live')
    BY <1>2, <1>3, <1>6, <2>1
  <2> QED  BY <2>2, <2>3
<1>11. state = "WEBP_HEADER" => By = 0
  <2>1. state = "WEBP_HEADER" => mem.start = 0
    BY <1>1 DEF HeadersInv
  <2> QED  BY <1>4, <1>8, <2>1
<1>12. NeedCompressedAlpha => alphaData.off + By >= 0
  BY <1>1, <1>8, OldBaseRight, Fields
<1>13. 0 <= mem'.start /\ mem'.start <= mem'.end /\ mem'.end <= mem'.size
  BY <1>4, <1>5, <1>7
<1>14. DoRemap(mem', [from |-> mem.buf, to |-> mem'.buf, by |-> By])
  BY <1>6, <1>7, <1>8
<1>15. mem'.buf # 0
  BY <1>3, <1>7
<1> QED
  BY <1>7, <1>8, <1>9, <1>10, <1>11, <1>12, <1>13, <1>14, <1>15 DEF Grown

\* RemapMemBuffer()
LEMMA Remapped ==
  ASSUME IncrementalInv, pc = "client", NEW n \in Nat, mem.mode \in {"NONE", "MAP"},
         received' = received + n, RemapMemBuffer(n)
  PROVE  Grown("MAP", n)
<1>1. TypeOK /\ MemInv /\ HeadersInv /\ mem \in Memories
  BY DEF IncrementalInv, TypeOK
<1>2. PICK b \in {1, 2} :
        /\ mem' = [mem EXCEPT !.mode = "MAP", !.buf = b, !.end = received + n,
                              !.size = received + n]
        /\ live' = (live \ {1, 2}) \cup {b}
        /\ base' = [base EXCEPT ![b] = 0]
        /\ DoRemap(mem', [from |-> mem.buf, to |-> b, by |-> 0])
  BY DEF RemapMemBuffer
<1>3. /\ mem.buf \in {0, 1, 2} /\ mem.start \in Int /\ mem.end \in Int /\ received \in Nat
      /\ received + n \in Nat
      /\ \A c \in Buffers : base[c] \in Int
      /\ live \subseteq Buffers /\ base \in [Buffers -> Int]
  BY <1>1, Fields DEF TypeOK
<1>4. /\ mem' \in Memories /\ mem'.mode = "MAP" /\ mem'.start = mem.start
      /\ mem'.end = received + n /\ mem'.size = received + n /\ mem'.buf = b
  <2>1. mem' = [mode |-> "MAP", buf |-> b, start |-> mem.start,
                end |-> received + n, size |-> received + n]
    BY <1>1, <1>2 DEF Memories
  <2> QED  BY <1>1, <1>3, <2>1 DEF Memories, Modes
<1>5. By = 0
  BY <1>3, <1>4 DEF By
<1>6. /\ base' \in [Buffers -> Int] /\ base'[b] = 0 /\ base'[Part0Copy] = base[Part0Copy]
      /\ live' \subseteq Buffers /\ b \in live' /\ (Part0Copy \in live => Part0Copy \in live')
  BY <1>2, <1>3 DEF Part0Copy, Buffers
<1>7. /\ mem.buf # 0 => base[mem.buf] = 0 /\ mem.end = received
      /\ mem.buf = 0 => mem.end = 0 /\ mem.start = 0 /\ received = 0
  <2>1. CASE mem.buf # 0
    <3>1. mem.mode = "MAP" /\ base[mem.buf] = 0 /\ base[mem.buf] + mem.end = received
      BY <1>1, <2>1 DEF MemInv
    <3> QED  BY <1>3, <2>1, <3>1
  <2>2. CASE mem.buf = 0
    <3>1. 0 <= mem.start /\ mem.start <= mem.end /\ mem.end <= mem.size /\ mem.size = 0 /\ received = 0
      BY <1>1, <2>2 DEF MemInv
    <3> QED  BY <1>3, <2>2, <3>1
  <2> QED  BY <2>1, <2>2
<1>8. 0 <= mem'.start /\ mem'.start <= mem'.end /\ mem'.end <= mem'.size
  BY <1>1, <1>3, <1>4, <1>7 DEF MemInv
<1>9. NeedCompressedAlpha => alphaData.off + By >= 0
  BY <1>1, <1>5, AlphaKept, Fields
<1>10. DoRemap(mem', [from |-> mem.buf, to |-> mem'.buf, by |-> By])
  BY <1>2, <1>4, <1>5
<1>11. mem'.buf # 0 /\ base'[mem'.buf] + mem'.end = received'
  BY <1>3, <1>4, <1>6
<1>12. mem.buf # 0 => base'[mem'.buf] = base[mem.buf] - By
  BY <1>4, <1>5, <1>6, <1>7
<1> QED
  BY <1>4, <1>5, <1>6, <1>8, <1>9, <1>10, <1>11, <1>12 DEF Grown

\* What DoRemap() leaves of the readers and of the alpha.
LEMMA GrownReaders ==
  ASSUME IncrementalInv, pc = "client", NEW mode, NEW n \in Nat, Grown(mode, n),
         UNCHANGED <<file, state, dec, ready, alphaDone>>
  PROVE  /\ ioData' = [buf |-> mem'.buf, off |-> mem'.start] /\ ioData' \in Addresses
         /\ parts' \in [1..file.nparts -> Readers] /\ br' \in Readers
         /\ alphaData' \in Addresses
         /\ ready => \A p \in 1..file.nparts :
              /\ parts'[p].ptr.buf = mem'.buf
              /\ parts'[p].ptr.off = parts[p].ptr.off + By
              /\ parts'[p].pos = parts[p].pos /\ parts'[p].eof = parts[p].eof
              /\ p = file.nparts => parts'[p].len = mem'.end - parts'[p].ptr.off
              /\ p # file.nparts => parts'[p].len = parts[p].len
         /\ mode # "MAP" => br' = br
         /\ ready /\ mode = "MAP" /\ br.ptr.buf = mem.buf =>
              /\ br'.ptr.buf = mem'.buf /\ br'.ptr.off = br.ptr.off
              /\ br'.pos = br.pos /\ br'.len = br.len
         /\ NeedCompressedAlpha => alphaData' = [buf |-> mem'.buf, off |-> alphaData.off + By]
         /\ ~NeedCompressedAlpha => alphaData' = alphaData
<1> DEFINE d == [from |-> mem.buf, to |-> mem'.buf, by |-> By]
           moved == [p \in 1..file.nparts |-> VP8RemapBitReader(parts[p], d)]
<1>1. /\ TypeOK /\ MemInv /\ CallInv /\ PartsInv
  BY DEF IncrementalInv
<1>2. /\ mem' \in Memories /\ mem'.buf \in {0, 1, 2} /\ mem'.start \in Int /\ mem'.end \in Int
      /\ mem'.mode = mode /\ By \in Int
      /\ mem.buf \in {0, 1, 2}
      /\ DoRemap(mem', d)
      /\ mode = "MAP" => By = 0
      /\ file.nparts \in 1..file.nparts
  <2>1. mem' \in Memories /\ mem'.mode = mode /\ DoRemap(mem', d) /\ (mode = "MAP" => By = 0)
    BY DEF Grown
  <2>2. mem.buf \in {0, 1, 2} /\ mem.start \in Int /\ file.nparts \in {1, 2}
    BY <1>1, Fields, FileFacts
  <2> QED  BY <2>1, <2>2 DEF Memories, By
<1>2a. d \in Moves /\ d.from = mem.buf /\ d.to = mem'.buf /\ d.by = By
  BY <1>2 DEF Moves
<1>3. /\ ioData' = At(mem', mem'.start)
      /\ parts' = [moved EXCEPT ![file.nparts] = UpToEnd(@, mem')]
      /\ br' = IF mode = "MAP" THEN VP8RemapBitReader(br, d) ELSE br
      /\ alphaData' = IF NeedCompressedAlpha THEN Moved(alphaData, d) ELSE alphaData
  BY <1>2 DEF DoRemap
<1>4. \A p \in 1..file.nparts :
        /\ moved[p] \in Readers
        /\ parts[p].ptr.buf = mem.buf /\ mem.buf # 0 =>
             /\ moved[p].ptr.buf = mem'.buf /\ moved[p].ptr.off = parts[p].ptr.off + By
             /\ moved[p].len = parts[p].len /\ moved[p].pos = parts[p].pos
             /\ moved[p].eof = parts[p].eof
  <2>1. SUFFICES ASSUME NEW p \in 1..file.nparts
                 PROVE  LET q == VP8RemapBitReader(parts[p], d)
                        IN  /\ q \in Readers
                            /\ parts[p].ptr.buf = mem.buf /\ mem.buf # 0 =>
                                 /\ q.ptr.buf = mem'.buf /\ q.ptr.off = parts[p].ptr.off + By
                                 /\ q.len = parts[p].len /\ q.pos = parts[p].pos
                                 /\ q.eof = parts[p].eof
    BY Zenon
  <2>2. parts[p] \in Readers
    BY <1>1, Fields
  <2> HIDE DEF d
  <2> QED  BY <1>2a, <2>2, RemapRight, Zenon
<1> HIDE DEF moved
<1>5. /\ parts' \in [1..file.nparts -> Readers]
      /\ \A p \in 1..file.nparts : p # file.nparts => parts'[p] = moved[p]
      /\ parts'[file.nparts] = UpToEnd(moved[file.nparts], mem')
  <2>1. UpToEnd(moved[file.nparts], mem') \in Readers
    BY <1>2, <1>4, UpToEndRight
  <2>2. moved \in [1..file.nparts -> Readers]
    BY <1>4 DEF moved
  <2> QED  BY <1>2, <1>3, <2>1, <2>2
<1>6. LET u == UpToEnd(moved[file.nparts], mem')
      IN  /\ u.ptr = moved[file.nparts].ptr /\ u.pos = moved[file.nparts].pos
          /\ u.eof = moved[file.nparts].eof
          /\ moved[file.nparts].ptr.buf # 0 =>
               u.len = mem'.end - moved[file.nparts].ptr.off
  BY <1>2, <1>4, UpToEndRight
<1>7. ASSUME ready, NEW p \in 1..file.nparts
      PROVE  /\ parts'[p].ptr.buf = mem'.buf
             /\ parts'[p].ptr.off = parts[p].ptr.off + By
             /\ parts'[p].pos = parts[p].pos /\ parts'[p].eof = parts[p].eof
             /\ p = file.nparts => parts'[p].len = mem'.end - parts'[p].ptr.off
             /\ p # file.nparts => parts'[p].len = parts[p].len
  <2>1. mem.buf # 0 /\ mem'.buf # 0
    BY <1>1, <1>7 DEF CallInv, MemInv, Grown
  <2>2. parts[p].ptr.buf = mem.buf
    BY <1>1, <1>7 DEF PartsInv, InMem
  <2>3. /\ moved[p].ptr.buf = mem'.buf /\ moved[p].ptr.off = parts[p].ptr.off + By
        /\ moved[p].len = parts[p].len /\ moved[p].pos = parts[p].pos
        /\ moved[p].eof = parts[p].eof
    BY <1>4, <2>1, <2>2
  <2>4. CASE p = file.nparts
    BY <1>5, <1>6, <2>1, <2>3, <2>4
  <2>5. CASE p # file.nparts
    BY <1>5, <2>3, <2>5
  <2> QED  BY <2>4, <2>5
<1>8. /\ br' \in Readers
      /\ mode # "MAP" => br' = br
      /\ ready /\ mode = "MAP" /\ br.ptr.buf = mem.buf =>
           /\ br'.ptr.buf = mem'.buf /\ br'.ptr.off = br.ptr.off
           /\ br'.pos = br.pos /\ br'.len = br.len
  <2>1. br \in Readers /\ br.ptr.off \in Int
    BY <1>1, Fields DEF TypeOK
  <2>2. LET q == VP8RemapBitReader(br, d)
        IN  /\ q \in Readers
            /\ br.ptr.buf = mem.buf /\ mem.buf # 0 =>
                 /\ q.ptr.buf = mem'.buf /\ q.ptr.off = br.ptr.off + By
                 /\ q.len = br.len /\ q.pos = br.pos /\ q.eof = br.eof
    <3> HIDE DEF d
    <3>1. LET q == VP8RemapBitReader(br, d)
          IN  /\ q \in Readers
              /\ br.ptr.buf = d.from /\ d.from # 0 =>
                   /\ q.ptr.buf = d.to /\ q.ptr.off = br.ptr.off + d.by
                   /\ q.len = br.len /\ q.pos = br.pos /\ q.eof = br.eof
      BY <1>2a, <2>1, RemapRight
    <3> QED  BY <1>2a, <3>1
  <2>3. CASE mode = "MAP"
    <3>1. br' = VP8RemapBitReader(br, d) /\ By = 0
      BY <1>2, <1>3, <2>3
    <3>2. ready => mem.buf # 0
      BY <1>1 DEF CallInv, MemInv
    <3>3. br.ptr.off + 0 = br.ptr.off
      BY <2>1
    <3> HIDE DEF d
    <3> QED  BY <2>2, <2>3, <3>1, <3>2, <3>3
  <2>4. CASE mode # "MAP"
    BY <1>3, <2>1, <2>4
  <2> QED  BY <2>3, <2>4
<1>9. /\ alphaData' \in Addresses
      /\ NeedCompressedAlpha => alphaData' = [buf |-> mem'.buf, off |-> alphaData.off + By]
      /\ ~NeedCompressedAlpha => alphaData' = alphaData
  <2>1. alphaData \in Addresses /\ alphaData.off \in Int
    BY <1>1, Fields
  <2>2. CASE NeedCompressedAlpha
    <3>1. alphaData.buf = mem.buf
      BY <1>1, <2>2, AlphaKept
    <3>2. alphaData' = [buf |-> mem'.buf, off |-> alphaData.off + By]
      BY <1>3, <2>2, <3>1 DEF Moved
    <3>3. [buf |-> mem'.buf, off |-> alphaData.off + By] \in Addresses
      BY <1>2, <2>1 DEF Addresses, Buffers, Part0Copy
    <3> QED  BY <2>2, <3>2, <3>3
  <2>3. CASE ~NeedCompressedAlpha
    BY <1>3, <2>1, <2>3
  <2> QED  BY <2>2, <2>3
<1>10. ioData' = [buf |-> mem'.buf, off |-> mem'.start] /\ ioData' \in Addresses
  <2>1. [buf |-> mem'.buf, off |-> mem'.start] \in Addresses
    BY <1>2 DEF Addresses, Buffers, Part0Copy
  <2> QED  BY <1>3, <2>1 DEF At
<1> QED  BY <1>5, <1>7, <1>8, <1>9, <1>10

\* WebPIAppend() or WebPIUpdate() take in n bytes.
LEMMA FeedInv ==
  ASSUME IncrementalInv, NEW mode \in {"APPEND", "MAP"}, Feed(mode)
  PROVE  IncrementalInv'
<1>0. /\ pc = "client" /\ Suspended /\ mem.mode \in {"NONE", mode} /\ pc' = "decode"
      /\ UNCHANGED <<file, state, dec, ready, alphaDone, mbX, mbY, lastMbY, modeRows, ret,
                     hooks, blame>>
  BY DEF Feed, rows, history
<1>1. PICK n \in Pieces :
        /\ received' = received + n
        /\ IF mode = "APPEND" THEN AppendToMemBuffer(n) ELSE RemapMemBuffer(n)
  BY DEF Feed
<1>2. n \in Nat
  BY BoundsAssumption
<1>3. Grown(mode, n)
  <2>1. CASE mode = "MAP"
    BY <1>0, <1>1, <1>2, <2>1, Remapped
  <2>2. CASE mode = "APPEND"
    <3>1. AppendToMemBuffer(n) /\ mem.mode \in {"NONE", "APPEND"}
      BY <1>0, <1>1, <2>2
    <3>2. CASE /\ mem.end + n <= mem.size
               /\ LET m == [mem EXCEPT !.mode = "APPEND", !.end = @ + n]
                  IN  /\ mem' = m
                      /\ DoRemap(m, [from |-> mem.buf, to |-> mem.buf, by |-> 0])
               /\ UNCHANGED <<live, base>>
      <4>1. /\ mem.end + n <= mem.size
            /\ mem' = [mem EXCEPT !.mode = "APPEND", !.end = @ + n]
            /\ DoRemap(mem', [from |-> mem.buf, to |-> mem.buf, by |-> 0])
            /\ UNCHANGED <<live, base>>
        BY <3>2
      <4> QED  BY <1>0, <1>1, <1>2, <2>2, <3>1, <4>1, AppendedInPlace
    <3>3. CASE LET start == mem.start - OldBase
                   kept  == MemDataSize(mem) + start
                   new   == Other(mem.buf)
                   m     == [mode |-> "APPEND", buf |-> new, start |-> start,
                             end |-> kept + n, size |-> Rounded(kept + n)]
               IN  /\ mem' = m
                   /\ live' = (live \ {mem.buf}) \cup {new}
                   /\ base' = [base EXCEPT ![new] =
                                 IF mem.buf = 0 THEN 0 ELSE base[mem.buf] + OldBase]
                   /\ DoRemap(m, [from |-> mem.buf, to |-> new, by |-> start - mem.start])
      BY <1>0, <1>1, <1>2, <2>2, <3>1, <3>3, AppendedElsewhere
    <3> QED  BY <3>1, <3>2, <3>3 DEF AppendToMemBuffer
  <2> QED  BY <2>1, <2>2
<1>4. /\ TypeOK /\ CallInv /\ RowsInv /\ NoFalseError
      /\ MemInv /\ HeadersInv /\ Part0Inv /\ PartsInv /\ AlphaInv /\ MbInv
  BY <1>0 DEF IncrementalInv
<1>5. /\ mem' \in Memories /\ mem'.mode = mode
      /\ mem'.start \in Int /\ mem'.end \in Int /\ mem'.buf \in {0, 1, 2}
      /\ mem.start \in Int /\ By \in Int /\ mem'.start = mem.start + By
      /\ 0 <= mem'.start /\ mem'.start <= mem'.end /\ mem'.end <= mem'.size
      /\ base' \in [Buffers -> Int] /\ live' \subseteq Buffers
  <2>1. mem' \in Memories /\ mem'.mode = mode
        /\ base' \in [Buffers -> Int] /\ live' \subseteq Buffers
        /\ 0 <= mem'.start /\ mem'.start <= mem'.end /\ mem'.end <= mem'.size
    BY <1>3 DEF Grown
  <2>2. mem'.start \in Int /\ mem'.end \in Int /\ mem'.buf \in {0, 1, 2}
    BY <2>1 DEF Memories
  <2>3. mem.start \in Int
    BY <1>4, Fields
  <2> QED  BY <2>1, <2>2, <2>3 DEF By
<1>6. /\ ioData' = [buf |-> mem'.buf, off |-> mem'.start] /\ ioData' \in Addresses
      /\ parts' \in [1..file.nparts -> Readers] /\ br' \in Readers
      /\ alphaData' \in Addresses
  BY <1>0, <1>2, <1>3, GrownReaders
<1>7. TypeOK'
  <2>1. received' \in Nat
    BY <1>1, <1>2, <1>4 DEF TypeOK
  <2> QED  BY <1>0, <1>4, <1>5, <1>6, <2>1 DEF TypeOK
<1>8. RowsInv' /\ SuspendedInv'
  BY <1>0, <1>4 DEF RowsInv, SuspendedInv
<1>8a. CallInv'
  BY <1>0, <1>4 DEF CallInv, Suspended
<1>8b. NoFalseError'
  BY <1>0 DEF NoFalseError, Suspended
<1>9. MemInv'
  <2>1. mem'.buf = 0 => /\ received' = 0 /\ mem'.size = 0
                        /\ state' = "WEBP_HEADER" /\ mem'.mode # "MAP"
    BY <1>0, <1>3, <1>4 DEF Grown, MemInv
  <2>2. mem'.buf # 0 => /\ mem'.buf \in live'
                        /\ base'[mem'.buf] + mem'.end = received'
                        /\ (mem'.mode = "MAP" => base'[mem'.buf] = 0)
    BY <1>3, <1>5 DEF Grown
  <2> QED  BY <1>5, <2>1, <2>2 DEF MemInv
  \* The bytes of the memory stay at their offsets in the file.
<1>10. mem.buf # 0 =>
         /\ mem.buf \in Buffers /\ base[mem.buf] \in Int
         /\ mem'.buf \in Buffers /\ base'[mem'.buf] \in Int
         /\ base'[mem'.buf] = base[mem.buf] - By
         /\ mem'.buf # 0
  BY <1>3, <1>4, <1>5, Fields DEF Grown, Buffers, Part0Copy
<1>11. state # "WEBP_HEADER" => mem.buf # 0
  BY <1>4 DEF MemInv
<1>12. ASSUME NEW pos \in Int, mem.buf # 0, base[mem.buf] + mem.start = pos
       PROVE  base'[mem'.buf] + mem'.start = pos
  BY <1>5, <1>10, <1>12
<1>13. HeadersInv'
  <2>1. ASSUME state = "WEBP_HEADER"
        PROVE  mem'.start = 0 /\ (mem'.buf # 0 => base'[mem'.buf] = 0)
    <3>1. By = 0 /\ mem.start = 0 /\ (mem.buf # 0 => base[mem.buf] = 0)
      BY <1>3, <1>4, <2>1 DEF Grown, HeadersInv
    <3>2. mem.buf = 0 /\ mem'.buf # 0 => base'[mem'.buf] = 0
      BY <1>3 DEF Grown
    <3> QED  BY <1>5, <1>10, <3>1, <3>2
  <2>2. ASSUME state = "VP8_PARTS0"
        PROVE  base'[mem'.buf] + mem'.start = file.vp8
    <3>1. base[mem.buf] + mem.start = file.vp8
      BY <1>0, <1>4, <2>2 DEF HeadersInv, StartsAt
    <3> QED  BY <1>4, <1>11, <1>12, <2>2, <3>1, FileFacts
  <2>3. state # "VP8_HEADER"
    BY <1>0, <1>4 DEF CallInv
  <2> QED  BY <1>0, <1>5, <1>6, <2>1, <2>2, <2>3 DEF HeadersInv, StartsAt
<1>14. Part0Inv'
  <2>1. SUFFICES ASSUME ready
                 PROVE  /\ Holds(br.ptr, br.pos)'
                        /\ mem'.mode = "MAP" => br'.ptr.buf = mem'.buf
                        /\ mem'.mode = "APPEND" => br'.ptr.buf = Part0Copy
    BY <1>0, <1>4 DEF Part0Inv, CallInv
  <2>2. /\ state = "VP8_DATA" /\ mem.buf # 0 /\ mem.mode # "NONE"
        /\ Holds(br.ptr, br.pos)
        /\ mem.mode = "MAP" => br.ptr.buf = mem.buf
        /\ mem.mode = "APPEND" => br.ptr.buf = Part0Copy
    <3>1. state = "VP8_DATA"
      BY <1>0, <1>4, <2>1 DEF CallInv, Suspended, TypeOK
    <3> QED  BY <1>4, <2>1, <3>1 DEF Part0Inv, MemInv
  <2>3. mem.mode = mode
    BY <1>0, <2>2
  <2>4. CASE mode = "APPEND"
    <3>1. br' = br
      BY <1>0, <1>2, <1>3, <2>4, GrownReaders
    <3>2. Part0Copy \in live' /\ base'[Part0Copy] = base[Part0Copy]
      BY <1>3, <2>2, <2>3, <2>4 DEF Grown, Holds
    <3> QED  BY <1>5, <2>2, <2>3, <2>4, <3>1, <3>2 DEF Holds
  <2>5. CASE mode = "MAP"
    <3>1. /\ br'.ptr.buf = mem'.buf /\ br'.ptr.off = br.ptr.off /\ br'.pos = br.pos
      BY <1>0, <1>2, <1>3, <2>1, <2>2, <2>3, <2>5, GrownReaders
    <3>2. base'[mem'.buf] = 0 /\ mem'.buf \in live' /\ base[mem.buf] = 0
      BY <1>3, <1>4, <1>10, <2>2, <2>3, <2>5 DEF Grown, MemInv
    <3> QED  BY <1>5, <2>2, <2>3, <2>5, <3>1, <3>2 DEF Holds
  <2> QED  BY <2>4, <2>5
<1>15. PartsInv'
  <2>1. SUFFICES ASSUME ready, NEW p \in 1..file.nparts
                 PROVE  /\ parts'[p].ptr.buf = mem'.buf
                        /\ base'[mem'.buf] + parts'[p].ptr.off = parts'[p].pos
                        /\ mem'.start <= parts'[p].ptr.off
                        /\ parts'[p].len >= 0
                        /\ p = file.nparts => parts'[p].ptr.off + parts'[p].len = mem'.end
                        /\ p # file.nparts => parts'[p].pos + parts'[p].len = file.last
                        /\ state # "ERROR" => ~parts'[p].eof
    BY <1>0 DEF PartsInv, InMem
  <2>2. /\ parts[p].ptr.buf = mem.buf
        /\ base[mem.buf] + parts[p].ptr.off = parts[p].pos
        /\ mem.start <= parts[p].ptr.off
        /\ parts[p].len >= 0
        /\ p = file.nparts => parts[p].ptr.off + parts[p].len = mem.end
        /\ p # file.nparts => parts[p].pos + parts[p].len = file.last
        /\ state # "ERROR" => ~parts[p].eof
    BY <1>4, <2>1 DEF PartsInv, InMem
  <2>3. parts[p].ptr.off \in Int /\ parts[p].pos \in Int /\ parts[p].len \in Int
    BY <1>4, Fields
  <2>4. /\ parts'[p].ptr.buf = mem'.buf
        /\ parts'[p].ptr.off = parts[p].ptr.off + By
        /\ parts'[p].pos = parts[p].pos /\ parts'[p].eof = parts[p].eof
        /\ p = file.nparts => parts'[p].len = mem'.end - parts'[p].ptr.off
        /\ p # file.nparts => parts'[p].len = parts[p].len
    BY <1>0, <1>2, <1>3, <2>1, GrownReaders
  <2>5. mem.buf # 0
    BY <1>4, <1>11, <2>1 DEF CallInv
  <2>6. base'[mem'.buf] + parts'[p].ptr.off = parts'[p].pos /\ mem'.start <= parts'[p].ptr.off
    BY <1>5, <1>10, <2>2, <2>3, <2>4, <2>5
  <2>7. ASSUME p = file.nparts
        PROVE  parts'[p].len >= 0 /\ parts'[p].ptr.off + parts'[p].len = mem'.end
    <3>1. parts'[p].len = mem'.end - parts'[p].ptr.off
      BY <2>4, <2>7
    <3>2. base[mem.buf] + mem.end = received /\ base'[mem'.buf] + mem'.end = received + n
          /\ mem.end \in Int /\ received \in Nat
      BY <1>1, <1>3, <1>4, <1>10, <2>5, Fields DEF MemInv, Grown
    <3>3. parts[p].ptr.off <= mem.end
      BY <2>2, <2>3, <2>7, <3>2
    <3>4. mem'.end = mem.end + n + By
      <4>1. /\ base[mem.buf] \in Int /\ base'[mem'.buf] = base[mem.buf] - By
            /\ By \in Int /\ n \in Int /\ mem'.end \in Int
        BY <1>2, <1>5, <1>10, <2>5
      <4> QED  BY <3>2, <4>1
    <3> QED  BY <1>2, <1>5, <2>3, <2>4, <3>1, <3>2, <3>3, <3>4
  <2>8. ASSUME p # file.nparts
        PROVE  parts'[p].len >= 0 /\ parts'[p].pos + parts'[p].len = file.last
    BY <2>2, <2>4, <2>8
  <2> QED  BY <2>2, <2>4, <2>6, <2>7, <2>8
<1>16. AlphaInv'
  <2>1. state = "WEBP_HEADER" \/ ~dec \/ file.alpha = 0 => alphaData' = NULL
    <3>1. SUFFICES ASSUME state = "WEBP_HEADER" \/ ~dec \/ file.alpha = 0
                   PROVE  alphaData' = NULL
      OBVIOUS
    <3>2. alphaData = NULL
      BY <1>4, <3>1 DEF AlphaInv
    <3>3. ~NeedCompressedAlpha
      BY <3>2 DEF NeedCompressedAlpha
    <3> QED  BY <1>0, <1>2, <1>3, <3>2, <3>3, GrownReaders
  <2>2. ASSUME dec, file.alpha # 0, ~alphaDone
        PROVE  /\ alphaData'.buf = mem'.buf
               /\ base'[mem'.buf] + alphaData'.off = file.alpha
               /\ 0 <= alphaData'.off /\ alphaData'.off <= mem'.start
    <3>1. /\ alphaData.buf = mem.buf
          /\ base[mem.buf] + alphaData.off = file.alpha
          /\ 0 <= alphaData.off /\ alphaData.off <= mem.start
          /\ state # "WEBP_HEADER" /\ mem.buf # 0
      BY <1>4, <1>11, <2>2 DEF AlphaInv, CallInv
    <3>2. NeedCompressedAlpha
      BY <2>2, <3>1 DEF NeedCompressedAlpha, NULL
    <3>3. alphaData' = [buf |-> mem'.buf, off |-> alphaData.off + By]
      BY <1>0, <1>2, <1>3, <3>2, GrownReaders
    <3>4. alphaData.off + By >= 0
      BY <1>3, <3>2 DEF Grown
    <3> QED  BY <1>4, <1>5, <1>10, <3>1, <3>3, <3>4, Fields
  <2> QED  BY <1>0, <2>1, <2>2 DEF AlphaInv
<1>17. MbInv'
  <2>1. SUFFICES ASSUME file.nparts = 1, state = "VP8_DATA"
                 PROVE  /\ Decoded = 0 =>
                             base'[mem'.buf] + mem'.start = file.parts - (file.modes - file.vp8)
                        /\ Decoded > 0 =>
                             /\ file.mbs[Decoded] <= base'[mem'.buf] + mem'.start
                             /\ parts'[1].ptr.off = mem'.start
    BY <1>0 DEF MbInv, Decoded, StartsAt
  <2>2. /\ Decoded = 0 => base[mem.buf] + mem.start = file.parts - (file.modes - file.vp8)
        /\ Decoded > 0 => /\ file.mbs[Decoded] <= base[mem.buf] + mem.start
                          /\ parts[1].ptr.off = mem.start
    BY <1>0, <1>4, <2>1 DEF MbInv, StartsAt
  <2>3. mem.buf # 0 /\ ready
    BY <1>4, <1>11, <2>1 DEF CallInv
  <2>4. base'[mem'.buf] + mem'.start = base[mem.buf] + mem.start
    BY <1>5, <1>10, <2>3
  <2>5. 1 \in 1..file.nparts
    BY <2>1
  <2>6. parts'[1].ptr.off = parts[1].ptr.off + By
    BY <1>0, <1>2, <1>3, <2>3, <2>5, GrownReaders
  <2> QED  BY <1>5, <2>2, <2>4, <2>6
<1> QED
  BY <1>0, <1>7, <1>8, <1>8a, <1>8b, <1>9, <1>13, <1>14, <1>15, <1>16, <1>17
  DEF IncrementalInv

-----------------------------------------------------------------------------
(* The theorems                                                            *)

\* Every step keeps the invariant.
LEMMA NextInv ==
  ASSUME IncrementalInv, [Next]_vars
  PROVE  IncrementalInv'
<1>1. CASE UNCHANGED vars
  <2> USE <1>1 DEF vars, input, readers, rows, history, IncrementalInv
  <2>1. TypeOK' /\ CallInv' /\ RowsInv'
    BY DEF TypeOK, CallInv, RowsInv
  <2>2. NoFalseError'
    BY DEF NoFalseError, MbsFit
  <2>3. SuspendedInv'
    <3>1. NextByte' = NextByte
      BY Zenon DEF NextByte, Needed
    <3>2. MbsInPartition' => MbsInPartition
      BY DEF MbsInPartition
    <3> QED  BY <3>1, <3>2 DEF SuspendedInv, Suspended
  <2>4. pc # "deleted" =>
          (MemInv /\ HeadersInv /\ Part0Inv /\ PartsInv /\ AlphaInv /\ MbInv)'
    BY DEF MemInv, HeadersInv, Part0Inv, PartsInv, AlphaInv, MbInv, StartsAt, Holds,
           InMem, Decoded
  <2> QED  BY <2>1, <2>2, <2>3, <2>4
<1>2. CASE Calls
  BY <1>2, FeedInv, FeedRefusedInv, FeedTooLateInv, DeleteInv DEF Calls
<1>3. CASE IDecode
  BY <1>3, HeadersSuspendedInv, DecodeWebPHeadersInv, DecodeVP8FrameHeaderInv,
     Part0SuspendedInv, VP8GetHeadersInv, CopyParts0DataInv, EnterFrameInv,
     ParseIntraModeRowInv, DecodeMBInv, MbSuspendedInv, MbTooLargeInv, ProcessRowInv,
     FinishDecodingInv
  DEF IDecode
<1> QED  BY <1>1, <1>2, <1>3 DEF Next, Done

\* The invariant holds of every file, every way to cut it, every mode of the
\* input, and every failure of an allocation or of a hook.
THEOREM IncrementalInvariant == Spec => []IncrementalInv
<1>1. Init => IncrementalInv  BY InitInv
<1>2. IncrementalInv /\ [Next]_vars => IncrementalInv'  BY NextInv
<1> QED  BY <1>1, <1>2, PTL DEF Spec

\* However the input grows, moves and is released, the addresses the decoder
\* still uses are those of the bytes it means (DoRemap(), AppendToMemBuffer(),
\* CopyParts0Data(), DecodeRemaining()).
THEOREM InputStaysInReach == Spec => []AddressesRight
<1>1. IncrementalInv => AddressesRight
  <2> SUFFICES ASSUME IncrementalInv, pc # "deleted"
               PROVE  /\ mem.start <= mem.end /\ mem.end <= mem.size
                      /\ state \in {"VP8_HEADER", "VP8_PARTS0"} => Holds(ioData, file.vp8)
                      /\ ready =>
                           /\ Holds(br.ptr, br.pos)
                           /\ \A p \in 1..file.nparts : Holds(parts[p].ptr, parts[p].pos)
                      /\ dec /\ file.alpha # 0 /\ ~alphaDone =>
                           Holds(alphaData, file.alpha)
    BY DEF AddressesRight
  <2>1. TypeOK /\ MemInv /\ HeadersInv /\ Part0Inv /\ PartsInv /\ AlphaInv /\ CallInv
    BY DEF IncrementalInv
  <2>2. mem.start \in Int /\ 0 <= mem.start /\ (state # "WEBP_HEADER" => mem.buf \in live)
    BY <2>1, Fields DEF MemInv
  <2>3. state \in {"VP8_HEADER", "VP8_PARTS0"} => Holds(ioData, file.vp8)
    BY <2>1, <2>2 DEF HeadersInv, Holds
  <2>4. ASSUME ready, NEW p \in 1..file.nparts
        PROVE  Holds(parts[p].ptr, parts[p].pos)
    <3>1. InMem(parts[p].ptr, parts[p].pos) /\ parts[p].ptr.off \in Int
          /\ state # "WEBP_HEADER"
      BY <2>1, <2>4, Fields DEF PartsInv, CallInv
    <3> QED  BY <2>2, <3>1 DEF InMem, Holds
  <2>5. dec /\ file.alpha # 0 /\ ~alphaDone => Holds(alphaData, file.alpha)
    BY <2>1, <2>2 DEF AlphaInv, CallInv, Holds
  <2> QED  BY <2>1, <2>3, <2>4, <2>5 DEF MemInv, Part0Inv
<1> QED  BY <1>1, IncrementalInvariant, PTL

\* A call that returns SUSPENDED decoded all the bytes received allow, and the
\* modes of each row were parsed once (last_mb_y_).
THEOREM CutsDoNotMatter == Spec => []DecodesAllItCan
<1>1. IncrementalInv => DecodesAllItCan
  BY DEF IncrementalInv, SuspendedInv, RowsInv, TypeOK, DecodesAllItCan, ModesParsedOnce
<1> QED  BY <1>1, IncrementalInvariant, PTL

\* teardown() is called once for each setup() that succeeded, errors and
\* WebPIDelete() included.
THEOREM SetupsAreTornDown == Spec => []HooksPaired
<1>1. IncrementalInv => HooksPaired
  BY DEF IncrementalInv, CallInv, HooksPaired
<1> QED  BY <1>1, IncrementalInvariant, PTL

\* A valid file whose macroblocks fit in MAX_MB_SIZE fails only if an allocation
\* or a hook does: the limit of DecodeRemaining() is right.
THEOREM ValidFilesAreDecoded == Spec => []NoFalseError
<1>1. IncrementalInv => NoFalseError
  BY DEF IncrementalInv
<1> QED  BY <1>1, IncrementalInvariant, PTL
=============================================================================
