------------------------- MODULE IncrementalDecoder -------------------------
(***************************************************************************)
(* WebPIDecoder (src/dec/idec_dec.c) on lossy images: a file arrives in    *)
(* pieces, either copied into a buffer of the decoder (WebPIAppend) or in  *)
(* a growing, possibly moving buffer of the caller (WebPIUpdate); each     *)
(* call decodes as much as it can and returns.                             *)
(*                                                                         *)
(* A buffer is known by the offset in the file of its first byte, so an    *)
(* address of the decoder is right when the buffer it points into is still *)
(* allocated and holds there the byte the decoder means.  Rows are         *)
(* delivered within the call here; RowPipeline has the worker thread.      *)
(***************************************************************************)
EXTENDS Integers, Sequences

CONSTANTS
  Files,      \* the layouts of the files
  Pieces,     \* how many bytes a call may bring
  ChunkSize,  \* CHUNK_SIZE
  MaxMbSize,  \* MAX_MB_SIZE
  Prefetch    \* bytes a bit reader may load before it needs them

\* Offsets in the file; a macroblock needs the bytes of its partition up to
\* its element of mbs.
ASSUME FilesAssumption ==
  \A f \in Files :
    /\ {f.alpha, f.vp8, f.modes, f.parts, f.last, f.size} \subseteq Nat
    /\ f.alpha < f.vp8            \* payload of the ALPH chunk, or 0
    /\ f.vp8 < f.modes            \* frame header
    /\ f.modes < f.parts          \* dec->br_ when the headers are read
    /\ f.parts + 3 * (f.nparts - 1) <= f.last   \* partition 0, sizes
    /\ f.nparts = 1 => f.last = f.parts
    /\ f.last < f.size            \* last partition
    /\ f.mbW \in Nat \ {0} /\ f.mbH \in Nat \ {0}
    /\ f.mbs \in [1..(f.mbW * f.mbH) -> 0..f.size]
    /\ f.nparts \in {1, 2}
    /\ f.bad \in {"no", "headers", "part0", "modes"}   \* what is corrupted

ASSUME BoundsAssumption ==
  /\ Pieces \subseteq Nat
  /\ ChunkSize \in Nat \ {0} /\ MaxMbSize \in Nat /\ Prefetch \in Nat

VARIABLES
  file,      \* the file the caller feeds
  received,  \* history: bytes the decoder accepted
  live,      \* buffers that are allocated
  base,      \* offset in the file of the first byte of each buffer
  mem,       \* idec->mem_: mode, buf, start, end, size
  state,     \* idec->state_
  dec,       \* idec->dec_ # NULL
  ready,     \* dec->ready_
  ioData,    \* io_.data
  br,        \* dec->br_, the reader of partition 0
  parts,     \* dec->parts_, the readers of the other partitions
  alphaData, \* dec->alpha_data_
  alphaDone, \* dec->is_alpha_decoded_
  mbX, mbY,  \* dec->mb_x_, mb_y_
  lastMbY,   \* idec->last_mb_y_
  pc,        \* "client", or what the call in progress does next
  ret,       \* what the last call returned
  hooks,     \* history: "none", "open" (setup() called), "refused", "closed"
  modeRows,  \* history: calls of VP8ParseIntraModeRow()
  blame      \* history: allocations failed, or put() or setup() refused

input   == <<file, received, live, base, mem>>
readers == <<ioData, br, parts, alphaData>>
rows    == <<alphaDone, mbX, mbY, lastMbY, modeRows>>
history == <<hooks, blame>>
vars == <<input, state, dec, ready, readers, rows, pc, ret, history>>

Least(a, b) == IF a < b THEN a ELSE b
Most(a, b)  == IF a < b THEN b ELSE a

-----------------------------------------------------------------------------
(* Addresses and bit readers                                               *)

Part0Copy == 3                        \* mem.part0_buf_
Buffers   == {1, 2, Part0Copy}        \* two for the input: it moves
NULL      == [buf |-> 0, off |-> 0]

\* mem->buf_ + offset
At(m, off) == [buf |-> m.buf, off |-> off]

\* Adding the difference of two addresses, of the buffers d.from and d.to; an
\* address of another buffer gets meaningless.
Moved(p, d) == IF p.buf = d.from THEN [buf |-> d.to, off |-> p.off + d.by]
                                 ELSE NULL

\* A reader: the next byte to load, how many there are, and what this byte
\* should be (history).
Reader(p, n, pos) == [ptr |-> p, len |-> n, pos |-> pos, eof |-> FALSE]

Loaded(r, n) ==
  [r EXCEPT !.ptr.off = @ + n, !.len = @ - n, !.pos = @ + n]

VP8RemapBitReader(r, d) ==
  IF r.ptr.buf = 0 THEN r ELSE [r EXCEPT !.ptr = Moved(@, d)]

NoReader == Reader(NULL, 0, 0)

\* Address p is the one of byte pos.
Holds(p, pos) == p.buf \in live /\ p.off >= 0 /\ base[p.buf] + p.off = pos

-----------------------------------------------------------------------------
(* The input: MemBuffer                                                    *)

MemDataSize(m) == m.end - m.start

NeedCompressedAlpha == state # "WEBP_HEADER" /\ alphaData # NULL /\ ~alphaDone

\* VP8BitReaderSetBuffer() of the last partition (none yet: nothing to read).
UpToEnd(r, m) ==
  IF r.ptr.buf = 0 THEN r ELSE [r EXCEPT !.len = m.end - r.ptr.off]

\* DoRemap(): the memory became m, and the data moved by d.
DoRemap(m, d) ==
  LET moved == [p \in 1..file.nparts |-> VP8RemapBitReader(parts[p], d)]
  IN  /\ ioData' = At(m, m.start)
      /\ parts' = [moved EXCEPT ![file.nparts] = UpToEnd(@, m)]
      /\ br' = IF m.mode = "MAP" THEN VP8RemapBitReader(br, d) ELSE br
      /\ alphaData' = IF NeedCompressedAlpha THEN Moved(alphaData, d) ELSE alphaData

\* new_size rounded up to a multiple of CHUNK_SIZE
Rounded(n) == ((n + ChunkSize - 1) \div ChunkSize) * ChunkSize

\* The first byte to keep when the buffer is reallocated.
OldStart == mem.start                                             \* (faulty)
OldBase  == IF NeedCompressedAlpha THEN alphaData.off ELSE mem.start

Other(b) == IF b = 1 THEN 2 ELSE 1

\* AppendToMemBuffer(), of the n next bytes of the file.
AppendToMemBuffer(n) ==
  \/ /\ mem.end + n <= mem.size
     /\ LET m == [mem EXCEPT !.mode = "APPEND", !.end = @ + n]
        IN  /\ mem' = m
            /\ DoRemap(m, [from |-> mem.buf, to |-> mem.buf, by |-> 0])
     /\ UNCHANGED <<live, base>>
  \/ /\ mem.end + n > mem.size
     /\ LET start == mem.start - OldBase
            kept  == MemDataSize(mem) + start
            new   == Other(mem.buf)
            m     == [mode |-> "APPEND", buf |-> new, start |-> start,
                      end |-> kept + n, size |-> Rounded(kept + n)]
        IN  /\ mem' = m
            /\ live' = (live \ {mem.buf}) \cup {new}
            /\ base' = [base EXCEPT ![new] =
                          IF mem.buf = 0 THEN 0 ELSE base[mem.buf] + OldBase]
            /\ DoRemap(m, [from |-> mem.buf, to |-> new, by |-> start - mem.start])

\* RemapMemBuffer(): the caller's buffer has n more bytes, and maybe moved.
RemapMemBuffer(n) ==
  \E b \in {1, 2} :
    LET m == [mem EXCEPT !.mode = "MAP", !.buf = b, !.end = received + n,
                         !.size = received + n]
    IN  /\ mem' = m
        /\ live' = (live \ {1, 2}) \cup {b}
        /\ base' = [base EXCEPT ![b] = 0]
        /\ DoRemap(m, [from |-> mem.buf, to |-> b, by |-> 0])

-----------------------------------------------------------------------------
(* The calls                                                               *)

Init ==
  /\ file \in Files
  /\ received = 0
  /\ live = {} /\ base = [b \in Buffers |-> 0]
  /\ mem = [mode |-> "NONE", buf |-> 0, start |-> 0, end |-> 0, size |-> 0]
  /\ state = "WEBP_HEADER" /\ dec = FALSE /\ ready = FALSE
  /\ ioData = NULL /\ br = NoReader
  /\ parts = [p \in 1..file.nparts |-> NoReader]
  /\ alphaData = NULL /\ alphaDone = FALSE
  /\ mbX = 0 /\ mbY = 0 /\ lastMbY = -1
  /\ pc = "client" /\ ret = "none"
  /\ hooks = "none" /\ modeRows = 0 /\ blame = FALSE

\* A call returns: to the caller, with s.
Returns(s) == pc' = "client" /\ ret' = s

Suspended == state \notin {"DONE", "ERROR"}

\* WebPIAppend() or WebPIUpdate() take in more of the file.
Feed(mode) ==
  /\ pc = "client" /\ Suspended
  /\ mem.mode \in {"NONE", mode}
  /\ \E n \in Pieces :
       /\ received + n <= file.size
       /\ received' = received + n
       /\ IF mode = "APPEND" THEN AppendToMemBuffer(n) ELSE RemapMemBuffer(n)
  /\ pc' = "decode"
  /\ UNCHANGED <<file, state, dec, ready, rows, ret, history>>

\* They do not: no memory, another mode than before, or a shorter buffer.
FeedRefused ==
  /\ pc = "client" /\ Suspended
  /\ \/ /\ mem.mode \in {"NONE", "APPEND"}
        /\ \E n \in Pieces : mem.end + n > mem.size
        /\ mem' = [mem EXCEPT !.mode = "APPEND"]
        /\ Returns("OUT_OF_MEMORY")
     \/ /\ mem.mode \in {"APPEND", "MAP"}
        /\ UNCHANGED mem
        /\ Returns("INVALID_PARAM")
  /\ UNCHANGED <<file, received, live, base, state, dec, ready, readers, rows,
                 history>>

\* IDecCheckStatus(): nothing is done any more.
FeedTooLate ==
  /\ pc = "client" /\ ~Suspended
  /\ Returns(IF state = "DONE" THEN "OK" ELSE "BITSTREAM_ERROR")
  /\ UNCHANGED <<input, state, dec, ready, readers, rows, history>>

\* WebPIDelete()
Delete ==
  /\ pc = "client"
  /\ hooks' = IF dec /\ state = "VP8_DATA" THEN "closed" ELSE hooks
  /\ live' = {}
  /\ pc' = "deleted"
  /\ UNCHANGED <<file, received, base, mem, state, dec, ready, readers, rows, ret,
                 blame>>

-----------------------------------------------------------------------------
(* Errors                                                                  *)

\* IDecError(): h is what the hooks have been through.
ErrorOnly(s, h) ==                                                \* (faulty)
  /\ hooks' = h
  /\ state' = "ERROR"
  /\ Returns(s)

IDecError(s, h) ==
  /\ hooks' = IF state = "VP8_DATA" \/ h = "open" THEN "closed" ELSE h
  /\ state' = "ERROR"
  /\ Returns(s)

-----------------------------------------------------------------------------
(* The headers                                                             *)

VP8_FRAME_HEADER_SIZE == 1   \* scaled down from 10

\* DecodeWebPHeaders()
HeadersSuspended ==
  /\ pc = "decode" /\ state = "WEBP_HEADER"
  /\ MemDataSize(mem) < file.vp8 + VP8_FRAME_HEADER_SIZE
  /\ Returns("SUSPENDED")
  /\ UNCHANGED <<input, state, dec, ready, readers, rows, history>>

DecodeWebPHeaders ==
  /\ pc = "decode" /\ state = "WEBP_HEADER"
  /\ MemDataSize(mem) >= file.vp8 + VP8_FRAME_HEADER_SIZE
  /\ \/ /\ file.bad = "headers"
        /\ IDecError("BITSTREAM_ERROR", hooks)
        /\ UNCHANGED <<mem, dec, ioData, alphaData, blame>>
     \/ /\ file.bad # "headers"            \* VP8New() fails
        /\ Returns("OUT_OF_MEMORY") /\ blame' = TRUE
        /\ UNCHANGED <<mem, state, dec, ioData, alphaData, hooks>>
     \/ /\ file.bad # "headers"
        /\ dec' = TRUE
        /\ alphaData' = IF file.alpha = 0 THEN NULL
                        ELSE At(mem, mem.start + file.alpha)
        /\ state' = "VP8_HEADER"           \* ChangeState()
        /\ mem' = [mem EXCEPT !.start = @ + file.vp8]
        /\ ioData' = At(mem, mem.start + file.vp8)
        /\ UNCHANGED <<pc, ret, blame, hooks>>
  /\ UNCHANGED <<file, received, live, base, ready, br, parts, rows>>

DecodeVP8FrameHeader ==
  /\ pc = "decode" /\ state = "VP8_HEADER"
  /\ MemDataSize(mem) >= VP8_FRAME_HEADER_SIZE
  /\ ioData' = At(mem, mem.start)
  /\ state' = "VP8_PARTS0"
  /\ UNCHANGED <<input, dec, ready, br, parts, alphaData, rows, pc, ret, history>>

\* DecodePartition0(): what precedes CopyParts0Data().
Part0Size == file.parts - file.vp8
Sizes     == 3 * (file.nparts - 1)
SizesEnd  == file.parts + Sizes

Part0Suspended ==
  /\ pc = "decode" /\ state = "VP8_PARTS0"
  /\ MemDataSize(mem) < Part0Size
  /\ Returns("SUSPENDED")
  /\ UNCHANGED <<input, state, dec, ready, readers, rows, history>>

\* ParsePartitions(): the readers, on n bytes of data at address p.
PartReaders(p, n) ==
  LET first == Least(file.last - SizesEnd, n - Sizes)   \* bytes before the last
      FromFirst(k, len) ==
        Reader([p EXCEPT !.off = @ + Sizes + k], len, SizesEnd + k)
  IN  [i \in 1..file.nparts |->
         IF i = file.nparts THEN FromFirst(first, n - Sizes - first)
                            ELSE FromFirst(0, first)]

VP8GetHeaders ==
  /\ pc = "decode" /\ state = "VP8_PARTS0" /\ MemDataSize(mem) >= Part0Size
  /\ LET after == MemDataSize(mem) - Part0Size
         used  == file.modes - file.vp8
         opened == IF after < Sizes THEN parts
                   ELSE PartReaders([ioData EXCEPT !.off = @ + Part0Size], after)
     IN  \/ /\ file.bad = "part0"
            /\ IDecError("BITSTREAM_ERROR", hooks)
            /\ UNCHANGED <<ready, br, parts>>
         \/ /\ file.bad # "part0"
            /\ br' = Reader([ioData EXCEPT !.off = @ + used], Part0Size - used,
                            file.modes)
            /\ parts' = opened
            /\ IF after >= Sizes /\ opened[file.nparts].len > 0
               THEN ready' = TRUE /\ pc' = "copy" /\ UNCHANGED ret
               ELSE Returns("SUSPENDED") /\ UNCHANGED ready
            /\ UNCHANGED <<state, hooks>>
  /\ UNCHANGED <<input, dec, ioData, alphaData, rows, blame>>

\* CopyParts0Data(): what is left of partition 0, once the output is there.
CopyParts0Data ==
  /\ pc = "copy"
  /\ \/ /\ IDecError("OUT_OF_MEMORY", hooks) /\ blame' = TRUE
        /\ UNCHANGED <<live, base, br, mem>>
     \/ /\ IF mem.mode = "APPEND"
           THEN /\ live' = live \cup {Part0Copy}
                /\ base' = [base EXCEPT ![Part0Copy] =
                              base[br.ptr.buf] + br.ptr.off]
                /\ br' = [br EXCEPT !.ptr = [buf |-> Part0Copy, off |-> 0]]
           ELSE UNCHANGED <<live, base, br>>
        /\ mem' = [mem EXCEPT !.start = @ + br.len]
        /\ pc' = "enter"
        /\ UNCHANGED <<state, ret, hooks, blame>>
  /\ UNCHANGED <<file, received, dec, ready, ioData, parts, alphaData, rows>>

\* VP8EnterCritical() and VP8InitFrame().
EnterFrame ==
  /\ pc = "enter"
  /\ \/ IDecError("USER_ABORT", "refused") /\ blame' = TRUE
     \/ IDecError("OUT_OF_MEMORY", "open") /\ blame' = TRUE
     \/ /\ hooks' = "open"
        /\ state' = "VP8_DATA"
        /\ pc' = "decode"
        /\ UNCHANGED <<ret, blame>>
  /\ UNCHANGED <<input, dec, ready, readers, rows>>

-----------------------------------------------------------------------------
(* The macroblocks: DecodeRemaining()                                      *)

InFrame == pc = "decode" /\ state = "VP8_DATA" /\ mbY < file.mbH

\* A row of intra modes is parsed when the decoder gets to it, not when it
\* comes back to it.
ParseIntraModeRow ==
  /\ InFrame /\ mbX < file.mbW /\ lastMbY # mbY
  /\ \/ /\ file.bad = "modes"
        /\ IDecError("BITSTREAM_ERROR", hooks)
        /\ UNCHANGED <<br, lastMbY, modeRows>>
     \/ /\ file.bad # "modes"
        /\ \E n \in 0..Least(Prefetch, br.len) : br' = Loaded(br, n)
        /\ lastMbY' = mbY
        /\ modeRows' = modeRows + 1
        /\ UNCHANGED <<state, pc, ret, hooks>>
  /\ UNCHANGED <<input, dec, ready, ioData, parts, alphaData, alphaDone, mbX, mbY,
                 blame>>

TokenPart == 1 + (mbY % file.nparts)
TokenBr   == parts[TokenPart]
Needed    == file.mbs[mbY * file.mbW + mbX + 1]
AtMb      == InFrame /\ mbX < file.mbW /\ lastMbY = mbY
MbDecodes == ~TokenBr.eof /\ Needed <= TokenBr.pos + TokenBr.len

\* VP8DecodeMB() loads what the macroblock takes, and maybe a little more; a
\* single partition is released as it is read.
DecodeMB ==
  /\ AtMb /\ MbDecodes
  /\ LET least == Most(Needed - TokenBr.pos, 0)
     IN  \E n \in least..Least(least + Prefetch, TokenBr.len) :
           parts' = [parts EXCEPT ![TokenPart] = Loaded(@, n)]
  /\ mem' = IF file.nparts > 1 THEN mem
            ELSE [mem EXCEPT !.start = parts'[1].ptr.off]
  /\ mbX' = mbX + 1
  /\ UNCHANGED <<file, received, live, base, state, dec, ready, ioData, br,
                 alphaData, alphaDone, mbY, lastMbY, modeRows, pc, ret, history>>

\* It ran out of data: either that is not possible, or the reader gets back
\* to where it was.
EofKept ==
  [parts EXCEPT ![TokenPart] = [Loaded(TokenBr, TokenBr.len) EXCEPT !.eof = TRUE]]

NoContext ==                                                      \* (faulty)
  /\ AtMb /\ ~MbDecodes
  /\ parts' = EofKept
  /\ Returns("SUSPENDED")
  /\ UNCHANGED <<input, state, dec, ready, ioData, br, alphaData, rows, history>>

MbSuspended ==
  /\ AtMb /\ ~MbDecodes
  /\ file.nparts > 1 \/ MemDataSize(mem) <= MaxMbSize
  /\ Returns("SUSPENDED")                    \* RestoreContext()
  /\ UNCHANGED <<input, state, dec, ready, readers, rows, history>>

AnyPartition ==                                                   \* (faulty)
  /\ AtMb /\ ~MbDecodes
  /\ MemDataSize(mem) > MaxMbSize
  /\ IDecError("BITSTREAM_ERROR", hooks)
  /\ parts' = EofKept
  /\ UNCHANGED <<input, dec, ready, ioData, br, alphaData, rows, blame>>

MbTooLarge ==
  /\ AtMb /\ ~MbDecodes
  /\ file.nparts = 1 /\ MemDataSize(mem) > MaxMbSize
  /\ IDecError("BITSTREAM_ERROR", hooks)
  /\ parts' = EofKept
  /\ UNCHANGED <<input, dec, ready, ioData, br, alphaData, rows, blame>>

\* VP8ProcessRow(): the last row has the last alpha rows; cropping, or
\* dithering, may have them earlier.
ProcessRow ==
  /\ InFrame /\ mbX = file.mbW
  /\ \/ /\ IDecError("USER_ABORT", hooks) /\ blame' = TRUE
        /\ UNCHANGED <<alphaDone, mbX, mbY>>
     \/ /\ \/ alphaDone' = TRUE /\ file.alpha # 0
           \/ UNCHANGED alphaDone /\ (mbY + 1 = file.mbH => file.alpha = 0 \/ alphaDone)
        /\ mbX' = 0 /\ mbY' = mbY + 1
        /\ UNCHANGED <<state, pc, ret, history>>
  /\ UNCHANGED <<input, dec, ready, readers, lastMbY, modeRows>>

\* VP8ExitCritical(), which may report that put() refused a row, and
\* FinishDecoding(), whose flip or slow copy may fail.
FinishDecoding ==
  /\ pc = "decode" /\ state = "VP8_DATA" /\ mbY = file.mbH
  /\ hooks' = "closed"
  /\ \/ /\ state' = "ERROR" /\ blame' = TRUE
        /\ Returns("USER_ABORT") /\ UNCHANGED ready
     \/ /\ state' = "DONE" /\ ready' = FALSE
        /\ Returns("OK") /\ UNCHANGED blame
     \/ /\ state' = "DONE" /\ ready' = FALSE
        /\ Returns("INVALID_PARAM") /\ blame' = TRUE
  /\ UNCHANGED <<input, dec, readers, rows>>

-----------------------------------------------------------------------------
Calls == Feed("APPEND") \/ Feed("MAP") \/ FeedRefused \/ FeedTooLate \/ Delete

IDecode ==
  \/ HeadersSuspended \/ DecodeWebPHeaders \/ DecodeVP8FrameHeader
  \/ Part0Suspended \/ VP8GetHeaders \/ CopyParts0Data \/ EnterFrame
  \/ ParseIntraModeRow \/ DecodeMB \/ MbSuspended \/ MbTooLarge
  \/ ProcessRow \/ FinishDecoding

Done == pc = "deleted" /\ UNCHANGED vars

Next == Calls \/ IDecode \/ Done

Spec == Init /\ [][Next]_vars

-----------------------------------------------------------------------------
(* Properties                                                              *)

\* However the input is reallocated, remapped and released between two calls,
\* the addresses the decoder still uses are those of the bytes it means, in
\* memory that is still allocated: the headers until they are read, then the
\* partitions, and the compressed alpha until it is decoded.  What is kept
\* fits in the buffer.
AddressesRight ==
  pc # "deleted" =>
    /\ mem.start <= mem.end /\ mem.end <= mem.size
    /\ state \in {"VP8_HEADER", "VP8_PARTS0"} => Holds(ioData, file.vp8)
    /\ ready =>
         /\ Holds(br.ptr, br.pos)
         /\ \A p \in 1..file.nparts : Holds(parts[p].ptr, parts[p].pos)
    /\ dec /\ file.alpha # 0 /\ ~alphaDone => Holds(alphaData, file.alpha)

NextByte ==
  CASE state = "WEBP_HEADER" -> file.vp8 + VP8_FRAME_HEADER_SIZE
    [] state = "VP8_PARTS0"  -> file.last + 1
    [] state = "VP8_DATA"    -> Needed

ModesParsedOnce == modeRows = lastMbY + 1 /\ lastMbY <= mbY

\* Files whose first partition, of two, has the macroblocks of its rows.
MbsInPartition ==
  file.nparts = 2 =>
    \A y \in 0..file.mbH - 1, x \in 0..file.mbW - 1 :
      y % 2 = 0 => file.mbs[y * file.mbW + x + 1] <= file.last

\* What is decoded does not depend on how the file was cut: a call that
\* returns SUSPENDED has decoded all that the bytes received so far allow (or
\* waits for good, in a file whose first partition is too short), and the
\* intra modes of each row, which are in a partition of their own, were parsed
\* once, however often the decoder stopped within the row.
DecodesAllItCan ==
  /\ pc = "client" /\ ret = "SUSPENDED" /\ Suspended /\ MbsInPartition =>
       received < NextByte
  /\ ModesParsedOnce

\* Outside a call the hooks are open in state VP8_DATA only: teardown() is
\* called once for each setup() that succeeded, errors and deletion included.
HooksPaired ==
  /\ pc = "client" => (hooks = "open" <=> state = "VP8_DATA")
  /\ pc = "deleted" => hooks # "open"

\* Files whose macroblocks are as small as DecodeRemaining() expects: MAX_MB
\* bytes, of which the first one shares some with the headers.
MbsFit ==
  \A i \in DOMAIN file.mbs :
    file.mbs[i] <= MaxMbSize + 1 +
      (IF i = 1 THEN file.parts - (file.modes - file.vp8) ELSE file.mbs[i - 1])

\* Decoding a valid file by pieces fails only if an allocation or a hook does.
NoFalseError ==
  state = "ERROR" /\ ~blame /\ (file.nparts = 1 => MbsFit) => file.bad # "no"
=============================================================================
