---------------------------- MODULE RowPipeline ----------------------------
(***************************************************************************)
(* The decoding of one lossy frame, row of macroblocks by row: the loops   *)
(* of src/dec/vp8_dec.c and idec_dec.c parse a row, VP8ProcessRow() hands  *)
(* it to FinishRow(), which reconstructs, filters and delivers it in the   *)
(* main thread (mt_method_ 0) or in a worker (mt_method_ 2), while the     *)
(* main thread parses the next row.                                        *)
(*                                                                         *)
(* Samples are abstracted to whole lines: a line of the cache holds line y *)
(* of the picture at some stage of the in-loop filtering.  A program       *)
(* counter names the operation in progress; its effect happens at its end. *)
(* The worker is only used through WorkerContract.                         *)
(***************************************************************************)
EXTENDS Integers, Sequences

CONSTANT Configs   \* the frames and the options to decode them with

ASSUME ConfigsAssumption ==
  \A c \in Configs :
    /\ c.mt \in {0, 2}              \* VP8GetThreadMethod()
    /\ c.filter \in 0..2            \* filter_type_: none, simple, complex
    /\ c.mbH \in Nat \ {0}          \* mb_h_
    /\ c.cropTop \in Nat /\ c.cropTop % 2 = 0
    /\ c.cropBottom \in (c.cropTop + 1)..(16 * c.mbH)
    /\ c.alpha \in BOOLEAN          \* alpha_data_ != NULL
    /\ c.incremental \in BOOLEAN    \* WebPIDecoder or VP8Decode()

VARIABLES
  cfg,      \* the element of Configs being decoded
  pc,       \* what the main thread is doing
  finPc,    \* what FinishRow() is doing; "idle" when no job is in flight
  mbY,      \* dec->mb_y_
  cacheId,  \* dec->cache_id_
  decMb,    \* which of the two buffers dec->mb_data_ points to
  decFi,    \* ... and dec->f_info_
  ctx,      \* dec->thread_ctx_
  mbBuf,    \* the row of macroblocks each of the mb_data_ buffers holds
  fiBuf,    \* ... and each of the f_info_ buffers
  topRow,   \* the row whose bottom samples are in yuv_t_
  cache,    \* cache_y_, cache_u_, cache_v_: line -> what it holds
  alphaRow, \* lines decoded in alpha_plane_
  mem,      \* dec->mem_ is allocated
  status,   \* dec->status_
  pending,  \* an error VP8SetError() is about to write to status_
  ok,       \* no error was returned so far
  hooks, stopped, verdict,           \* history, see FrameOutput
  out,      \* history: the calls of put()
  up, job, owned, err, result        \* the worker, see WorkerContract

RowJob == "FinishRow"   \* worker->hook and its arguments
Wk == INSTANCE WorkerContract WITH Job <- {RowJob}

worker  == <<up, job, owned, err, result>>
buffers == <<decMb, decFi, ctx, mbBuf, fiBuf, cacheId>>
samples == <<topRow, cache, alphaRow, out, stopped>>
outcome == <<status, pending, ok, hooks, verdict>>
vars == <<cfg, pc, finPc, mbY, buffers, samples, mem, outcome, worker>>

Garbage == -2   \* a row number no buffer can be used for
Line(y, stage) == [y |-> y, stage |-> stage]

-----------------------------------------------------------------------------
(* The geometry of the frame                                               *)

\* kFilterExtraRows[]: lines held back, waiting for the row below.
ExtraRows == CASE cfg.filter = 0 -> 0 [] cfg.filter = 1 -> 2 [] cfg.filter = 2 -> 8

\* Lines above the top edge of a row that filtering the edge modifies (for
\* the complex filter, 3 lines of chroma), and lines below it that depend on
\* the ones above, directly or through the inner edges.
EdgeRows  == CASE cfg.filter = 0 -> 0 [] cfg.filter = 1 -> 1 [] cfg.filter = 2 -> 6
ReachRows == CASE cfg.filter = 0 -> 0 [] cfg.filter = 1 -> 1 [] cfg.filter = 2 -> 16

Least(a, b) == IF a < b THEN a ELSE b
Most(a, b)  == IF a < b THEN b ELSE a

\* num_caches_, and the cache the next row goes to.
NumCaches == IF cfg.mt = 0 THEN 1 ELSE IF cfg.filter > 0 THEN 3 ELSE 2
NextCache(id) == (id + 1) % NumCaches

\* tl_mb_y_ and br_mb_y_ (VP8EnterCritical): the rows to filter, and to decode.
TlFromCrop == cfg.cropTop \div 16                             \* (faulty)
TlMbY == IF cfg.filter = 2 THEN 0
         ELSE Most((cfg.cropTop - ExtraRows) \div 16, 0)
BrMbY == Least((cfg.cropBottom + 15 + ExtraRows) \div 16, cfg.mbH)

FilteredRow(m) == cfg.filter > 0 /\ TlMbY <= m /\ m <= BrMbY

\* The rows the loop of ParseFrame(), or of DecodeRemaining(), goes over.
RowBound == IF cfg.incremental THEN cfg.mbH ELSE BrMbY

-----------------------------------------------------------------------------
(* Errors and the end of rows                                              *)

\* VP8SetError() tests status_, then writes it: another thread may come
\* between the two.
SetError(t, e) ==
  pending' = IF status = "OK" THEN [pending EXCEPT ![t] = e] ELSE pending

WriteError(t) ==
  /\ pending[t] # "none"
  /\ status' = pending[t]
  /\ pending' = [pending EXCEPT ![t] = "none"]
  /\ UNCHANGED <<cfg, pc, finPc, mbY, buffers, samples, mem, ok, hooks, verdict,
                 worker>>

\* The main loop stops.  Only VP8Decode() records the error in status_; the
\* incremental decoder returns it (IDecError).
Stop(e) ==
  /\ ok' = FALSE
  /\ pc' = "exit"
  /\ IF cfg.incremental THEN UNCHANGED pending ELSE SetError("main", e)

\* The next turn of the loop: parsing overwrites the current buffers.
BeginRow(m, mb, fi) ==
  /\ mbY' = m
  /\ IF m < RowBound
     THEN /\ pc' = "parse"
          /\ mbBuf' = [mbBuf EXCEPT ![mb] = Garbage]
          /\ fiBuf' = IF cfg.filter > 0 THEN [fiBuf EXCEPT ![fi] = Garbage]
                                        ELSE fiBuf
     ELSE pc' = "frameSync" /\ UNCHANGED <<mbBuf, fiBuf>>

\* FinishRow() returns r: to the worker, or to the loop.
FinishReturns(r) ==
  /\ finPc' = "idle"
  /\ IF cfg.mt = 2
     THEN /\ Wk!Complete(r)
          /\ UNCHANGED <<pc, mbY, buffers, ok, pending>>
     ELSE /\ UNCHANGED <<worker, decMb, decFi, ctx, cacheId>>
          /\ \/ /\ r
                /\ BeginRow(mbY + 1, decMb, decFi)
                /\ UNCHANGED <<ok, pending>>
             \/ /\ ~r
                /\ Stop("USER_ABORT")
                /\ UNCHANGED <<mbY, mbBuf, fiBuf>>

-----------------------------------------------------------------------------
(* The main thread                                                         *)

Init ==
  /\ cfg \in Configs
  /\ pc = "enter" /\ finPc = "idle"
  /\ mbY = 0 /\ cacheId = 0
  /\ decMb = 1 /\ decFi = 1
  /\ ctx = [id |-> 0, mbY |-> 0, filterRow |-> FALSE, mb |-> 1, fi |-> 1]
  /\ mbBuf = <<Garbage, Garbage>> /\ fiBuf = <<Garbage, Garbage>>
  /\ topRow = -1 /\ cache = <<>> /\ alphaRow = 0
  /\ mem = FALSE
  /\ status = "OK" /\ pending = [t \in {"main", "finish"} |-> "none"]
  /\ ok = TRUE
  /\ hooks = "none" /\ stopped = FALSE /\ verdict = "none" /\ out = <<>>
  /\ Wk!Init

\* VP8EnterCritical(): setup() may refuse; then teardown() is not due.
EnterCritical ==
  /\ pc = "enter"
  /\ \/ /\ hooks' = "open" /\ pc' = "thread"
        /\ UNCHANGED <<ok, pending>>
     \/ /\ hooks' = "refused" /\ pc' = "end"
        /\ ok' = FALSE /\ SetError("main", "USER_ABORT")
  /\ UNCHANGED <<cfg, finPc, mbY, buffers, samples, mem, status, verdict, worker>>

InitThreadContext ==
  /\ pc = "thread"
  /\ \/ /\ IF cfg.mt = 2 THEN Wk!Start ELSE UNCHANGED worker
        /\ pc' = "alloc"
        /\ UNCHANGED <<ok, pending>>
     \/ /\ cfg.mt = 2
        /\ ok' = FALSE /\ pc' = "exit" /\ SetError("main", "OUT_OF_MEMORY")
        /\ UNCHANGED worker
  /\ UNCHANGED <<cfg, finPc, mbY, buffers, samples, mem, status, hooks, verdict>>

\* thread_ctx_ gets buffers of its own where it works in parallel.
SameBuffer(mt)   == 1                                         \* (faulty)
SecondBuffer(mt) == IF mt = 2 THEN 2 ELSE 1

AllocateMemory ==
  /\ pc = "alloc"
  /\ \/ /\ mem' = TRUE
        /\ ctx' = [ctx EXCEPT !.mb = SecondBuffer(cfg.mt),
                              !.fi = SecondBuffer(cfg.mt)]
        /\ cache' = [r \in (-ExtraRows)..(16 * NumCaches - 1) |->
                       Line(Garbage, "bad")]
        /\ BeginRow(0, decMb, decFi)
        /\ UNCHANGED <<ok, pending>>
     \/ /\ ok' = FALSE /\ pc' = "exit" /\ SetError("main", "OUT_OF_MEMORY")
        /\ UNCHANGED <<mem, ctx, cache, mbY, mbBuf, fiBuf>>
  /\ UNCHANGED <<cfg, finPc, decMb, decFi, cacheId, topRow, alphaRow, out,
                 stopped, status, hooks, verdict, worker>>

\* What VP8ProcessRow() tells FinishRow() about the row.
RowContext ==
  [id        |-> cacheId,
   mbY       |-> mbY,
   filterRow |-> FilteredRow(mbY),
   mb        |-> decMb,
   fi        |-> IF FilteredRow(mbY) THEN decFi ELSE ctx.fi]

\* The row was parsed.  Without a worker, it is finished on the spot.
RowParsed ==
  /\ pc = "parse"
  /\ mbBuf' = [mbBuf EXCEPT ![decMb] = mbY]
  /\ fiBuf' = IF cfg.filter > 0 THEN [fiBuf EXCEPT ![decFi] = mbY] ELSE fiBuf
  /\ IF cfg.mt = 2
     THEN pc' = "process" /\ UNCHANGED <<ctx, finPc>>
     ELSE pc' = "finish" /\ ctx' = RowContext /\ finPc' = "recon"
  /\ UNCHANGED <<cfg, mbY, decMb, decFi, cacheId, samples, mem, outcome, worker>>

\* The data end within the row, or are corrupted.
RowCorrupted ==
  /\ pc = "parse"
  /\ Stop("NOT_ENOUGH_DATA")
  /\ UNCHANGED <<cfg, finPc, mbY, buffers, samples, mem, status, hooks, verdict,
                 worker>>

\* DecodeRemaining() returns SUSPENDED, once the worker is done.
SuspendWithoutSync ==                                         \* (faulty)
  /\ pc = "parse" /\ cfg.incremental
  /\ pc' = "suspended"
  /\ UNCHANGED <<cfg, finPc, mbY, buffers, samples, mem, outcome, worker>>

Suspend ==
  /\ pc = "parse" /\ cfg.incremental
  /\ IF cfg.mt = 2 THEN Wk!Sync ELSE UNCHANGED worker
  /\ IF err THEN pc' = "exit" /\ ok' = FALSE
            ELSE pc' = "suspended" /\ UNCHANGED ok
  /\ UNCHANGED <<cfg, finPc, mbY, buffers, samples, mem, status, pending, hooks,
                 verdict>>

\* The caller gives more data, or deletes the decoder.
Resume ==
  /\ pc = "suspended" /\ pc' = "parse"
  /\ UNCHANGED <<cfg, finPc, mbY, buffers, samples, mem, outcome, worker>>

Delete ==
  /\ pc = "suspended"
  /\ pc' = "exit" /\ ok' = FALSE
  /\ UNCHANGED <<cfg, finPc, mbY, buffers, samples, mem, status, pending, hooks,
                 verdict, worker>>

\* VP8ProcessRow() waits for the previous row, and gives up if it failed.
IgnoreRowError ==                                             \* (faulty)
  /\ pc = "process"
  /\ Wk!Sync
  /\ pc' = "launch"
  /\ UNCHANGED <<cfg, finPc, mbY, buffers, samples, mem, outcome>>

SyncRow ==
  /\ pc = "process"
  /\ Wk!Sync
  /\ IF err THEN Stop("USER_ABORT")
            ELSE pc' = "launch" /\ UNCHANGED <<ok, pending>>
  /\ UNCHANGED <<cfg, finPc, mbY, buffers, samples, mem, status, hooks, verdict>>

\* ... then swaps the buffers with the worker's and launches it.
LaunchRow ==
  /\ pc = "launch"
  /\ ctx' = RowContext
  /\ decMb' = ctx.mb
  /\ decFi' = IF FilteredRow(mbY) THEN ctx.fi ELSE decFi
  /\ Wk!Accept(RowJob) /\ finPc' = "recon"
  /\ cacheId' = NextCache(cacheId)
  /\ BeginRow(mbY + 1, decMb', decFi')
  /\ UNCHANGED <<cfg, samples, mem, outcome>>

\* After the last row ParseFrame() waits for the worker; DecodeRemaining()
\* leaves that to VP8ExitCritical().
FrameSync ==
  /\ pc = "frameSync"
  /\ IF cfg.mt = 2 /\ ~cfg.incremental
     THEN Wk!Sync /\ ok' = ~err
     ELSE UNCHANGED <<worker, ok>>
  /\ pc' = "exit"
  /\ UNCHANGED <<cfg, finPc, mbY, buffers, samples, mem, status, pending, hooks,
                 verdict>>

ExitCritical ==
  /\ pc = "exit" /\ pending["main"] = "none"
  /\ IF cfg.mt = 2 THEN Wk!Sync /\ ok' = (ok /\ ~err) ELSE UNCHANGED <<worker, ok>>
  /\ hooks' = "closed"
  /\ pc' = "end"
  /\ UNCHANGED <<cfg, finPc, mbY, buffers, samples, mem, status, pending, verdict>>

\* VP8Clear(): End() of the worker, then the memory is freed.
EndWorker ==
  /\ pc = "end" /\ pending["main"] = "none"
  /\ IF up THEN Wk!Stop ELSE UNCHANGED worker
  /\ pc' = "free"
  /\ UNCHANGED <<cfg, finPc, mbY, buffers, samples, mem, outcome>>

FreeMemory ==
  /\ pc = "free"
  /\ mem' = FALSE
  /\ Wk!Reclaim
  /\ verdict' = IF ok THEN "ok" ELSE "failed"
  /\ pc' = "done"
  /\ UNCHANGED <<cfg, finPc, mbY, buffers, samples, status, pending, ok, hooks>>

-----------------------------------------------------------------------------
(* FinishRow()                                                             *)

Base     == 16 * ctx.id                  \* the first line of the row's cache
FirstRow == ctx.mbY = 0
LastRow  == ctx.mbY >= BrMbY - 1

\* ReconstructRow(), from the parsed row and the bottom of the row above.
Reconstruct ==
  /\ finPc = "recon"
  /\ LET good == mbBuf[ctx.mb] = ctx.mbY /\ topRow = ctx.mbY - 1
     IN  /\ cache' = [r \in DOMAIN cache |->
                        IF r \in Base..(Base + 15)
                        THEN Line(16 * ctx.mbY + (r - Base),
                                  IF good THEN "raw" ELSE "bad")
                        ELSE cache[r]]
         /\ topRow' = IF ctx.mbY = cfg.mbH - 1 THEN topRow
                      ELSE IF good THEN ctx.mbY ELSE Garbage
  /\ finPc' = "filter"
  /\ UNCHANGED <<cfg, pc, mbY, buffers, alphaRow, out, stopped, mem, outcome,
                 worker>>

\* The lines above the row's top edge, which the filter reads, are those of
\* the row above, filtered but for that edge.
AboveFiltered ==
  \A k \in 1..ExtraRows : cache[Base - k] = Line(16 * ctx.mbY - k, "own")

\* DoFilter(): the edges inside the row (line: "own"), and its top edge
\* (lines above: "done").
Filtered(r) ==
  LET strengths == fiBuf[ctx.fi] = ctx.mbY
      edge      == FirstRow \/ AboveFiltered
      inside    == r - Base
      stage     ==
        IF inside \in 0..15
        THEN IF strengths /\ cache[r].stage = "raw" /\ (edge \/ inside >= ReachRows)
             THEN "own" ELSE "bad"
        ELSE IF inside \in (-EdgeRows)..(-1) /\ ~FirstRow
        THEN IF strengths /\ edge THEN "done" ELSE "bad"
        ELSE cache[r].stage
  IN  Line(cache[r].y, stage)

Filter ==
  /\ finPc = "filter"
  /\ cache' = IF ctx.filterRow THEN [r \in DOMAIN cache |-> Filtered(r)] ELSE cache
  /\ finPc' = "put"
  /\ UNCHANGED <<cfg, pc, mbY, buffers, topRow, alphaRow, out, stopped, mem,
                 outcome, worker>>

\* The lines of the picture that are final now (y_start, y_end).
YStart == 16 * ctx.mbY - (IF FirstRow THEN 0 ELSE ExtraRows)
YEnd   == Least(16 * (ctx.mbY + 1) - (IF LastRow THEN 0 ELSE ExtraRows),
                cfg.cropBottom)

\* VP8DecompressAlphaRows(): what is still to be decoded, either up to y_end
\* or, if the plane is to be dithered, in one pass the first time.
NeedAlpha == cfg.alpha /\ YStart < YEnd
AlphaDecoded == alphaRow = cfg.cropBottom
AlphaTargets == {YEnd} \cup (IF alphaRow = 0 THEN {cfg.cropBottom} ELSE {})

AlphaFails ==
  /\ finPc = "put" /\ NeedAlpha /\ ~AlphaDecoded
  /\ \E e \in {"OUT_OF_MEMORY", "BITSTREAM_ERROR"} : SetError("finish", e)
  /\ finPc' = "failed"
  /\ UNCHANGED <<cfg, pc, mbY, buffers, samples, mem, status, ok, hooks, verdict,
                 worker>>

FailureNotReported ==                                         \* (faulty)
  /\ finPc = "failed" /\ pending["finish"] = "none"
  /\ finPc' = "idle"
  /\ UNCHANGED <<cfg, pc, mbY, buffers, samples, mem, outcome, worker>>

FinishFailed ==
  /\ finPc = "failed" /\ pending["finish"] = "none"
  /\ FinishReturns(FALSE)
  /\ UNCHANGED <<cfg, samples, mem, status, hooks, verdict>>

\* The bottom lines, not delivered yet, go above the first cache.
Rotated ==
  IF ctx.id + 1 = NumCaches /\ ~LastRow
  THEN [r \in DOMAIN cache |-> IF r < 0 THEN cache[Base + 16 + r] ELSE cache[r]]
  ELSE cache

\* put(), clipped to the cropping area, may refuse to go on; it is not called
\* when no line is left.
PutRows ==
  /\ finPc = "put"
  /\ IF NeedAlpha /\ ~AlphaDecoded THEN alphaRow' \in AlphaTargets
                                   ELSE UNCHANGED alphaRow
  /\ LET from == Most(YStart, cfg.cropTop)
         rows == [i \in 1..(YEnd - from) |->
                    cache[Base + (from + i - 1) - 16 * ctx.mbY]]
     IN  \/ /\ from < YEnd
            /\ out' = Append(out, [at |-> from - cfg.cropTop, rows |-> rows])
            /\ \E r \in BOOLEAN : stopped' = (stopped \/ ~r) /\ FinishReturns(r)
         \/ /\ from >= YEnd
            /\ UNCHANGED <<out, stopped>>
            /\ FinishReturns(TRUE)
  /\ cache' = Rotated
  /\ UNCHANGED <<cfg, topRow, mem, status, hooks, verdict>>

-----------------------------------------------------------------------------
MainStep ==
  \/ EnterCritical \/ InitThreadContext \/ AllocateMemory
  \/ RowParsed \/ RowCorrupted \/ Suspend
  \/ SyncRow \/ LaunchRow
  \/ FrameSync \/ ExitCritical \/ EndWorker \/ FreeMemory
  \/ WriteError("main")

FinishStep ==
  \/ Reconstruct \/ Filter \/ AlphaFails \/ PutRows \/ FinishFailed
  \/ WriteError("finish")

ClientStep == Resume \/ Delete

Done == pc = "done" /\ UNCHANGED vars

Next == MainStep \/ FinishStep \/ ClientStep \/ Done

Spec == Init /\ [][Next]_vars

\* Both threads run when they can; nothing forces the caller to resume.
FairSpec == Spec /\ WF_vars(MainStep) /\ WF_vars(FinishStep)

-----------------------------------------------------------------------------
(* Properties                                                              *)

Errors == {"none", "USER_ABORT", "OUT_OF_MEMORY", "NOT_ENOUGH_DATA",
           "BITSTREAM_ERROR"}

TypeOK ==
  /\ cfg \in Configs
  /\ pc \in {"enter", "thread", "alloc", "parse", "process", "launch", "finish",
             "suspended", "frameSync", "exit", "end", "free", "done"}
  /\ finPc \in {"idle", "recon", "filter", "put", "failed"}
  /\ mbY \in 0..cfg.mbH
  /\ cacheId \in 0..(NumCaches - 1)
  /\ decMb \in {1, 2} /\ decFi \in {1, 2}
  /\ ctx \in [id : 0..(NumCaches - 1), mbY : 0..cfg.mbH, filterRow : BOOLEAN,
              mb : {1, 2}, fi : {1, 2}]
  /\ mem \in BOOLEAN
  /\ status \in (Errors \ {"none"}) \cup {"OK"}
  /\ pending \in [{"main", "finish"} -> Errors]
  /\ ok \in BOOLEAN
  /\ alphaRow \in 0..cfg.cropBottom

\* Line y of the picture, as a decoder without cropping and threads has it:
\* the filter went over its row, and over the edge below if that reaches it.
Final(y) ==
  Line(y, IF cfg.filter = 0 THEN "raw"
          ELSE IF y % 16 >= 16 - EdgeRows /\ y \div 16 < cfg.mbH - 1 THEN "done"
          ELSE "own")

Delivered == IF out = <<>> THEN 0 ELSE out[Len(out)].at + Len(out[Len(out)].rows)

\* The alpha rows are requested in order, each of them once: the decoders of
\* the alpha plane start from the row where they stopped.
AlphaInOrder == finPc = "put" /\ NeedAlpha /\ ~AlphaDecoded => YStart = alphaRow

\* Each line put() receives is the final line of the picture that io->mb_y
\* says, whatever the cropping, the rotation of the caches and the swaps of
\* the buffers between the two threads; and its alpha is that of its row.
OutputCorrect ==
  /\ \A k \in DOMAIN out : \A i \in DOMAIN out[k].rows :
       out[k].rows[i] = Final(cfg.cropTop + out[k].at + i - 1)
  /\ AlphaInOrder

\* What the main thread writes while a row is being finished by the worker is
\* nothing FinishRow() reads: neither the parsed data, nor the filter
\* strengths, nor the context; and the memory is still there.
NoDataRace ==
  finPc # "idle" =>
    /\ pc = "parse" => decMb # ctx.mb
    /\ pc = "parse" /\ ctx.filterRow => decFi # ctx.fi
    /\ pc # "launch"
    /\ mem

\* The worker is idle whenever the caller of the decoder has the control: it
\* may then move the compressed data, read the output or delete the decoder.
\* And teardown() never runs under a put().
IdleOutsideDecoding ==
  pc = "suspended" \/ hooks = "closed" => finPc = "idle" /\ job = {}

FrameContract ==
  INSTANCE FrameOutput WITH
    total <- cfg.cropBottom - cfg.cropTop,
    lines <- Delivered

\* setup(), put() and teardown() are called as vp8_dec.h says, and a frame
\* decodes successfully only if all its lines were delivered.
RefinesFrameOutput == FrameContract!Spec

\* A call of the decoder ends: no thread waits for the other for ever.
DecodingReturns ==
  (pc \notin {"suspended", "done"}) ~> (pc \in {"suspended", "done"})
=============================================================================
