--------------------------- MODULE EncoderThreads ---------------------------
(***************************************************************************)
(* WebPEncode() (src/enc/webp_enc.c) and its second thread, which is a     *)
(* WebPWorker as WorkerContract describes it:                              *)
(*   - lossy: half of the analysis (analysis_enc.c), then the alpha plane  *)
(*     (alpha_enc.c) during the coding loop, waited for before the file is *)
(*     written or, after an error, before the encoder is freed;            *)
(*   - lossless: half of the configurations to try (vp8l_enc.c), with a    *)
(*     picture, an encoder and a bit writer of its own.                    *)
(* The inputs are the shape of the picture and of the config; each         *)
(* allocation, stream and call of the progress hook or of the writer may   *)
(* turn out any way.  What is coded is abstracted to what it was made of.  *)
(***************************************************************************)
EXTENDS Naturals, FiniteSets

CONSTANTS
  Rows,       \* enc->mb_h_
  Configs,    \* number of crunch configurations
  MaxSize     \* bound on the sizes of coded streams

ASSUME EncoderAssumption == Rows \in Nat /\ Configs \in Nat \ {0} /\ MaxSize \in Nat

VARIABLES
  picture,    \* lossless?, thread_level > 0?, transparent?
  pc,         \* where WebPEncode() is
  ok,         \* its local
  errorCode,  \* pic->error_code
  file,       \* what pic->writer() received
  allocated,  \* the data of the encoder is there
  up, job, owned, err, synced,   \* the worker of the phase (WorkerContract)
  analyzed,   \* thread -> rows in its SegmentJob
  sideRead,   \* VP8_ENC_OK as the alpha job read it before it sets the code
  alphaData,  \* enc->alpha_data_
  todo,       \* thread -> configurations EncodeStreamHook() has to try
  best,       \* thread -> the streams in its bw_best: none or one
  bw,         \* thread -> the stream in its bit writer: none or one
  stats,      \* thread -> the configuration its WebPAuxStats describe
  sideCode,   \* picture_side.error_code
  made        \* history: the streams made

worker   == <<up, job, owned, err, synced>>
lossy    == <<analyzed, sideRead, alphaData>>
lossless == <<todo, best, bw, stats, sideCode, made>>
call     == <<pc, ok, errorCode, file, allocated>>
vars == <<picture, call, worker, lossy, lossless>>

Threads == {"main", "side"}
W == INSTANCE WorkerContract WITH Job <- {"analyze", "alpha", "stream"}, result <- synced

Init ==
  /\ picture \in [lossless : BOOLEAN, threads : BOOLEAN, alpha : BOOLEAN]
  /\ pc = "start" /\ ok = TRUE /\ errorCode = "OK"
  /\ file = {} /\ allocated = FALSE
  /\ W!Init
  /\ analyzed = [t \in Threads |-> {}] /\ sideRead = FALSE /\ alphaData = {}
  /\ todo = [t \in Threads |-> {}] /\ best = [t \in Threads |-> {}]
  /\ bw = [t \in Threads |-> {}] /\ stats = [t \in Threads |-> 0]
  /\ sideCode = "OK" /\ made = {}

------------------------------------------------------------------------------
(* Errors and progress.                                                    *)

\* WebPEncodingSetError(): the oldest error stays.
ErrorAfter(old, code) == IF old = "OK" THEN code ELSE old

SetError(code) == errorCode' = ErrorAfter(errorCode, code)

\* The main thread goes on at "next", or fails and goes to "end".
Goto(next) == pc' = next /\ UNCHANGED <<ok, errorCode, file, allocated>>

Fail(code, end) ==
  /\ pc' = end /\ ok' = FALSE /\ SetError(code)
  /\ UNCHANGED <<file, allocated>>

\* WebPReportProgress() when the hook refuses to go on ...
Abort(end) == Fail("USER_ABORT", end)

\* ... and where its result is not looked at.
AbortUnnoticed(next) ==
  /\ pc' = next /\ SetError("USER_ABORT")
  /\ UNCHANGED <<ok, file, allocated>>

------------------------------------------------------------------------------
(* Lossy: InitVP8Encoder() and VP8EncAnalyze().                            *)

SplitRow == (9 * Rows + 15) \div 16
MinSplitRow == 2
InParallel == picture.threads /\ SplitRow >= MinSplitRow

MainRows == IF InParallel THEN 0..(SplitRow - 1) ELSE 0..(Rows - 1)
SideRows == IF InParallel THEN SplitRow..(Rows - 1) ELSE {}

\* DoSegmentsJob(): the rows of a thread, in order.
NextRow(t, rows) ==
  \E r \in rows \ analyzed[t] :
    /\ \A q \in rows \ analyzed[t] : r <= q
    /\ analyzed' = [analyzed EXCEPT ![t] = @ \cup {r}]

NewEncoder ==
  /\ pc = "start" /\ ~picture.lossless
  /\ \/ pc' = "analysis" /\ allocated' = TRUE /\ UNCHANGED <<ok, errorCode>>
     \/ pc' = "done" /\ ok' = FALSE /\ SetError("OUT_OF_MEMORY") /\ UNCHANGED allocated
  /\ UNCHANGED <<picture, file, worker, lossy, lossless>>

\* One segment only, nothing to analyze: ResetAllMBInfo().
DefaultSegment ==
  /\ pc = "analysis"
  /\ Goto("startAlpha") \/ AbortUnnoticed("startAlpha")
  /\ analyzed' = [analyzed EXCEPT !["main"] = 0..(Rows - 1)]
  /\ UNCHANGED <<picture, worker, sideRead, alphaData, lossless>>

\* Reset() of the side worker comes first and must succeed.
StartAnalysis ==
  /\ pc = "analysis"
  /\ IF InParallel
     THEN \/ W!Start /\ Goto("launchAnalysis")
          \/ Fail("OUT_OF_MEMORY", "delete") /\ UNCHANGED worker
     ELSE Goto("rows") /\ UNCHANGED worker
  /\ UNCHANGED <<picture, lossy, lossless>>

LaunchAnalysis ==
  /\ pc = "launchAnalysis"
  /\ W!Accept("analyze")
  /\ Goto("rows")
  /\ UNCHANGED <<picture, lossy, lossless>>

\* The hook is called for the rows of the main job only.  Its refusal ends
\* this job; the code is set again once the other one is over.
AnalyzeRow ==
  /\ pc = "rows"
  /\ NextRow("main", MainRows)
  /\ Goto("rows") \/ Abort("syncAnalysis")
  /\ UNCHANGED <<picture, worker, sideRead, alphaData, lossless>>

RowsDone ==
  /\ pc = "rows" /\ MainRows \subseteq analyzed["main"]
  /\ Goto("syncAnalysis")
  /\ UNCHANGED <<picture, worker, lossy, lossless>>

SyncAnalysis ==
  /\ pc = "syncAnalysis"
  /\ W!Sync
  /\ pc' = "endAnalysis" /\ ok' = (ok /\ synced')
  /\ UNCHANGED <<picture, errorCode, file, allocated, lossy, lossless>>

\* MergeJobs()
Merged ==
  IF ok THEN [t \in Threads |-> IF t = "main" THEN analyzed["main"] \cup analyzed["side"]
                                ELSE {}]
  ELSE analyzed

EndAnalysis ==
  /\ pc = "endAnalysis"
  /\ IF up THEN W!Stop ELSE UNCHANGED worker
  /\ analyzed' = Merged
  /\ IF ok THEN Goto("startAlpha") ELSE Fail("OUT_OF_MEMORY", "delete")
  /\ UNCHANGED <<picture, sideRead, alphaData, lossless>>

------------------------------------------------------------------------------
(* Lossy: the alpha plane, the coding loop and the end of WebPEncode().    *)

CompressedAlpha == {"plane"}

\* CompressAlphaJob() in the thread of the caller.
AlphaInline ==
  \/ alphaData' = CompressedAlpha /\ Goto("loop")
  \/ Fail("OUT_OF_MEMORY", "delete") /\ UNCHANGED alphaData

StartAlpha ==
  /\ pc = "startAlpha"
  /\ IF picture.alpha
     THEN IF picture.threads
          THEN /\ UNCHANGED alphaData
               /\ \/ W!Start /\ Goto("launchAlpha")
                  \/ Fail("OUT_OF_MEMORY", "delete") /\ UNCHANGED worker
          ELSE AlphaInline /\ UNCHANGED worker
     ELSE Goto("loop") /\ UNCHANGED <<alphaData, worker>>
  /\ UNCHANGED <<picture, analyzed, sideRead, lossless>>

LaunchAlpha ==
  /\ pc = "launchAlpha"
  /\ W!Accept("alpha")
  /\ Goto("loop")
  /\ UNCHANGED <<picture, lossy, lossless>>

\* VP8EncLoop() or VP8EncTokenLoop(): VP8EncLoop() does not look at what
\* StatLoop() returns.
EncLoop ==
  /\ pc = "loop"
  /\ Goto("loopEnd") \/ AbortUnnoticed("loopEnd")
  /\ UNCHANGED <<picture, worker, lossy, lossless>>

EncLoopEnd ==
  /\ pc = "loopEnd"
  /\ Goto("finishAlpha") \/ Fail("OUT_OF_MEMORY", "delete") \/ Abort("delete")
  /\ UNCHANGED <<picture, worker, lossy, lossless>>

FinishAlpha ==
  /\ pc = "finishAlpha"
  /\ IF picture.alpha /\ picture.threads THEN W!Sync ELSE UNCHANGED worker
  /\ \/ /\ picture.alpha /\ picture.threads /\ ~synced'
        /\ pc' = "delete" /\ ok' = FALSE /\ UNCHANGED <<errorCode, file, allocated>>
     \/ /\ picture.alpha /\ picture.threads => synced'
        /\ Goto("write") \/ Abort("delete")
  /\ UNCHANGED <<picture, lossy, lossless>>

\* VP8EncWrite(): the file is as good as what it is made of.
EncWrite ==
  /\ pc = "write"
  /\ \/ /\ file' = {[rows |-> analyzed["main"], alpha |-> alphaData]}
        /\ pc' = "delete" /\ UNCHANGED <<ok, errorCode, allocated>>
     \/ Fail("BAD_WRITE", "delete") \/ Abort("delete")
  /\ UNCHANGED <<picture, worker, lossy, lossless>>

\* VP8EncDeleteAlpha() finishes what was left in flight ...
DeleteAlpha ==
  /\ pc = "delete"
  /\ IF picture.threads THEN W!Sync /\ ok' = (ok /\ synced')
     ELSE UNCHANGED <<worker, ok>>
  /\ pc' = "free"
  /\ UNCHANGED <<picture, errorCode, file, allocated, lossy, lossless>>

\* ... and ends the worker, even after an error; the encoder is freed.
EndIfOk ==                                                          \* (faulty)
  IF up /\ ok THEN W!Stop ELSE UNCHANGED worker

EndWorker == IF up THEN W!Stop ELSE UNCHANGED worker

Delete ==
  /\ pc = "free"
  /\ EndWorker
  /\ alphaData' = {}
  /\ pc' = "done" /\ allocated' = FALSE
  /\ UNCHANGED <<picture, ok, errorCode, file, analyzed, sideRead, lossless>>

\* DoSegmentsJob() and CompressAlphaJob() in the other thread.
SideAnalyzesRow ==
  /\ job = {"analyze"}
  /\ IF SideRows \subseteq analyzed["side"]
     THEN W!Complete(TRUE) /\ UNCHANGED analyzed
     ELSE NextRow("side", SideRows) /\ UNCHANGED worker
  /\ UNCHANGED <<picture, call, sideRead, alphaData, lossless>>

SideCompressesAlpha ==
  /\ job = {"alpha"} /\ ~sideRead
  /\ alphaData' = CompressedAlpha
  /\ W!Complete(TRUE)
  /\ UNCHANGED <<picture, call, analyzed, sideRead, lossless>>

\* WebPEncodingSetError() on the shared picture reads the code, then writes.
SideAlphaFails ==
  /\ job = {"alpha"} /\ ~sideRead
  /\ IF errorCode = "OK" THEN sideRead' = TRUE /\ UNCHANGED worker
     ELSE W!Complete(FALSE) /\ UNCHANGED sideRead
  /\ UNCHANGED <<picture, call, analyzed, alphaData, lossless>>

SideSetsError ==
  /\ job = {"alpha"} /\ sideRead
  /\ sideRead' = FALSE /\ errorCode' = "OUT_OF_MEMORY"
  /\ W!Complete(FALSE)
  /\ UNCHANGED <<picture, pc, ok, file, allocated, analyzed, alphaData, lossless>>

------------------------------------------------------------------------------
(* Lossless: VP8LEncodeImage() and VP8LEncodeStream().                     *)

NumSide == IF picture.threads THEN Configs \div 2 ELSE 0
MainConfigs == 1..(Configs - NumSide)
SideConfigs == (Configs - NumSide + 1)..Configs

\* What can be stored for configuration c: a stream of some size.  A bit
\* writer that could not grow starts over and has error_ set.
Streams(c) == [config : {c}, size : 1..MaxSize, error : BOOLEAN]

\* Up to the contexts of the two hooks.
BeginStream ==
  /\ pc = "start" /\ picture.lossless
  /\ \/ /\ pc' = IF NumSide > 0 THEN "resetStream" ELSE "stream"
        /\ allocated' = TRUE
        /\ todo' = [t \in Threads |-> IF t = "main" THEN MainConfigs ELSE SideConfigs]
        /\ UNCHANGED <<ok, errorCode, file>>
     \/ (Fail("OUT_OF_MEMORY", "done") \/ Abort("done")) /\ UNCHANGED todo
  /\ UNCHANGED <<picture, worker, lossy, best, bw, stats, sideCode, made>>

ResetStream ==
  /\ pc = "resetStream"
  /\ \/ W!Start /\ Goto("launchStream")
     \/ Fail("OUT_OF_MEMORY", "freeStream") /\ UNCHANGED worker
  /\ UNCHANGED <<picture, lossy, lossless>>

LaunchStream ==
  /\ pc = "launchStream"
  /\ W!Accept("stream")
  /\ stats' = [stats EXCEPT !["side"] = stats["main"]]
  /\ Goto("stream")
  /\ UNCHANGED <<picture, lossy, todo, best, bw, sideCode, made>>

\* EncodeStreamHook(): the configurations in turn, the best stream is kept.
Better(r, kept) == \A k \in kept : r.size < k.size

EncodeConfig(t) ==
  /\ \E c \in todo[t] :
       /\ \A d \in todo[t] : c <= d
       /\ todo' = [todo EXCEPT ![t] = @ \ {c}]
       /\ \E r \in Streams(c) :
            /\ made' = made \cup {r}
            /\ IF Better(r, best[t])
               THEN /\ best' = [best EXCEPT ![t] = {r}]
                    /\ stats' = [stats EXCEPT ![t] = r.config]
               ELSE UNCHANGED <<best, stats>>
  /\ UNCHANGED <<bw, sideCode>>

\* The last swap gives the best stream to the caller of the hook.
KeepBest(t) ==
  /\ todo[t] = {}
  /\ bw' = [bw EXCEPT ![t] = best[t]]
  /\ UNCHANGED <<todo, best, stats, sideCode, made>>

MainEncodes ==
  /\ pc = "stream"
  /\ \/ EncodeConfig("main") /\ Goto("stream")
     \/ KeepBest("main") /\ Goto("syncStream")
     \/ /\ Fail("OUT_OF_MEMORY", "syncStream") \/ Abort("syncStream")
        /\ UNCHANGED lossless
  /\ UNCHANGED <<picture, worker, lossy>>

\* picture_side has its own error_code and no progress hook.
SideEncodes ==
  /\ job = {"stream"}
  /\ \/ EncodeConfig("side") /\ UNCHANGED worker
     \/ KeepBest("side") /\ W!Complete(TRUE)
     \/ sideCode' = "OUT_OF_MEMORY" /\ W!Complete(FALSE)
        /\ UNCHANGED <<todo, best, bw, stats, made>>
  /\ UNCHANGED <<picture, call, lossy>>

\* (faulty) an error of the other thread stays in its picture
SyncStreamQuietly ==
  /\ pc = "syncStream"
  /\ IF NumSide > 0 THEN W!Sync ELSE UNCHANGED worker
  /\ pc' = "endStream" /\ ok' = (ok /\ (NumSide > 0 => synced'))
  /\ UNCHANGED <<picture, errorCode, file, allocated, lossy, lossless>>

SyncStream ==
  /\ pc = "syncStream"
  /\ IF NumSide > 0 THEN W!Sync ELSE UNCHANGED worker
  /\ pc' = "endStream"
  /\ IF NumSide > 0 /\ ~(ok /\ synced')
     THEN ok' = FALSE /\ SetError(sideCode) ELSE UNCHANGED <<ok, errorCode>>
  /\ UNCHANGED <<picture, file, allocated, lossy, lossless>>

\* The bit writers are swapped if the other one is shorter.
TakeSide == NumSide > 0 /\ \E s \in bw["side"] : Better(s, bw["main"])

SwapWriterOnly ==                                                   \* (faulty)
  IF ok /\ TakeSide
  THEN /\ bw' = [t \in Threads |-> IF t = "main" THEN bw["side"] ELSE bw["main"]]
       /\ UNCHANGED stats
  ELSE UNCHANGED <<bw, stats>>

SwapWriters ==
  IF ok /\ TakeSide
  THEN /\ bw' = [t \in Threads |-> IF t = "main" THEN bw["side"] ELSE bw["main"]]
       /\ stats' = [stats EXCEPT !["main"] = stats["side"]]
  ELSE UNCHANGED <<bw, stats>>

EndStream ==
  /\ pc = "endStream"
  /\ IF up THEN W!Stop ELSE UNCHANGED worker
  /\ SwapWriters
  /\ Goto("freeStream")
  /\ UNCHANGED <<picture, lossy, todo, best, sideCode, made>>

\* The side's data is freed, then the file is written from bw_main.
FreeStream ==
  /\ pc = "freeStream"
  /\ pc' = IF ok THEN "writeStream" ELSE "done"
  /\ allocated' = FALSE
  /\ UNCHANGED <<picture, ok, errorCode, file, worker, lossy, lossless>>

\* WriteImage(), and the reports of progress around it.
WriteStream ==
  /\ pc = "writeStream"
  /\ \/ Abort("done")
     \/ Fail("OUT_OF_MEMORY", "done") /\ \E r \in bw["main"] : r.error
     \/ /\ \A r \in bw["main"] : ~r.error
        /\ \/ Fail("BAD_WRITE", "done")
           \/ /\ file' = bw["main"] /\ pc' = "done"
              /\ UNCHANGED <<ok, errorCode, allocated>>
  /\ UNCHANGED <<picture, worker, lossy, lossless>>

------------------------------------------------------------------------------
Main ==
  \/ NewEncoder \/ DefaultSegment \/ StartAnalysis \/ LaunchAnalysis
  \/ AnalyzeRow \/ RowsDone \/ SyncAnalysis \/ EndAnalysis
  \/ StartAlpha \/ LaunchAlpha \/ EncLoop \/ EncLoopEnd \/ FinishAlpha
  \/ EncWrite \/ DeleteAlpha \/ Delete
  \/ BeginStream \/ ResetStream \/ LaunchStream \/ MainEncodes
  \/ SyncStream \/ EndStream \/ FreeStream \/ WriteStream

Side ==
  \/ SideAnalyzesRow \/ SideCompressesAlpha \/ SideAlphaFails \/ SideSetsError
  \/ SideEncodes

Finished == pc = "done" /\ UNCHANGED vars

Next == Main \/ Side \/ Finished

Spec == Init /\ [][Next]_vars

------------------------------------------------------------------------------
(* Properties                                                              *)

\* A file that WebPEncode() reports as written holds all of the analysis,
\* the whole alpha plane, and the shortest of the streams that were made,
\* which the statistics describe; none of them was cut by a failure.
SuccessIsComplete ==
  pc = "done" /\ ok =>
    \E f \in file :
      IF picture.lossless
      THEN /\ ~f.error /\ \A r \in made : f.size <= r.size
           /\ {r.config : r \in made} = 1..Configs
           /\ stats["main"] = f.config
      ELSE /\ f.rows = 0..(Rows - 1)
           /\ f.alpha = IF picture.alpha THEN CompressedAlpha ELSE {}

\* A failure is explained: "In case of error, picture->error_code is updated
\* accordingly" (encode.h), also when only the other thread failed.
FailureExplained == pc = "done" /\ ~ok => errorCode # "OK"

\* Nothing the other thread works on is freed, and no call returns, while it
\* still runs, however the main thread failed.
FreedWhenIdle == ~allocated => job = {} /\ ~up
=============================================================================
