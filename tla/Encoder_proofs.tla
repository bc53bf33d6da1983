---------------------------- MODULE Encoder_proofs ----------------------------
(***************************************************************************)
(* WebPEncode() and its second thread, for pictures of any height and any  *)
(* number of configurations: nothing is freed under the thread, a failure  *)
(* has an error code, and a success has the work of both threads.  The     *)
(* invariant says what is done at each point of the main thread, and what  *)
(* a job that is over, without error, has left.  Then the whole lossy      *)
(* encoder: it behaves as EncoderThreads says, so what is proved of that   *)
(* is true of it; and what its loops leave is of one pass.                 *)
(***************************************************************************)
EXTENDS Encoder, TLAPS

\* Where WebPEncode() is on either path, and while its worker is up.
LossyPc == {"analysis", "launchAnalysis", "rows", "syncAnalysis", "endAnalysis",
            "startAlpha", "launchAlpha", "loop", "loopEnd", "finishAlpha",
            "write", "delete", "free"}
LosslessPc == {"resetStream", "launchStream", "stream", "syncStream",
               "endStream", "freeStream", "writeStream"}
WhileUp == {"launchAnalysis", "rows", "syncAnalysis", "endAnalysis",
            "launchAlpha", "loop", "loopEnd", "finishAlpha", "write",
            "delete", "free", "launchStream", "stream", "syncStream", "endStream"}

Codes == {"OK", "USER_ABORT", "OUT_OF_MEMORY", "BAD_WRITE"}
Stream == [config : 1..Configs, size : 1..MaxSize, error : BOOLEAN]

PathType ==
  /\ picture \in [lossless : BOOLEAN, threads : BOOLEAN, alpha : BOOLEAN]
  /\ pc \in {"start", "done"} \cup LossyPc \cup LosslessPc
  /\ pc \in LossyPc => ~picture.lossless
  /\ pc \in LosslessPc => picture.lossless

CodeType ==
  /\ ok \in BOOLEAN /\ allocated \in BOOLEAN
  /\ errorCode \in Codes /\ sideCode \in Codes

WorkerType ==
  /\ up \in BOOLEAN /\ err \in BOOLEAN /\ synced \in BOOLEAN
  /\ job \in {{}, {"analyze"}, {"alpha"}, {"stream"}}

LossyType ==
  /\ analyzed \in [Threads -> SUBSET (0..(Rows - 1))]
  /\ sideRead \in BOOLEAN /\ alphaData \in {{}, CompressedAlpha}

LosslessType ==
  /\ todo \in [Threads -> SUBSET (1..Configs)]
  /\ best \in [Threads -> SUBSET Stream] /\ bw \in [Threads -> SUBSET Stream]
  /\ stats \in [Threads -> 0..Configs] /\ made \subseteq Stream

\* The worker is up, and has its job, only where the main thread waits for it
\* before it frees anything.
WorkerInv ==
  /\ up => pc \in WhileUp /\ picture.threads
  /\ job # {} => up
  /\ job = {"analyze"} => pc \in {"rows", "syncAnalysis"}
  /\ job = {"alpha"} =>
       pc \in {"loop", "loopEnd", "finishAlpha", "delete"} /\ picture.alpha
  /\ job = {"stream"} => pc \in {"stream", "syncStream"}
  /\ ~allocated => pc \in {"start", "done", "writeStream"}
  /\ pc = "launchAlpha" => picture.alpha
  /\ pc \in {"resetStream", "launchStream"} \/ job = {"stream"} => NumSide > 0

\* A failure of either thread is noted, at the latest when its result is.
ErrorInv ==
  /\ ~ok /\ pc # "endAnalysis" => errorCode # "OK"
  /\ err => (IF picture.lossless THEN sideCode ELSE errorCode) # "OK"

CtlInv == PathType /\ CodeType /\ WorkerType /\ WorkerInv /\ ErrorInv

\* The rows that are analyzed: each thread its own, then all of them.
RowsInv ==
  /\ pc \in {"start", "analysis", "launchAnalysis", "rows", "syncAnalysis", "endAnalysis"}
       => analyzed["main"] \subseteq MainRows /\ analyzed["side"] \subseteq SideRows
  /\ pc \in {"syncAnalysis", "endAnalysis"} /\ ok => MainRows \subseteq analyzed["main"]
  /\ pc \in {"rows", "syncAnalysis", "endAnalysis"} /\ job = {}
       => SideRows \subseteq analyzed["side"]
  /\ pc \in {"startAlpha", "launchAlpha", "loop", "loopEnd", "finishAlpha", "write"}
       => analyzed["main"] = 0..(Rows - 1)

\* The alpha plane is there once its job is over without error.
AlphaInv ==
  /\ ~picture.alpha => alphaData = {}
  /\ pc \in {"loop", "loopEnd", "finishAlpha"} /\ picture.alpha =>
       alphaData = CompressedAlpha \/ (picture.threads /\ (job # {} \/ err))
  /\ pc = "write" /\ picture.alpha => alphaData = CompressedAlpha

WholeFile ==
  \E f \in file : /\ f.rows = 0..(Rows - 1)
                  /\ f.alpha = IF picture.alpha THEN CompressedAlpha ELSE {}

LossyFileInv == pc \in {"delete", "free", "done"} /\ ok /\ ~picture.lossless => WholeFile

LossyInv == LossyType /\ RowsInv /\ AlphaInv /\ LossyFileInv

\* The configurations of a thread.
Own(t) == IF t = "main" THEN MainConfigs ELSE SideConfigs

\* Each configuration of the thread was tried or is still to be.
Tried(t) ==
  /\ todo[t] \subseteq Own(t)
  /\ \A c \in Own(t) \ todo[t] : \E r \in made : r.config = c

\* The thread keeps the shortest stream it made, described by its statistics.
Kept(t) ==
  /\ \A r \in made : r.config \in Own(t) => \E k \in best[t] : k.size <= r.size
  /\ \A k \in best[t] : k \in made /\ stats[t] = k.config
  /\ \A j, k \in best[t] : j = k

EachInv ==
  /\ pc \in {"start", "resetStream", "launchStream"} =>
       made = {} /\ \A t \in Threads : best[t] = {}
  /\ pc \in LosslessPc \ {"freeStream", "writeStream"} =>
       \A t \in Threads : Tried(t) /\ Kept(t)

\* A thread that is through without error hands over its best.
HandOver(t) == todo[t] = {} /\ bw[t] = best[t]

HandOverInv ==
  /\ pc \in {"syncStream", "endStream"} /\ ok => HandOver("main")
  /\ pc \in {"stream", "syncStream", "endStream"} /\ NumSide > 0 /\ job = {} /\ ~err
       => HandOver("side")
  /\ pc = "endStream" /\ ok /\ NumSide > 0 => ~err

\* What the main thread writes is the shortest of all.
Shortest(f) ==
  /\ \A r \in made : f.size <= r.size
  /\ {r.config : r \in made} = 1..Configs
  /\ stats["main"] = f.config

ChosenInv ==
  pc \in {"freeStream", "writeStream"} /\ ok => \E f \in Stream : bw["main"] = {f} /\ Shortest(f)

LosslessFileInv ==
  pc = "done" /\ ok /\ picture.lossless => \E f \in file : ~f.error /\ Shortest(f)

LosslessInv == LosslessType /\ EachInv /\ HandOverInv /\ ChosenInv /\ LosslessFileInv

-----------------------------------------------------------------------------
USE DEF LossyPc, LosslessPc, WhileUp, Codes

LEMMA NumSideType == ASSUME PathType PROVE NumSide \in 0..(Configs - 1)
  BY EncoderAssumption DEF PathType, NumSide

\* The lossy path of the main thread.
LEMMA LossyControl ==
  ASSUME CtlInv,
         \/ NewEncoder \/ DefaultSegment \/ StartAnalysis \/ LaunchAnalysis
         \/ AnalyzeRow \/ RowsDone \/ SyncAnalysis \/ EndAnalysis
         \/ StartAlpha \/ LaunchAlpha \/ EncLoop \/ EncLoopEnd \/ FinishAlpha
         \/ EncWrite \/ DeleteAlpha \/ Delete
  PROVE  CtlInv'
<1> USE DEF CtlInv, worker, lossless, Goto, Fail, Abort, AbortUnnoticed, SetError,
            ErrorAfter, NumSide
<1>1. CASE NewEncoder
  <2>1. PathType'
    BY <1>1 DEF NewEncoder, PathType
  <2>2. CodeType' /\ WorkerType'
    BY <1>1 DEF NewEncoder, CodeType, WorkerType
  <2>3. WorkerInv' /\ ErrorInv'
    BY <1>1 DEF NewEncoder, PathType, CodeType, WorkerType, WorkerInv, ErrorInv
  <2> QED
    BY <2>1, <2>2, <2>3
<1>2. CASE DefaultSegment
  <2>1. PathType'
    BY <1>2 DEF DefaultSegment, PathType
  <2>2. CodeType' /\ WorkerType'
    BY <1>2 DEF DefaultSegment, CodeType, WorkerType
  <2>3. WorkerInv' /\ ErrorInv'
    BY <1>2 DEF DefaultSegment, PathType, CodeType, WorkerType, WorkerInv, ErrorInv
  <2> QED
    BY <2>1, <2>2, <2>3
<1>3. CASE StartAnalysis
  <2>1. PathType'
    BY <1>3 DEF StartAnalysis, W!Start, InParallel, PathType
  <2>2. CodeType' /\ WorkerType'
    BY <1>3 DEF StartAnalysis, W!Start, InParallel, CodeType, WorkerType
  <2>3. WorkerInv' /\ ErrorInv'
    BY <1>3 DEF StartAnalysis, W!Start, InParallel, PathType, CodeType, WorkerType,
       WorkerInv, ErrorInv
  <2> QED
    BY <2>1, <2>2, <2>3
<1>4. CASE LaunchAnalysis
  <2>1. PathType'
    BY <1>4 DEF LaunchAnalysis, W!Accept, PathType
  <2>2. CodeType' /\ WorkerType'
    BY <1>4 DEF LaunchAnalysis, W!Accept, CodeType, WorkerType
  <2>3. WorkerInv' /\ ErrorInv'
    BY <1>4 DEF LaunchAnalysis, W!Accept, PathType, CodeType, WorkerType, WorkerInv,
       ErrorInv
  <2> QED
    BY <2>1, <2>2, <2>3
<1>5. CASE AnalyzeRow
  <2>1. PathType'
    BY <1>5 DEF AnalyzeRow, PathType
  <2>2. CodeType' /\ WorkerType'
    BY <1>5 DEF AnalyzeRow, CodeType, WorkerType
  <2>3. WorkerInv' /\ ErrorInv'
    BY <1>5 DEF AnalyzeRow, PathType, CodeType, WorkerType, WorkerInv, ErrorInv
  <2> QED
    BY <2>1, <2>2, <2>3
<1>6. CASE RowsDone
  <2>1. PathType'
    BY <1>6 DEF RowsDone, PathType
  <2>2. CodeType' /\ WorkerType'
    BY <1>6 DEF RowsDone, CodeType, WorkerType
  <2>3. WorkerInv' /\ ErrorInv'
    BY <1>6 DEF RowsDone, PathType, CodeType, WorkerType, WorkerInv, ErrorInv
  <2> QED
    BY <2>1, <2>2, <2>3
<1>7. CASE SyncAnalysis
  <2>1. PathType'
    BY <1>7 DEF SyncAnalysis, W!Sync, PathType
  <2>2. CodeType' /\ WorkerType'
    BY <1>7 DEF SyncAnalysis, W!Sync, CodeType, WorkerType
  <2>3. WorkerInv' /\ ErrorInv'
    BY <1>7 DEF SyncAnalysis, W!Sync, PathType, CodeType, WorkerType, WorkerInv, ErrorInv
  <2> QED
    BY <2>1, <2>2, <2>3
<1>8. CASE EndAnalysis
  <2>1. PathType'
    BY <1>8 DEF EndAnalysis, W!Stop, PathType
  <2>2. CodeType' /\ WorkerType'
    BY <1>8 DEF EndAnalysis, W!Stop, CodeType, WorkerType
  <2>3. WorkerInv' /\ ErrorInv'
    BY <1>8 DEF EndAnalysis, W!Stop, PathType, CodeType, WorkerType, WorkerInv, ErrorInv
  <2> QED
    BY <2>1, <2>2, <2>3
<1>9. CASE StartAlpha
  <2>1. PathType'
    BY <1>9 DEF StartAlpha, AlphaInline, W!Start, PathType
  <2>2. CodeType' /\ WorkerType'
    BY <1>9 DEF StartAlpha, AlphaInline, W!Start, CodeType, WorkerType
  <2>3. WorkerInv' /\ ErrorInv'
    BY <1>9 DEF StartAlpha, AlphaInline, W!Start, PathType, CodeType, WorkerType,
       WorkerInv, ErrorInv
  <2> QED
    BY <2>1, <2>2, <2>3
<1>10. CASE LaunchAlpha
  <2>1. PathType'
    BY <1>10 DEF LaunchAlpha, W!Accept, PathType
  <2>2. CodeType' /\ WorkerType'
    BY <1>10 DEF LaunchAlpha, W!Accept, CodeType, WorkerType
  <2>3. WorkerInv' /\ ErrorInv'
    BY <1>10 DEF LaunchAlpha, W!Accept, PathType, CodeType, WorkerType, WorkerInv,
       ErrorInv
  <2> QED
    BY <2>1, <2>2, <2>3
<1>11. CASE EncLoop
  <2>1. PathType'
    BY <1>11 DEF EncLoop, PathType
  <2>2. CodeType' /\ WorkerType'
    BY <1>11 DEF EncLoop, CodeType, WorkerType
  <2>3. WorkerInv' /\ ErrorInv'
    BY <1>11 DEF EncLoop, PathType, CodeType, WorkerType, WorkerInv, ErrorInv
  <2> QED
    BY <2>1, <2>2, <2>3
<1>12. CASE EncLoopEnd
  <2>1. PathType'
    BY <1>12 DEF EncLoopEnd, PathType
  <2>2. CodeType' /\ WorkerType'
    BY <1>12 DEF EncLoopEnd, CodeType, WorkerType
  <2>3. WorkerInv' /\ ErrorInv'
    BY <1>12 DEF EncLoopEnd, PathType, CodeType, WorkerType, WorkerInv, ErrorInv
  <2> QED
    BY <2>1, <2>2, <2>3
<1>13. CASE FinishAlpha
  <2>1. PathType'
    BY <1>13 DEF FinishAlpha, W!Sync, PathType
  <2>2. CodeType' /\ WorkerType'
    BY <1>13 DEF FinishAlpha, W!Sync, CodeType, WorkerType
  <2>3. WorkerInv' /\ ErrorInv'
    BY <1>13 DEF FinishAlpha, W!Sync, PathType, CodeType, WorkerType, WorkerInv, ErrorInv
  <2> QED
    BY <2>1, <2>2, <2>3
<1>14. CASE EncWrite
  <2>1. PathType'
    BY <1>14 DEF EncWrite, PathType
  <2>2. CodeType' /\ WorkerType'
    BY <1>14 DEF EncWrite, CodeType, WorkerType
  <2>3. WorkerInv' /\ ErrorInv'
    BY <1>14 DEF EncWrite, PathType, CodeType, WorkerType, WorkerInv, ErrorInv
  <2> QED
    BY <2>1, <2>2, <2>3
<1>15. CASE DeleteAlpha
  <2>1. PathType'
    BY <1>15 DEF DeleteAlpha, W!Sync, PathType
  <2>2. CodeType' /\ WorkerType'
    BY <1>15 DEF DeleteAlpha, W!Sync, CodeType, WorkerType
  <2>3. WorkerInv' /\ ErrorInv'
    BY <1>15 DEF DeleteAlpha, W!Sync, PathType, CodeType, WorkerType, WorkerInv, ErrorInv
  <2> QED
    BY <2>1, <2>2, <2>3
<1>16. CASE Delete
  <2>1. PathType'
    BY <1>16 DEF Delete, EndWorker, W!Stop, PathType
  <2>2. CodeType' /\ WorkerType'
    BY <1>16 DEF Delete, EndWorker, W!Stop, CodeType, WorkerType
  <2>3. WorkerInv' /\ ErrorInv'
    BY <1>16 DEF Delete, EndWorker, W!Stop, PathType, CodeType, WorkerType, WorkerInv,
       ErrorInv
  <2> QED
    BY <2>1, <2>2, <2>3
<1> QED
  BY <1>1, <1>2, <1>3, <1>4, <1>5, <1>6, <1>7, <1>8, <1>9, <1>10, <1>11, <1>12,
     <1>13, <1>14, <1>15, <1>16

\* The lossless path of the main thread.
LEMMA LosslessControl ==
  ASSUME CtlInv,
         \/ BeginStream \/ ResetStream \/ LaunchStream \/ MainEncodes
         \/ SyncStream \/ EndStream \/ FreeStream \/ WriteStream
  PROVE  CtlInv'
<1> USE DEF CtlInv, worker, lossless, Goto, Fail, Abort, SetError, ErrorAfter, NumSide
<1>1. CASE BeginStream
  <2>1. PathType'
    BY <1>1 DEF BeginStream, PathType
  <2>2. CodeType' /\ WorkerType'
    BY <1>1 DEF BeginStream, CodeType, WorkerType
  <2>3. WorkerInv' /\ ErrorInv'
    BY <1>1 DEF BeginStream, PathType, CodeType, WorkerType, WorkerInv, ErrorInv
  <2> QED
    BY <2>1, <2>2, <2>3
<1>2. CASE ResetStream
  <2>1. PathType'
    BY <1>2 DEF ResetStream, W!Start, PathType
  <2>2. CodeType' /\ WorkerType'
    BY <1>2 DEF ResetStream, W!Start, CodeType, WorkerType
  <2>3. WorkerInv' /\ ErrorInv'
    BY <1>2 DEF ResetStream, W!Start, PathType, CodeType, WorkerType, WorkerInv, ErrorInv
  <2> QED
    BY <2>1, <2>2, <2>3
<1>3. CASE LaunchStream
  <2>1. PathType'
    BY <1>3 DEF LaunchStream, W!Accept, PathType
  <2>2. CodeType' /\ WorkerType'
    BY <1>3 DEF LaunchStream, W!Accept, CodeType, WorkerType
  <2>3. WorkerInv' /\ ErrorInv'
    BY <1>3 DEF LaunchStream, W!Accept, PathType, CodeType, WorkerType, WorkerInv,
       ErrorInv
  <2> QED
    BY <2>1, <2>2, <2>3
<1>4. CASE MainEncodes
  <2>1. PathType'
    BY <1>4 DEF MainEncodes, EncodeConfig, KeepBest, PathType
  <2>2. CodeType' /\ WorkerType'
    <3>1. CodeType'
      BY <1>4 DEF MainEncodes, EncodeConfig, KeepBest, CodeType
    <3>2. WorkerType'
      BY <1>4 DEF MainEncodes, WorkerType
    <3> QED
      BY <3>1, <3>2
  <2>3. WorkerInv' /\ ErrorInv'
    BY <1>4 DEF MainEncodes, EncodeConfig, KeepBest, PathType, CodeType, WorkerType,
       WorkerInv, ErrorInv
  <2> QED
    BY <2>1, <2>2, <2>3
<1>5. CASE SyncStream
  <2>1. PathType'
    BY <1>5 DEF SyncStream, W!Sync, PathType
  <2>2. CodeType' /\ WorkerType'
    BY <1>5 DEF SyncStream, W!Sync, CodeType, WorkerType
  <2>3. WorkerInv' /\ ErrorInv'
    BY <1>5 DEF SyncStream, W!Sync, PathType, CodeType, WorkerType, WorkerInv, ErrorInv
  <2> QED
    BY <2>1, <2>2, <2>3
<1>6. CASE EndStream
  <2>1. PathType'
    BY <1>6 DEF EndStream, W!Stop, PathType
  <2>2. CodeType' /\ WorkerType'
    BY <1>6 DEF EndStream, W!Stop, CodeType, WorkerType
  <2>3. WorkerInv' /\ ErrorInv'
    BY <1>6 DEF EndStream, W!Stop, PathType, CodeType, WorkerType, WorkerInv, ErrorInv
  <2> QED
    BY <2>1, <2>2, <2>3
<1>7. CASE FreeStream
  <2>1. PathType'
    BY <1>7 DEF FreeStream, PathType
  <2>2. CodeType' /\ WorkerType'
    BY <1>7 DEF FreeStream, CodeType, WorkerType
  <2>3. WorkerInv' /\ ErrorInv'
    BY <1>7 DEF FreeStream, PathType, CodeType, WorkerType, WorkerInv, ErrorInv
  <2> QED
    BY <2>1, <2>2, <2>3
<1>8. CASE WriteStream
  <2>1. PathType'
    BY <1>8 DEF WriteStream, PathType
  <2>2. CodeType' /\ WorkerType'
    BY <1>8 DEF WriteStream, CodeType, WorkerType
  <2>3. WorkerInv' /\ ErrorInv'
    BY <1>8 DEF WriteStream, PathType, CodeType, WorkerType, WorkerInv, ErrorInv
  <2> QED
    BY <2>1, <2>2, <2>3
<1> QED
  BY <1>1, <1>2, <1>3, <1>4, <1>5, <1>6, <1>7, <1>8


\* The other thread.
LEMMA SideControl ==
  ASSUME CtlInv,
         \/ SideAnalyzesRow \/ SideCompressesAlpha \/ SideAlphaFails
         \/ SideSetsError \/ SideEncodes
  PROVE  CtlInv'
<1> USE DEF CtlInv, worker, lossless, call, NumSide
<1>1. CASE SideAnalyzesRow
  <2>1. PathType'
    BY <1>1 DEF SideAnalyzesRow, W!Complete, PathType
  <2>2. CodeType' /\ WorkerType'
    BY <1>1 DEF SideAnalyzesRow, W!Complete, CodeType, WorkerType
  <2>3. WorkerInv' /\ ErrorInv'
    BY <1>1 DEF SideAnalyzesRow, W!Complete, PathType, CodeType, WorkerType, WorkerInv,
       ErrorInv
  <2> QED
    BY <2>1, <2>2, <2>3
<1>2. CASE SideCompressesAlpha
  <2>1. PathType'
    BY <1>2 DEF SideCompressesAlpha, W!Complete, PathType
  <2>2. CodeType' /\ WorkerType'
    BY <1>2 DEF SideCompressesAlpha, W!Complete, CodeType, WorkerType
  <2>3. WorkerInv' /\ ErrorInv'
    BY <1>2 DEF SideCompressesAlpha, W!Complete, PathType, CodeType, WorkerType,
       WorkerInv, ErrorInv
  <2> QED
    BY <2>1, <2>2, <2>3
<1>3. CASE SideAlphaFails
  <2>1. PathType'
    BY <1>3 DEF SideAlphaFails, W!Complete, PathType
  <2>2. CodeType' /\ WorkerType'
    BY <1>3 DEF SideAlphaFails, W!Complete, CodeType, WorkerType
  <2>3. WorkerInv' /\ ErrorInv'
    BY <1>3 DEF SideAlphaFails, W!Complete, PathType, CodeType, WorkerType, WorkerInv,
       ErrorInv
  <2> QED
    BY <2>1, <2>2, <2>3
<1>4. CASE SideSetsError
  <2>1. PathType'
    BY <1>4 DEF SideSetsError, W!Complete, PathType
  <2>2. CodeType' /\ WorkerType'
    BY <1>4 DEF SideSetsError, W!Complete, CodeType, WorkerType
  <2>3. WorkerInv' /\ ErrorInv'
    BY <1>4 DEF SideSetsError, W!Complete, PathType, CodeType, WorkerType, WorkerInv,
       ErrorInv
  <2> QED
    BY <2>1, <2>2, <2>3
<1>5. CASE SideEncodes
  <2>1. PathType'
    BY <1>5 DEF SideEncodes, W!Complete, EncodeConfig, KeepBest, PathType
  <2>2. CodeType'
    BY <1>5 DEF SideEncodes, W!Complete, EncodeConfig, KeepBest, CodeType, WorkerType
  <2>3. WorkerType'
    BY <1>5 DEF SideEncodes, W!Complete, EncodeConfig, KeepBest, WorkerType
  <2>4. WorkerInv'
    BY <1>5 DEF SideEncodes, W!Complete, EncodeConfig, KeepBest, PathType, WorkerType,
       WorkerInv
  <2>5. \/ UNCHANGED sideCode /\ (UNCHANGED err \/ W!Complete(TRUE))
        \/ sideCode' = "OUT_OF_MEMORY"
    BY <1>5 DEF SideEncodes, EncodeConfig, KeepBest
  <2>6. picture.lossless /\ UNCHANGED <<picture, call>>
    BY <1>5 DEF SideEncodes, PathType, WorkerInv
  <2>7. ErrorInv'
    BY <2>5, <2>6 DEF W!Complete, PathType, WorkerType, ErrorInv
  <2> QED
    BY <2>1, <2>2, <2>3, <2>4, <2>7
<1> QED
  BY <1>1, <1>2, <1>3, <1>4, <1>5

LEMMA InitControl == Init => CtlInv
<1> SUFFICES ASSUME Init PROVE CtlInv
  OBVIOUS
<1>1. PathType /\ CodeType /\ WorkerType
  BY DEF Init, W!Init, PathType, CodeType, WorkerType
<1>2. WorkerInv /\ ErrorInv
  BY DEF Init, W!Init, WorkerInv, ErrorInv
<1> QED
  BY <1>1, <1>2 DEF CtlInv

LEMMA StutterControl == CtlInv /\ UNCHANGED vars => CtlInv'
<1> SUFFICES ASSUME CtlInv, UNCHANGED vars PROVE CtlInv'
  OBVIOUS
<1> USE DEF CtlInv, vars, call, worker, lossy, lossless
<1>1. PathType' /\ CodeType'
  BY DEF PathType, CodeType
<1>2. WorkerType'
  BY DEF WorkerType
<1>3. WorkerInv' /\ ErrorInv'
  BY DEF WorkerInv, ErrorInv, NumSide
<1> QED
  BY <1>1, <1>2, <1>3

LEMMA ControlStep == CtlInv /\ [Next]_vars => CtlInv'
<1> SUFFICES ASSUME CtlInv, [Next]_vars PROVE CtlInv'
  OBVIOUS
<1>1. CASE Main
  BY <1>1, LossyControl, LosslessControl DEF Main
<1>2. CASE Side
  BY <1>2, SideControl DEF Side
<1>3. CASE Finished
  BY <1>3, StutterControl DEF Finished
<1>4. CASE UNCHANGED vars
  BY <1>4, StutterControl
<1> QED
  BY <1>1, <1>2, <1>3, <1>4 DEF Next

LEMMA ControlInvariant == Spec => []CtlInv
<1>1. Init => CtlInv
  BY InitControl
<1>2. CtlInv /\ [Next]_vars => CtlInv'
  BY ControlStep
<1> QED
  BY <1>1, <1>2, PTL DEF Spec

\* The encoder, the pictures and the bit writers are freed, and WebPEncode()
\* returns, only after the other thread has been waited for and ended, on
\* every path of an error of either thread.
THEOREM FreedWhenIdleHolds == Spec => []FreedWhenIdle
<1>1. CtlInv => FreedWhenIdle
  BY DEF CtlInv, WorkerType, WorkerInv, FreedWhenIdle
<1> QED
  BY <1>1, ControlInvariant, PTL

\* When WebPEncode() returns 0, pic->error_code says why: the other thread
\* sets it, or has its code copied, before its result is looked at.
THEOREM FailureExplainedHolds == Spec => []FailureExplained
<1>1. CtlInv => FailureExplained
  BY DEF CtlInv, ErrorInv, FailureExplained
<1> QED
  BY <1>1, ControlInvariant, PTL

\* The lossy path, in both threads.
LEMMA SplitRowType == SplitRow \in 0..Rows
  BY EncoderAssumption DEF SplitRow

LEMMA LossyStep ==
  ASSUME CtlInv, LossyInv,
         \/ NewEncoder \/ DefaultSegment \/ StartAnalysis \/ LaunchAnalysis
         \/ AnalyzeRow \/ RowsDone \/ SyncAnalysis \/ EndAnalysis
         \/ StartAlpha \/ LaunchAlpha \/ EncLoop \/ EncLoopEnd
         \/ FinishAlpha \/ EncWrite \/ DeleteAlpha \/ Delete
         \/ SideAnalyzesRow \/ SideCompressesAlpha \/ SideAlphaFails \/ SideSetsError
  PROVE  LossyInv'
<1> USE DEF CtlInv, LossyInv, worker, lossy, lossless, call, Goto, Fail, Abort, AbortUnnoticed,
            Threads, CompressedAlpha
<1>0. MainRows \cup SideRows = 0..(Rows - 1)
  BY EncoderAssumption, SplitRowType DEF MainRows, SideRows
<1>1. CASE NewEncoder
  <2>1. LossyType'
    BY <1>1, <1>0 DEF NewEncoder, LossyType
  <2>2. RowsInv'
    BY <1>1, <1>0 DEF NewEncoder, PathType, WorkerType, WorkerInv, LossyType, RowsInv,
       MainRows, SideRows, InParallel
  <2>3. AlphaInv'
    BY <1>1 DEF NewEncoder, PathType, WorkerType, WorkerInv, LossyType, AlphaInv
  <2>4. LossyFileInv'
    BY <1>1 DEF NewEncoder, PathType, CodeType, LossyFileInv, WholeFile, RowsInv, AlphaInv
  <2> QED
    BY <2>1, <2>2, <2>3, <2>4
<1>2. CASE DefaultSegment
  <2>1. LossyType'
    BY <1>2, <1>0 DEF DefaultSegment, LossyType
  <2>2. RowsInv'
    BY <1>2, <1>0 DEF DefaultSegment, PathType, WorkerType, WorkerInv, LossyType, RowsInv,
       MainRows, SideRows, InParallel
  <2>3. AlphaInv'
    BY <1>2 DEF DefaultSegment, PathType, WorkerType, WorkerInv, LossyType, AlphaInv
  <2>4. LossyFileInv'
    BY <1>2 DEF DefaultSegment, PathType, CodeType, LossyFileInv, WholeFile, RowsInv,
       AlphaInv
  <2> QED
    BY <2>1, <2>2, <2>3, <2>4
<1>3. CASE StartAnalysis
  <2>1. LossyType'
    BY <1>3, <1>0 DEF StartAnalysis, W!Start, LossyType
  <2>2. RowsInv'
    BY <1>3, <1>0 DEF StartAnalysis, W!Start, PathType, WorkerType, WorkerInv,
       LossyType, RowsInv,
       MainRows, SideRows, InParallel
  <2>3. AlphaInv'
    BY <1>3 DEF StartAnalysis, W!Start, PathType, WorkerType, WorkerInv, LossyType,
       AlphaInv
  <2>4. LossyFileInv'
    BY <1>3 DEF StartAnalysis, W!Start, PathType, CodeType, LossyFileInv, WholeFile,
       RowsInv, AlphaInv
  <2> QED
    BY <2>1, <2>2, <2>3, <2>4
<1>4. CASE LaunchAnalysis
  <2>1. LossyType'
    BY <1>4, <1>0 DEF LaunchAnalysis, W!Accept, LossyType
  <2>2. RowsInv'
    BY <1>4, <1>0 DEF LaunchAnalysis, W!Accept, PathType, WorkerType, WorkerInv,
       LossyType, RowsInv,
       MainRows, SideRows, InParallel
  <2>3. AlphaInv'
    BY <1>4 DEF LaunchAnalysis, W!Accept, PathType, WorkerType, WorkerInv, LossyType,
       AlphaInv
  <2>4. LossyFileInv'
    BY <1>4 DEF LaunchAnalysis, W!Accept, PathType, CodeType, LossyFileInv, WholeFile,
       RowsInv, AlphaInv
  <2> QED
    BY <2>1, <2>2, <2>3, <2>4
<1>5. CASE AnalyzeRow
  <2>1. LossyType'
    BY <1>5, <1>0 DEF AnalyzeRow, NextRow, LossyType
  <2>2. RowsInv'
    BY <1>5, <1>0 DEF AnalyzeRow, NextRow, PathType, WorkerType, WorkerInv, LossyType,
       RowsInv,
       MainRows, SideRows, InParallel
  <2>3. AlphaInv'
    BY <1>5 DEF AnalyzeRow, NextRow, PathType, WorkerType, WorkerInv, LossyType, AlphaInv
  <2>4. LossyFileInv'
    BY <1>5 DEF AnalyzeRow, NextRow, PathType, CodeType, LossyFileInv, WholeFile,
       RowsInv, AlphaInv
  <2> QED
    BY <2>1, <2>2, <2>3, <2>4
<1>6. CASE RowsDone
  <2>1. LossyType'
    BY <1>6, <1>0 DEF RowsDone, LossyType
  <2>2. RowsInv'
    BY <1>6, <1>0 DEF RowsDone, PathType, WorkerType, WorkerInv, LossyType, RowsInv,
       MainRows, SideRows, InParallel
  <2>3. AlphaInv'
    BY <1>6 DEF RowsDone, PathType, WorkerType, WorkerInv, LossyType, AlphaInv
  <2>4. LossyFileInv'
    BY <1>6 DEF RowsDone, PathType, CodeType, LossyFileInv, WholeFile, RowsInv, AlphaInv
  <2> QED
    BY <2>1, <2>2, <2>3, <2>4
<1>7. CASE SyncAnalysis
  <2>1. LossyType'
    BY <1>7, <1>0 DEF SyncAnalysis, W!Sync, LossyType
  <2>2. RowsInv'
    BY <1>7, <1>0 DEF SyncAnalysis, W!Sync, PathType, WorkerType, WorkerInv, LossyType,
       RowsInv,
       MainRows, SideRows, InParallel
  <2>3. AlphaInv'
    BY <1>7 DEF SyncAnalysis, W!Sync, PathType, WorkerType, WorkerInv, LossyType, AlphaInv
  <2>4. LossyFileInv'
    BY <1>7 DEF SyncAnalysis, W!Sync, PathType, CodeType, LossyFileInv, WholeFile,
       RowsInv, AlphaInv
  <2> QED
    BY <2>1, <2>2, <2>3, <2>4
<1>8. CASE EndAnalysis
  <2>1. LossyType'
    BY <1>8, <1>0 DEF EndAnalysis, W!Stop, Merged, LossyType
  <2>2. RowsInv'
    BY <1>8, <1>0 DEF EndAnalysis, W!Stop, Merged, PathType, WorkerType, WorkerInv,
       LossyType, RowsInv,
       MainRows, SideRows, InParallel
  <2>3. AlphaInv'
    BY <1>8 DEF EndAnalysis, W!Stop, Merged, PathType, WorkerType, WorkerInv, LossyType,
       AlphaInv
  <2>4. LossyFileInv'
    BY <1>8 DEF EndAnalysis, W!Stop, Merged, PathType, CodeType, LossyFileInv,
       WholeFile, RowsInv, AlphaInv
  <2> QED
    BY <2>1, <2>2, <2>3, <2>4
<1>9. CASE StartAlpha
  <2>1. LossyType'
    BY <1>9, <1>0 DEF StartAlpha, AlphaInline, W!Start, LossyType
  <2>2. RowsInv'
    BY <1>9, <1>0 DEF StartAlpha, AlphaInline, W!Start, PathType, WorkerType, WorkerInv,
       LossyType, RowsInv,
       MainRows, SideRows, InParallel
  <2>3. AlphaInv'
    BY <1>9 DEF StartAlpha, AlphaInline, W!Start, PathType, WorkerType, WorkerInv,
       LossyType, AlphaInv
  <2>4. LossyFileInv'
    BY <1>9 DEF StartAlpha, AlphaInline, W!Start, PathType, CodeType, LossyFileInv,
       WholeFile, RowsInv, AlphaInv
  <2> QED
    BY <2>1, <2>2, <2>3, <2>4
<1>10. CASE LaunchAlpha
  <2>1. LossyType'
    BY <1>10, <1>0 DEF LaunchAlpha, W!Accept, LossyType
  <2>2. RowsInv'
    BY <1>10, <1>0 DEF LaunchAlpha, W!Accept, PathType, WorkerType, WorkerInv,
       LossyType, RowsInv,
       MainRows, SideRows, InParallel
  <2>3. AlphaInv'
    BY <1>10 DEF LaunchAlpha, W!Accept, PathType, WorkerType, WorkerInv, LossyType,
       AlphaInv
  <2>4. LossyFileInv'
    BY <1>10 DEF LaunchAlpha, W!Accept, PathType, CodeType, LossyFileInv, WholeFile,
       RowsInv, AlphaInv
  <2> QED
    BY <2>1, <2>2, <2>3, <2>4
<1>11. CASE EncLoop
  <2>1. LossyType'
    BY <1>11, <1>0 DEF EncLoop, LossyType
  <2>2. RowsInv'
    BY <1>11, <1>0 DEF EncLoop, PathType, WorkerType, WorkerInv, LossyType, RowsInv,
       MainRows, SideRows, InParallel
  <2>3. AlphaInv'
    BY <1>11 DEF EncLoop, PathType, WorkerType, WorkerInv, LossyType, AlphaInv
  <2>4. LossyFileInv'
    BY <1>11 DEF EncLoop, PathType, CodeType, LossyFileInv, WholeFile, RowsInv, AlphaInv
  <2> QED
    BY <2>1, <2>2, <2>3, <2>4
<1>12. CASE EncLoopEnd
  <2>1. LossyType'
    BY <1>12, <1>0 DEF EncLoopEnd, LossyType
  <2>2. RowsInv'
    BY <1>12, <1>0 DEF EncLoopEnd, PathType, WorkerType, WorkerInv, LossyType, RowsInv,
       MainRows, SideRows, InParallel
  <2>3. AlphaInv'
    BY <1>12 DEF EncLoopEnd, PathType, WorkerType, WorkerInv, LossyType, AlphaInv
  <2>4. LossyFileInv'
    BY <1>12 DEF EncLoopEnd, PathType, CodeType, LossyFileInv, WholeFile, RowsInv,
       AlphaInv
  <2> QED
    BY <2>1, <2>2, <2>3, <2>4
<1>13. CASE FinishAlpha
  <2>1. LossyType'
    BY <1>13, <1>0 DEF FinishAlpha, W!Sync, LossyType
  <2>2. RowsInv'
    BY <1>13, <1>0 DEF FinishAlpha, W!Sync, PathType, WorkerType, WorkerInv, LossyType,
       RowsInv,
       MainRows, SideRows, InParallel
  <2>3. AlphaInv'
    BY <1>13 DEF FinishAlpha, W!Sync, PathType, WorkerType, WorkerInv, LossyType, AlphaInv
  <2>4. LossyFileInv'
    BY <1>13 DEF FinishAlpha, W!Sync, PathType, CodeType, LossyFileInv, WholeFile,
       RowsInv, AlphaInv
  <2> QED
    BY <2>1, <2>2, <2>3, <2>4
<1>14. CASE EncWrite
  <2>1. LossyType'
    BY <1>14, <1>0 DEF EncWrite, LossyType
  <2>2. RowsInv'
    BY <1>14, <1>0 DEF EncWrite, PathType, WorkerType, WorkerInv, LossyType, RowsInv,
       MainRows, SideRows, InParallel
  <2>3. AlphaInv'
    BY <1>14 DEF EncWrite, PathType, WorkerType, WorkerInv, LossyType, AlphaInv
  <2>4. LossyFileInv'
    <3> SUFFICES ASSUME ok' PROVE WholeFile'
      BY DEF LossyFileInv
    <3> DEFINE f == [rows |-> analyzed["main"], alpha |-> alphaData]
    <3>1. f \in file' /\ UNCHANGED picture
      BY <1>14 DEF EncWrite
    <3>2. /\ f.rows = 0..(Rows - 1)
          /\ f.alpha = IF picture.alpha THEN CompressedAlpha ELSE {}
      BY <1>14 DEF EncWrite, RowsInv, AlphaInv
    <3> HIDE DEF f
    <3> QED
      BY <3>1, <3>2 DEF WholeFile
  <2> QED
    BY <2>1, <2>2, <2>3, <2>4
<1>15. CASE DeleteAlpha
  <2>1. LossyType'
    BY <1>15, <1>0 DEF DeleteAlpha, W!Sync, LossyType
  <2>2. RowsInv'
    BY <1>15, <1>0 DEF DeleteAlpha, W!Sync, PathType, WorkerType, WorkerInv, LossyType,
       RowsInv,
       MainRows, SideRows, InParallel
  <2>3. AlphaInv'
    BY <1>15 DEF DeleteAlpha, W!Sync, PathType, WorkerType, WorkerInv, LossyType, AlphaInv
  <2>4. LossyFileInv'
    BY <1>15 DEF DeleteAlpha, W!Sync, PathType, CodeType, LossyFileInv, WholeFile,
       RowsInv, AlphaInv
  <2> QED
    BY <2>1, <2>2, <2>3, <2>4
<1>16. CASE Delete
  <2>1. LossyType'
    BY <1>16, <1>0 DEF Delete, EndWorker, W!Stop, LossyType
  <2>2. RowsInv'
    BY <1>16, <1>0 DEF Delete, EndWorker, W!Stop, PathType, WorkerType, WorkerInv,
       LossyType, RowsInv,
       MainRows, SideRows, InParallel
  <2>3. AlphaInv'
    BY <1>16 DEF Delete, EndWorker, W!Stop, PathType, WorkerType, WorkerInv, LossyType,
       AlphaInv
  <2>4. LossyFileInv'
    BY <1>16 DEF Delete, EndWorker, W!Stop, PathType, CodeType, LossyFileInv, WholeFile,
       RowsInv, AlphaInv
  <2> QED
    BY <2>1, <2>2, <2>3, <2>4
<1>17. CASE SideAnalyzesRow
  <2>1. LossyType'
    BY <1>17, <1>0 DEF SideAnalyzesRow, W!Complete, NextRow, LossyType
  <2>2. /\ pc \in {"rows", "syncAnalysis"} /\ UNCHANGED <<pc, ok, picture>>
        /\ analyzed["main"]' = analyzed["main"]
    BY <1>17 DEF SideAnalyzesRow, NextRow, WorkerInv, LossyType
  <2>3. /\ analyzed["side"]' \subseteq SideRows
        /\ job' = {} => SideRows \subseteq analyzed["side"]'
    <3>1. CASE SideRows \subseteq analyzed["side"]
      BY <1>17, <2>2, <3>1 DEF SideAnalyzesRow, RowsInv
    <3>2. CASE ~(SideRows \subseteq analyzed["side"])
      BY <1>17, <2>2, <3>2 DEF SideAnalyzesRow, NextRow, LossyType, RowsInv
    <3> QED
      BY <3>1, <3>2
  <2>4. RowsInv'
    BY <2>2, <2>3 DEF RowsInv, MainRows, SideRows, InParallel
  <2>5. AlphaInv'
    BY <1>17 DEF SideAnalyzesRow, W!Complete, NextRow, PathType, WorkerType, WorkerInv,
       LossyType, AlphaInv
  <2>6. LossyFileInv'
    BY <1>17 DEF SideAnalyzesRow, W!Complete, NextRow, PathType, CodeType, LossyFileInv,
       WholeFile, RowsInv, AlphaInv
  <2> QED
    BY <2>1, <2>4, <2>5, <2>6
<1>18. CASE SideCompressesAlpha
  <2>1. LossyType'
    BY <1>18, <1>0 DEF SideCompressesAlpha, W!Complete, LossyType
  <2>2. RowsInv'
    BY <1>18, <1>0 DEF SideCompressesAlpha, W!Complete, PathType, WorkerType, WorkerInv,
       LossyType, RowsInv,
       MainRows, SideRows, InParallel
  <2>3. AlphaInv'
    BY <1>18 DEF SideCompressesAlpha, W!Complete, PathType, WorkerType, WorkerInv,
       LossyType, AlphaInv
  <2>4. LossyFileInv'
    BY <1>18 DEF SideCompressesAlpha, W!Complete, PathType, CodeType, LossyFileInv,
       WholeFile, RowsInv, AlphaInv
  <2> QED
    BY <2>1, <2>2, <2>3, <2>4
<1>19. CASE SideAlphaFails
  <2>1. LossyType'
    BY <1>19, <1>0 DEF SideAlphaFails, W!Complete, LossyType
  <2>2. RowsInv'
    BY <1>19, <1>0 DEF SideAlphaFails, W!Complete, PathType, WorkerType, WorkerInv,
       LossyType, RowsInv,
       MainRows, SideRows, InParallel
  <2>3. AlphaInv'
    BY <1>19 DEF SideAlphaFails, W!Complete, PathType, WorkerType, WorkerInv, LossyType,
       AlphaInv
  <2>4. LossyFileInv'
    BY <1>19 DEF SideAlphaFails, W!Complete, PathType, CodeType, LossyFileInv,
       WholeFile, RowsInv, AlphaInv
  <2> QED
    BY <2>1, <2>2, <2>3, <2>4
<1>20. CASE SideSetsError
  <2>1. LossyType'
    BY <1>20, <1>0 DEF SideSetsError, W!Complete, LossyType
  <2>2. RowsInv'
    BY <1>20, <1>0 DEF SideSetsError, W!Complete, PathType, WorkerType, WorkerInv,
       LossyType, RowsInv,
       MainRows, SideRows, InParallel
  <2>3. AlphaInv'
    BY <1>20 DEF SideSetsError, W!Complete, PathType, WorkerType, WorkerInv, LossyType,
       AlphaInv
  <2>4. LossyFileInv'
    BY <1>20 DEF SideSetsError, W!Complete, PathType, CodeType, LossyFileInv, WholeFile,
       RowsInv, AlphaInv
  <2> QED
    BY <2>1, <2>2, <2>3, <2>4
<1> QED
  BY <1>1, <1>2, <1>3, <1>4, <1>5, <1>6, <1>7, <1>8, <1>9, <1>10, <1>11, <1>12, <1>13,
       <1>14, <1>15, <1>16, <1>17, <1>18, <1>19, <1>20

\* Neither path disturbs the data of the other.
LEMMA LossyLeavesLossless ==
  ASSUME CtlInv, LosslessInv,
         \/ NewEncoder \/ DefaultSegment \/ StartAnalysis \/ LaunchAnalysis
         \/ AnalyzeRow \/ RowsDone \/ SyncAnalysis \/ EndAnalysis
         \/ StartAlpha \/ LaunchAlpha \/ EncLoop \/ EncLoopEnd \/ FinishAlpha
         \/ EncWrite \/ DeleteAlpha \/ Delete
         \/ SideAnalyzesRow \/ SideCompressesAlpha \/ SideAlphaFails \/ SideSetsError
  PROVE  LosslessInv'
<1> USE DEF CtlInv, call, Goto, Fail, Abort, AbortUnnoticed
<1>1. /\ UNCHANGED <<picture, lossless>> /\ ~picture.lossless
      /\ pc' \in LossyPc \cup {"done"}
  <2>1. CASE \/ NewEncoder \/ DefaultSegment \/ StartAnalysis \/ LaunchAnalysis
             \/ AnalyzeRow \/ RowsDone \/ SyncAnalysis \/ EndAnalysis
    BY <2>1 DEF PathType, NewEncoder, DefaultSegment, StartAnalysis, LaunchAnalysis,
       AnalyzeRow, RowsDone, SyncAnalysis, EndAnalysis
  <2>2. CASE \/ StartAlpha \/ LaunchAlpha \/ EncLoop \/ EncLoopEnd \/ FinishAlpha
             \/ EncWrite \/ DeleteAlpha \/ Delete
    BY <2>2 DEF PathType, StartAlpha, AlphaInline, LaunchAlpha, EncLoop, EncLoopEnd,
       FinishAlpha, EncWrite, DeleteAlpha, Delete
  <2>3. CASE \/ SideAnalyzesRow \/ SideCompressesAlpha \/ SideAlphaFails \/ SideSetsError
    BY <2>3 DEF PathType, WorkerInv, SideAnalyzesRow, SideCompressesAlpha, SideAlphaFails,
       SideSetsError
  <2> QED
    BY <2>1, <2>2, <2>3
<1>2. LosslessType'
  BY <1>1 DEF LosslessInv, LosslessType, lossless
<1>3. EachInv' /\ HandOverInv' /\ ChosenInv' /\ LosslessFileInv'
  BY <1>1 DEF EachInv, HandOverInv, ChosenInv, LosslessFileInv
<1> QED
  BY <1>2, <1>3 DEF LosslessInv

LEMMA LosslessLeavesLossy ==
  ASSUME CtlInv, LossyInv,
         \/ BeginStream \/ ResetStream \/ LaunchStream \/ MainEncodes
         \/ SyncStream \/ EndStream \/ FreeStream \/ WriteStream \/ SideEncodes
  PROVE  LossyInv'
<1> USE DEF CtlInv, call, Goto, Fail, Abort, LossyInv
<1>1. /\ UNCHANGED <<picture, lossy>> /\ picture.lossless
      /\ pc' \in LosslessPc \cup {"done"}
  <2>1. CASE \/ BeginStream \/ ResetStream \/ LaunchStream \/ MainEncodes
    BY <2>1 DEF PathType, BeginStream, ResetStream, LaunchStream, MainEncodes
  <2>2. CASE \/ SyncStream \/ EndStream \/ FreeStream \/ WriteStream
    BY <2>2 DEF PathType, SyncStream, EndStream, FreeStream, WriteStream
  <2>3. CASE SideEncodes
    BY <2>3 DEF PathType, WorkerInv, SideEncodes
  <2> QED
    BY <2>1, <2>2, <2>3
<1>2. LossyType' /\ RowsInv' /\ LossyFileInv'
  BY <1>1 DEF LossyType, RowsInv, LossyFileInv, lossy
<1>3. AlphaInv'
  BY <1>1 DEF AlphaInv, PathType, lossy
<1> QED
  BY <1>2, <1>3

LEMMA OwnDisjoint ==
  ASSUME PathType
  PROVE  /\ Own("main") \cup Own("side") = 1..Configs /\ 1 \in Own("main")
         /\ Own("main") \cap Own("side") = {}
  BY NumSideType, EncoderAssumption DEF Own, MainConfigs, SideConfigs

LEMMA PictureDecidesOwn ==
  ASSUME UNCHANGED picture
  PROVE  /\ NumSide' = NumSide
         /\ \A t \in Threads : Own(t)' = Own(t)
  BY DEF Own, MainConfigs, SideConfigs, NumSide

\* A configuration that is tried leaves either thread's books in order.
LEMMA ConfigStep ==
  ASSUME NEW t \in Threads, PathType, LosslessType,
         \A u \in Threads : Tried(u) /\ Kept(u),
         EncodeConfig(t), UNCHANGED picture
  PROVE  LosslessType' /\ \A u \in Threads : Tried(u)' /\ Kept(u)'
<1>1. PICK c \in todo[t] :
        /\ todo' = [todo EXCEPT ![t] = @ \ {c}]
        /\ \E r \in Streams(c) :
             /\ made' = made \cup {r}
             /\ IF Better(r, best[t])
                THEN /\ best' = [best EXCEPT ![t] = {r}]
                     /\ stats' = [stats EXCEPT ![t] = r.config]
                ELSE UNCHANGED <<best, stats>>
  BY DEF EncodeConfig
<1>2. PICK r \in Streams(c) :
             /\ made' = made \cup {r}
             /\ IF Better(r, best[t])
                THEN /\ best' = [best EXCEPT ![t] = {r}]
                     /\ stats' = [stats EXCEPT ![t] = r.config]
                ELSE UNCHANGED <<best, stats>>
  BY <1>1
<1>3. c \in Own(t) /\ c \in 1..Configs /\ r \in Stream /\ r.config = c
  BY <1>1, <1>2 DEF Tried, LosslessType, Streams, Stream
<1>4. \A u \in Threads : Own(u)' = Own(u) /\ (u # t => c \notin Own(u))
  BY <1>3, PictureDecidesOwn, OwnDisjoint DEF Threads
<1>5. LosslessType'
  <2>1. UNCHANGED bw
    BY DEF EncodeConfig
  <2>2. todo' \in [Threads -> SUBSET (1..Configs)] /\ bw' \in [Threads -> SUBSET Stream]
    BY <1>1, <2>1 DEF LosslessType
  <2>3. best' \in [Threads -> SUBSET Stream] /\ stats' \in [Threads -> 0..Configs]
    BY <1>2, <1>3 DEF LosslessType
  <2> QED
    BY <1>2, <1>3, <2>2, <2>3 DEF LosslessType
<1>6. ASSUME NEW u \in Threads PROVE Tried(u)'
  <2>1. todo'[u] = IF u = t THEN todo[u] \ {c} ELSE todo[u]
    BY <1>1 DEF LosslessType
  <2>2. Tried(u)
    OBVIOUS
  <2>3. todo'[u] \subseteq Own(u)
    BY <2>1, <2>2 DEF Tried
  <2>4. ASSUME NEW d \in Own(u) \ todo'[u] PROVE \E q \in made' : q.config = d
    BY <1>2, <1>3, <2>1, <2>2 DEF Tried
  <2> QED
    BY <1>4, <2>3, <2>4 DEF Tried
<1>7. ASSUME NEW u \in Threads PROVE Kept(u)'
  <2>1. CASE u = t /\ Better(r, best[t])
    <3>1. best'[u] = {r} /\ stats'[u] = r.config /\ r \in made'
      BY <1>2, <2>1 DEF LosslessType
    <3>2. \A k \in best[t] : k \in Stream /\ r.size < k.size
      BY <2>1 DEF Better, LosslessType
    <3>3. ASSUME NEW q \in made', q.config \in Own(u) PROVE r.size <= q.size
      <4>1. CASE q = r
        BY <4>1, <1>3, EncoderAssumption DEF Stream
      <4>2. CASE q \in made
        <5>1. PICK k \in best[t] : k.size <= q.size
          BY <2>1, <3>3, <4>2 DEF Kept
        <5> QED
          BY <1>3, <3>2, <4>2, <5>1, EncoderAssumption DEF LosslessType, Stream
      <4> QED
        BY <1>2, <4>1, <4>2
    <3> QED
      BY <1>4, <3>1, <3>3 DEF Kept
  <2>2. CASE ~(u = t /\ Better(r, best[t]))
    <3>1. best'[u] = best[u] /\ stats'[u] = stats[u]
      BY <1>2, <2>2 DEF LosslessType
    <3>2. ASSUME NEW q \in made', q.config \in Own(u)
          PROVE  \E k \in best[u] : k.size <= q.size
      <4>1. CASE q \in made
        BY <3>2, <4>1 DEF Kept
      <4>2. CASE q = r
        <5>1. u = t /\ ~Better(r, best[t])
          BY <1>3, <1>4, <2>2, <3>2, <4>2
        <5>2. PICK k \in best[t] : ~(r.size < k.size)
          BY <5>1 DEF Better
        <5>3. k.size <= r.size
          BY <1>3, <5>2, EncoderAssumption DEF LosslessType, Stream
        <5> QED
          BY <4>2, <5>1, <5>2, <5>3
      <4> QED
        BY <1>2, <4>1, <4>2
    <3> QED
      BY <1>2, <1>4, <3>1, <3>2 DEF Kept
  <2> QED
    BY <2>1, <2>2
<1> QED
  BY <1>5, <1>6, <1>7

\* The lossless path, in both threads.
LEMMA LosslessStep ==
  ASSUME CtlInv, LosslessInv,
         \/ BeginStream \/ ResetStream \/ LaunchStream \/ MainEncodes
         \/ SyncStream \/ EndStream \/ FreeStream \/ WriteStream \/ SideEncodes
  PROVE  LosslessInv'
<1> USE DEF CtlInv, LosslessInv, call, worker, lossy, lossless, Goto, Fail, Abort
<1>0. UNCHANGED picture
  BY DEF BeginStream, ResetStream, LaunchStream, MainEncodes, SyncStream, EndStream,
     FreeStream, WriteStream, SideEncodes
<1>a. NumSide' = NumSide /\ \A t \in Threads : Own(t)' = Own(t)
  BY <1>0, PictureDecidesOwn
<1>1. CASE BeginStream
  <2>1. LosslessType'
    BY <1>1, OwnDisjoint DEF BeginStream, LosslessType, Own, Threads
  <2>2. EachInv'
    BY <1>1, <1>a DEF BeginStream, PathType, EachInv, Tried, Kept, Own, Threads
  <2>3. HandOverInv' /\ ChosenInv' /\ LosslessFileInv'
    BY <1>1, <1>a DEF BeginStream, HandOverInv, ChosenInv, LosslessFileInv
  <2> QED
    BY <2>1, <2>2, <2>3
<1>2. CASE ResetStream
  <2>1. LosslessType'
    BY <1>2 DEF ResetStream, LosslessType
  <2>2. EachInv'
    BY <1>2, <1>a DEF ResetStream, EachInv, Tried, Kept
  <2>3. HandOverInv' /\ ChosenInv' /\ LosslessFileInv'
    BY <1>2, <1>a DEF ResetStream, HandOverInv, ChosenInv, LosslessFileInv
  <2> QED
    BY <2>1, <2>2, <2>3
<1>3. CASE LaunchStream
  <2>1. LosslessType'
    BY <1>3 DEF LaunchStream, LosslessType, Threads
  <2>2. EachInv'
    BY <1>3, <1>a DEF LaunchStream, EachInv, Tried, Kept, Threads
  <2>3. HandOverInv' /\ ChosenInv' /\ LosslessFileInv'
    BY <1>3, <1>a DEF LaunchStream, W!Accept, HandOverInv, ChosenInv, LosslessFileInv
  <2> QED
    BY <2>1, <2>2, <2>3
<1>4. CASE MainEncodes
  <2>1. CASE EncodeConfig("main") /\ Goto("stream")
    <3>1. LosslessType' /\ \A u \in Threads : Tried(u)' /\ Kept(u)'
      BY <1>0, <1>4, <2>1, ConfigStep DEF MainEncodes, EachInv, Threads
    <3>2. todo'["side"] = todo["side"] /\ best'["side"] = best["side"]
      BY <2>1 DEF EncodeConfig, LosslessType, Threads
    <3>3. EachInv'
      BY <2>1, <3>1 DEF EachInv
    <3>4. HandOverInv'
      BY <1>4, <1>a, <2>1, <3>2 DEF MainEncodes, HandOverInv, HandOver, EncodeConfig
    <3>5. ChosenInv' /\ LosslessFileInv'
      BY <2>1 DEF ChosenInv, LosslessFileInv
    <3> QED
      BY <3>1, <3>3, <3>4, <3>5
  <2>2. CASE KeepBest("main") /\ Goto("syncStream")
    <3>1. /\ bw' = [bw EXCEPT !["main"] = best["main"]] /\ todo["main"] = {}
          /\ UNCHANGED <<todo, best, stats, made, job, err>> /\ pc = "stream"
      BY <1>4, <2>2 DEF MainEncodes, KeepBest
    <3>2. LosslessType'
      BY <3>1 DEF LosslessType, Threads
    <3>3. bw'["main"] = best["main"] /\ bw'["side"] = bw["side"]
      BY <3>1 DEF LosslessType, Threads
    <3>4. EachInv'
      BY <1>a, <2>2, <3>1 DEF EachInv, Tried, Kept
    <3>5. HandOverInv'
      BY <1>a, <2>2, <3>1, <3>3 DEF HandOverInv, HandOver
    <3>6. ChosenInv' /\ LosslessFileInv'
      BY <2>2 DEF ChosenInv, LosslessFileInv
    <3> QED
      BY <3>2, <3>4, <3>5, <3>6
  <2>3. CASE /\ Fail("OUT_OF_MEMORY", "syncStream") \/ Abort("syncStream")
             /\ UNCHANGED lossless
    <3>1. UNCHANGED <<todo, best, bw, stats, made, job, err>> /\ pc = "stream"
      BY <1>4, <2>3 DEF MainEncodes
    <3>2. LosslessType' /\ ChosenInv' /\ LosslessFileInv'
      BY <2>3, <3>1 DEF LosslessType, ChosenInv, LosslessFileInv
    <3>3. EachInv'
      BY <1>a, <2>3, <3>1 DEF EachInv, Tried, Kept
    <3>4. HandOverInv'
      BY <1>a, <2>3, <3>1 DEF HandOverInv, HandOver
    <3> QED
      BY <3>2, <3>3, <3>4
  <2> QED
    BY <1>4, <2>1, <2>2, <2>3 DEF MainEncodes
<1>5. CASE SyncStream
  <2>1. UNCHANGED <<todo, best, bw, stats, made, job, err>>
    BY <1>5 DEF SyncStream, W!Sync
  <2>2. LosslessType' /\ ChosenInv' /\ LosslessFileInv'
    BY <1>5, <2>1 DEF SyncStream, LosslessType, ChosenInv, LosslessFileInv
  <2>3. EachInv'
    BY <1>5, <1>a, <2>1 DEF SyncStream, EachInv, Tried, Kept
  <2>4. HandOverInv'
    BY <1>5, <1>a, <2>1 DEF SyncStream, W!Sync, HandOverInv, HandOver, CodeType,
       WorkerType
  <2> QED
    BY <2>2, <2>3, <2>4
<1>6. CASE EndStream
  <2>1. pc = "endStream" /\ pc' = "freeStream" /\ UNCHANGED <<ok, todo, best, made>>
    BY <1>6 DEF EndStream
  <2>2. LosslessType'
    <3>1. bw' \in [Threads -> SUBSET Stream]
      BY <1>6 DEF EndStream, SwapWriters, LosslessType, Threads
    <3>2. stats' \in [Threads -> 0..Configs]
      BY <1>6 DEF EndStream, SwapWriters, LosslessType, Threads
    <3> QED
      BY <2>1, <3>1, <3>2 DEF LosslessType
  <2>3. EachInv' /\ HandOverInv' /\ LosslessFileInv'
    BY <2>1 DEF EachInv, HandOverInv, LosslessFileInv
  <2>4. ASSUME ok PROVE \E f \in Stream : bw'["main"] = {f} /\ Shortest(f)'
    <3>1. \A t \in Threads : Tried(t) /\ Kept(t)
      BY <2>1 DEF EachInv
    <3>2. /\ bw["main"] = best["main"] /\ todo["main"] = {}
          /\ NumSide > 0 => bw["side"] = best["side"] /\ todo["side"] = {}
      BY <2>1, <2>4 DEF HandOverInv, HandOver, WorkerInv, WorkerType
    <3>3. todo["side"] = {}
      BY <3>1, <3>2, NumSideType, EncoderAssumption
      DEF Tried, Own, SideConfigs, Threads
    <3>4. {r.config : r \in made} = 1..Configs
      BY <3>1, <3>2, <3>3, OwnDisjoint DEF Tried, Threads, LosslessType, Stream
    <3>5. PICK b \in best["main"] : TRUE
      BY <3>1, <3>2, OwnDisjoint DEF Tried, Kept, Threads
    <3>6. /\ bw["main"] = {b} /\ b \in Stream /\ b \in made /\ stats["main"] = b.config
          /\ \A r \in made : r.config \in Own("main") => b.size <= r.size
      BY <3>1, <3>2, <3>5 DEF Kept, Threads, LosslessType
    <3>7. CASE TakeSide
      <4>1. PICK s \in bw["side"] : s.size < b.size
        BY <3>6, <3>7 DEF TakeSide, Better
      <4>2. /\ bw["side"] = {s} /\ s \in Stream /\ stats["side"] = s.config
            /\ \A r \in made : r.config \in Own("side") => s.size <= r.size
        BY <3>1, <3>2, <3>7, <4>1 DEF TakeSide, Kept, Threads, LosslessType
      <4>3. bw'["main"] = {s} /\ stats'["main"] = s.config
        BY <1>6, <2>4, <3>7, <4>2 DEF EndStream, SwapWriters, LosslessType, Threads
      <4>4. ASSUME NEW r \in made PROVE s.size <= r.size
        <5>1. r.config \in Own("main") \/ r.config \in Own("side")
          BY OwnDisjoint DEF LosslessType, Stream
        <5>2. r.size \in Nat /\ b.size \in Nat /\ s.size \in Nat
          BY <3>6, <4>2, EncoderAssumption DEF LosslessType, Stream
        <5> QED
          BY <3>6, <4>1, <4>2, <5>1, <5>2
      <4> QED
        BY <2>1, <3>4, <4>2, <4>3, <4>4 DEF Shortest
    <3>8. CASE ~TakeSide
      <4>1. bw'["main"] = {b} /\ stats'["main"] = b.config
        BY <1>6, <3>6, <3>8 DEF EndStream, SwapWriters
      <4>2. ASSUME NEW r \in made, r.config \in Own("side") PROVE b.size <= r.size
        <5>1. NumSide > 0
          BY <4>2, NumSideType, EncoderAssumption DEF Own, SideConfigs
        <5>2. PICK s \in best["side"] : s.size <= r.size
          BY <3>1, <4>2 DEF Kept, Threads
        <5>3. ~(s.size < b.size)
          BY <3>2, <3>6, <3>8, <5>1, <5>2 DEF TakeSide, Better
        <5>4. r.size \in Nat /\ b.size \in Nat /\ s.size \in Nat
          BY <3>6, <5>2, EncoderAssumption DEF LosslessType, Stream, Threads
        <5> QED
          BY <5>2, <5>3, <5>4
      <4>3. ASSUME NEW r \in made PROVE b.size <= r.size
        <5>1. r.config \in Own("main") \/ r.config \in Own("side")
          BY OwnDisjoint DEF LosslessType, Stream
        <5> QED
          BY <3>6, <4>2, <5>1
      <4> QED
        BY <2>1, <3>4, <3>6, <4>1, <4>3 DEF Shortest
    <3> QED
      BY <3>7, <3>8
  <2>5. ChosenInv'
    BY <2>1, <2>4 DEF ChosenInv
  <2> QED
    BY <2>2, <2>3, <2>5
<1>7. CASE FreeStream
  <2>1. LosslessType'
    BY <1>7 DEF FreeStream, LosslessType
  <2>2. EachInv' /\ HandOverInv' /\ LosslessFileInv'
    BY <1>7 DEF FreeStream, EachInv, HandOverInv, LosslessFileInv
  <2>3. ChosenInv'
    BY <1>7 DEF FreeStream, ChosenInv, Shortest
  <2> QED
    BY <2>1, <2>2, <2>3
<1>8. CASE WriteStream
  <2>1. LosslessType'
    BY <1>8 DEF WriteStream, LosslessType
  <2>2. EachInv' /\ HandOverInv' /\ ChosenInv'
    BY <1>8 DEF WriteStream, EachInv, HandOverInv, ChosenInv
  <2>3. LosslessFileInv'
    BY <1>8 DEF WriteStream, ChosenInv, LosslessFileInv, Shortest
  <2> QED
    BY <2>1, <2>2, <2>3
<1>9. CASE SideEncodes
  <2>0. pc \in {"stream", "syncStream"} /\ UNCHANGED <<pc, ok, file>> /\ NumSide > 0
    BY <1>9 DEF SideEncodes, WorkerInv
  <2>1. CASE EncodeConfig("side") /\ UNCHANGED worker
    <3>1. LosslessType' /\ \A u \in Threads : Tried(u)' /\ Kept(u)'
      BY <1>0, <2>0, <2>1, ConfigStep DEF EachInv, Threads
    <3>2. /\ todo'["main"] = todo["main"] /\ best'["main"] = best["main"]
          /\ UNCHANGED bw /\ job' # {}
      BY <1>9, <2>1 DEF SideEncodes, EncodeConfig, LosslessType, Threads
    <3>3. EachInv'
      BY <2>0, <3>1 DEF EachInv
    <3>4. HandOverInv'
      BY <1>a, <2>0, <3>2 DEF HandOverInv, HandOver
    <3>5. ChosenInv' /\ LosslessFileInv'
      BY <2>0 DEF ChosenInv, LosslessFileInv
    <3> QED
      BY <3>1, <3>3, <3>4, <3>5
  <2>2. CASE KeepBest("side") /\ W!Complete(TRUE)
    <3>1. /\ bw' = [bw EXCEPT !["side"] = best["side"]] /\ todo["side"] = {}
          /\ UNCHANGED <<todo, best, stats, made>>
      BY <2>2 DEF KeepBest
    <3>2. LosslessType'
      BY <3>1 DEF LosslessType, Threads
    <3>3. bw'["side"] = best["side"] /\ bw'["main"] = bw["main"]
      BY <3>1 DEF LosslessType, Threads
    <3>4. EachInv'
      BY <1>a, <2>0, <3>1 DEF EachInv, Tried, Kept
    <3>5. HandOverInv'
      BY <1>a, <2>0, <3>1, <3>3 DEF HandOverInv, HandOver
    <3>6. ChosenInv' /\ LosslessFileInv'
      BY <2>0 DEF ChosenInv, LosslessFileInv
    <3> QED
      BY <3>2, <3>4, <3>5, <3>6
  <2>3. CASE /\ sideCode' = "OUT_OF_MEMORY" /\ W!Complete(FALSE)
             /\ UNCHANGED <<todo, best, bw, stats, made>>
    <3>1. LosslessType' /\ ChosenInv' /\ LosslessFileInv'
      BY <2>0, <2>3 DEF LosslessType, ChosenInv, LosslessFileInv
    <3>2. EachInv'
      BY <1>a, <2>0, <2>3 DEF EachInv, Tried, Kept
    <3>3. HandOverInv'
      BY <1>a, <2>0, <2>3 DEF HandOverInv, HandOver, W!Complete, WorkerType
    <3> QED
      BY <3>1, <3>2, <3>3
  <2> QED
    BY <1>9, <2>1, <2>2, <2>3 DEF SideEncodes
<1> QED
  BY <1>1, <1>2, <1>3, <1>4, <1>5, <1>6, <1>7, <1>8, <1>9

LEMMA WorkStep == CtlInv /\ LossyInv /\ LosslessInv /\ [Next]_vars => LossyInv' /\ LosslessInv'
<1> SUFFICES ASSUME CtlInv, LossyInv, LosslessInv, [Next]_vars
             PROVE  LossyInv' /\ LosslessInv'
  OBVIOUS
<1>1. CASE Main
  BY <1>1, LossyStep, LosslessStep, LossyLeavesLossless, LosslessLeavesLossy DEF Main
<1>2. CASE Side
  BY <1>2, LossyStep, LosslessStep, LossyLeavesLossless, LosslessLeavesLossy DEF Side
<1>3. CASE UNCHANGED vars
  <2> USE <1>3 DEF vars, call, worker, lossy, lossless
  <2>1. NumSide' = NumSide /\ \A t \in Threads : Own(t)' = Own(t)
    BY PictureDecidesOwn
  <2>2. LossyInv'
    BY DEF LossyInv, LossyType, RowsInv, MainRows, SideRows, InParallel, AlphaInv,
       LossyFileInv, WholeFile
  <2>3. LosslessType' /\ ChosenInv' /\ LosslessFileInv'
    BY DEF LosslessInv, LosslessType, ChosenInv, LosslessFileInv, Shortest
  <2>4. EachInv'
    BY <2>1 DEF LosslessInv, EachInv, Tried, Kept
  <2>5. HandOverInv'
    BY <2>1 DEF LosslessInv, HandOverInv, HandOver
  <2> QED
    BY <2>2, <2>3, <2>4, <2>5 DEF LosslessInv
<1> QED
  BY <1>1, <1>2, <1>3 DEF Next, Finished

LEMMA InitWork == Init => LossyInv /\ LosslessInv
<1> SUFFICES ASSUME Init PROVE LossyInv /\ LosslessInv
  OBVIOUS
<1>1. LossyInv
  BY DEF Init, LossyInv, LossyType, Threads, RowsInv, AlphaInv, LossyFileInv
<1>2. LosslessType
  BY EncoderAssumption DEF Init, LosslessType
<1>3. EachInv /\ HandOverInv /\ ChosenInv /\ LosslessFileInv
  BY DEF Init, EachInv, Tried, Kept, HandOverInv, ChosenInv, LosslessFileInv
<1> QED
  BY <1>1, <1>2, <1>3 DEF LosslessInv

\* A file that is reported as written has the segments of every row and the
\* whole alpha plane, or is the shortest of the streams of all configurations
\* and the one the statistics describe, for any height and any number of
\* configurations, however the threads and their failures interleave.
THEOREM SuccessIsCompleteHolds == Spec => []SuccessIsComplete
<1>1. Init => LossyInv /\ LosslessInv
  BY InitWork
<1>2. CtlInv /\ LossyInv /\ LosslessInv /\ [Next]_vars => LossyInv' /\ LosslessInv'
  BY WorkStep
<1>3. LossyInv /\ LosslessInv => SuccessIsComplete
  BY DEF LossyInv, LossyFileInv, WholeFile, LosslessInv, LosslessFileInv, Shortest,
     SuccessIsComplete
<1> QED
  BY <1>1, <1>2, <1>3, ControlInvariant, PTL DEF Spec
-----------------------------------------------------------------------------
(* The whole lossy encoder.                                                *)

\* The macroblocks of the picture and of a pass of StatLoop().
All == FirstOfPass(Macroblocks)
Some == FirstOfPass(StatBlocks)

StatPlaces == {"stat", "statPass", "statEnd", "stats"}
TokenPlaces == {"token", "tokenPass", "emit"}
Places == {"begin", "code"} \cup StatPlaces \cup TokenPlaces \cup Ends

PassesType ==
  /\ config \in LoopConfig /\ loop \in Places
  /\ block \in 0..Macroblocks /\ headerBits \in Nat
  /\ statLoop \in {"none", "ok", "abort", "unsized"}

\* Nothing is coded, and no side information kept, before the last loop.
FreshInv ==
  /\ loop = "begin" => skipProba = {} /\ skips = {}
  /\ loop \in {"begin", "stat", "token"} \cup StatPlaces => coded = {} /\ sideInfo = {}
  /\ loop \in StatPlaces => ~config.tokens
  /\ loop \in TokenPlaces => config.tokens /\ coded = {} /\ skipProba = {} /\ skips = {}

\* What the probabilities were made from once StatLoop() succeeded.
StatsAreOfThePass == Some \subseteq coeffs /\ skipProba = Some

StatInv ==
  /\ loop = "statPass" =>
       /\ block <= StatBlocks
       /\ skips = FirstOfPass(block) /\ FirstOfPass(block) \subseteq counted
  /\ loop = "statEnd" =>
       /\ skips = Some /\ Some \subseteq counted
       /\ config.target = "size" => coeffs = counted /\ skipProba = skips
  /\ loop \in {"stats", "code"} => (statLoop = "ok" => StatsAreOfThePass)
  /\ loop \in {"statPass", "statEnd", "stats", "code", "tokenPass", "emit"} =>
       (overflow => headerBits = 0)

CodeInv ==
  loop = "code" =>
    /\ ~config.tokens
    /\ coded = CodedWith(FirstOfPass(block), <<coeffs, skipProba>>)
    /\ sideInfo = FirstOfPass(block) /\ filterStats = FirstOfPass(block)

TokenInv ==
  /\ loop = "tokenPass" =>
       /\ tokens = FirstOfPass(block)
       /\ IF last THEN /\ counted = FirstOfPass(block)
                       /\ sideInfo = FirstOfPass(block) /\ filterStats = FirstOfPass(block)
                  ELSE sideInfo = {}
  /\ loop = "emit" =>
       /\ tokens = All /\ counted = All /\ sideInfo = All /\ filterStats = All
       /\ config.target = "size" => coeffs = counted

PassesInv ==
  PassesType /\ FreshInv /\ StatInv /\ CodeInv /\ TokenInv /\ OnePassIsCoded

------------------------------------------------------------------------------
(* The steps of the whole encoder, seen from each of its two halves.       *)

PassesNext == BeginLoop \/ StatLoop \/ CodingLoop \/ TokenLoop

LEMMA ThreadsStep == [EncoderNext]_encoderVars => [Next]_vars
<1> SUFFICES ASSUME [EncoderNext]_encoderVars PROVE [Next]_vars
  OBVIOUS
<1>1. CASE Statistics
  BY <1>1 DEF Statistics, Next, Main
<1>2. CASE Coding
  BY <1>2 DEF Coding
<1>3. CASE LoopReturns
  BY <1>3 DEF LoopReturns, Next, Main
<1>4. CASE Elsewhere
  BY <1>4 DEF Elsewhere, Next
<1>5. CASE SideThread
  BY <1>5 DEF SideThread, Next
<1>6. CASE Finished /\ UNCHANGED passVars
  BY <1>6 DEF Finished
<1>7. CASE UNCHANGED encoderVars
  BY <1>7 DEF encoderVars
<1> QED
  BY <1>1, <1>2, <1>3, <1>4, <1>5, <1>6, <1>7 DEF EncoderNext, MainThread

LEMMA PassesStep == [EncoderNext]_encoderVars => [PassesNext]_passVars
<1> SUFFICES ASSUME [EncoderNext]_encoderVars PROVE [PassesNext]_passVars
  OBVIOUS
<1>1. CASE Statistics
  BY <1>1 DEF Statistics, PassesNext
<1>2. CASE Coding
  BY <1>2 DEF Coding, PassesNext
<1>3. CASE LoopReturns \/ Elsewhere \/ SideThread \/ (Finished /\ UNCHANGED passVars)
  BY <1>3 DEF LoopReturns, Elsewhere, SideThread
<1>4. CASE UNCHANGED encoderVars
  BY <1>4 DEF encoderVars
<1> QED
  BY <1>1, <1>2, <1>3, <1>4 DEF EncoderNext, MainThread

\* The threads of the whole encoder are those of EncoderThreads: the passes
\* only say more of the step that stands for VP8EncLoop() there.
THEOREM RefinesThreads == EncoderSpec => Spec
<1>1. EncoderInit => Init
  BY DEF EncoderInit
<1> QED
  BY <1>1, ThreadsStep, PTL DEF EncoderSpec, Spec

\* Whatever the loops do, a file that is reported as written is complete, a
\* failure has its code, and nothing is freed under the other thread.
THEOREM ThreadsAreSafe ==
  EncoderSpec => [](SuccessIsComplete /\ FailureExplained /\ FreedWhenIdle)
<1> QED
  BY RefinesThreads, SuccessIsCompleteHolds, FailureExplainedHolds, FreedWhenIdleHolds, PTL

------------------------------------------------------------------------------
(* The passes.                                                             *)

LEMMA OneMore ==
  ASSUME NEW n \in Nat
  PROVE  FirstOfPass(n + 1) = FirstOfPass(n) \cup {<<"now", n>>}
<1>1. 0..((n + 1) - 1) = (0..(n - 1)) \cup {n}
  OBVIOUS
<1> QED
  BY <1>1 DEF FirstOfPass

LEMMA NoneYet == FirstOfPass(0) = {}
  BY DEF FirstOfPass

LEMMA CodedOneMore ==
  ASSUME NEW S, NEW T, NEW p
  PROVE  CodedWith(S \cup T, p) = CodedWith(S, p) \cup CodedWith(T, p)
  BY DEF CodedWith

LEMMA CodedNone == ASSUME NEW p PROVE CodedWith({}, p) = {}
  BY DEF CodedWith

LEMMA ConfigType ==
  ASSUME config \in LoopConfig
  PROVE  /\ config.tokens \in BOOLEAN /\ config.fast \in BOOLEAN
         /\ StatBlocks \in 1..Macroblocks /\ Macroblocks \in Nat \ {0}
         /\ config.pass \in 1..MaxPasses
  BY PassesAssumption DEF LoopConfig, StatBlocks

LEMMA PassesInitInv == PassesInit => PassesInv
<1> SUFFICES ASSUME PassesInit PROVE PassesInv
  OBVIOUS
<1>1. config \in LoopConfig
  <2>1. [tokens |-> TRUE, target |-> "none", pass |-> 1, fast |-> FALSE, sized |-> TRUE]
          \in LoopConfig
    BY PassesAssumption DEF LoopConfig
  <2> QED
    BY <2>1 DEF PassesInit
<1> QED
  BY <1>1, PassesAssumption
  DEF PassesInit, PassesInv, PassesType, FreshInv, StatInv, CodeInv, TokenInv,
      OnePassIsCoded, Places, StatPlaces, TokenPlaces, Ends

LEMMA BeginKeepsInv == PassesInv /\ BeginLoop => PassesInv'
<1> SUFFICES ASSUME PassesInv, BeginLoop PROVE PassesInv'
  OBVIOUS
<1> QED
  BY PassesAssumption DEF BeginLoop, PassesInv, PassesType, FreshInv, StatInv, CodeInv, TokenInv,
      OnePassIsCoded, Places, StatPlaces, TokenPlaces, Ends, infos, probas, LoopConfig

LEMMA StatPassBegins == PassesInv /\ BeginStatPass => PassesInv'
<1> SUFFICES ASSUME PassesInv, BeginStatPass PROVE PassesInv'
  OBVIOUS
<1>1. StatBlocks' = StatBlocks /\ StatBlocks \in Nat
  BY ConfigType DEF PassesInv, PassesType, BeginStatPass, StatBlocks
<1> QED
  BY <1>1, ConfigType, NoneYet
  DEF BeginStatPass, BeginPass, PassesInv, PassesType, FreshInv, StatInv, CodeInv, TokenInv,
      OnePassIsCoded, Places, StatPlaces, TokenPlaces, Ends, infos

LEMMA StatBlockStep == PassesInv /\ StatBlock => PassesInv'
<1> SUFFICES ASSUME PassesInv, StatBlock PROVE PassesInv'
  OBVIOUS
<1>1. StatBlocks' = StatBlocks /\ StatBlocks \in 1..Macroblocks /\ block \in Nat
      /\ Macroblocks \in Nat
  BY ConfigType DEF PassesInv, PassesType, StatBlock, StatBlocks
<1>2. FirstOfPass(block + 1) = FirstOfPass(block) \cup {Current}
  BY <1>1, OneMore DEF Current
<1>3. block' <= StatBlocks' /\ block' \in 0..Macroblocks /\ loop = "statPass"
  BY <1>1 DEF StatBlock
<1>4. FirstOfPass(block') \subseteq counted' /\ skips' = FirstOfPass(block')
  BY <1>2, <1>3 DEF StatBlock, PassesInv, StatInv
<1>5. loop' \in {"statPass", "stats"} /\ (loop' = "stats" => statLoop' = "abort")
      /\ statLoop' \in {"none", "ok", "abort", "unsized"}
  BY <1>3 DEF StatBlock, PassesInv, PassesType
<1> QED
  BY <1>3, <1>4, <1>5
  DEF StatBlock, PassesInv, PassesType, FreshInv, StatInv, CodeInv, TokenInv,
      OnePassIsCoded, Places, StatPlaces, TokenPlaces, Ends, infos, search

LEMMA UnsizedStep == PassesInv /\ Unsized => PassesInv'
<1> SUFFICES ASSUME PassesInv, Unsized PROVE PassesInv'
  OBVIOUS
<1> QED
  BY DEF Unsized, PassesInv, PassesType, FreshInv, StatInv, CodeInv, TokenInv,
      OnePassIsCoded, Places, StatPlaces, TokenPlaces, Ends, infos, search, probas

LEMMA StatPassEnds == PassesInv /\ EndStatPass => PassesInv'
<1> SUFFICES ASSUME PassesInv, EndStatPass PROVE PassesInv'
  OBVIOUS
<1>1. /\ StatBlocks' = StatBlocks /\ Some' = Some
      /\ skips = Some /\ Some \subseteq counted
  BY DEF EndStatPass, StatBlocks, Some, FirstOfPass, PassesInv, StatInv
<1>2. headerBits' \in Nat /\ (loop' = "statEnd" => (overflow' => headerBits' = 0))
  BY DEF EndStatPass, MustStartOver, StartOver, PassesInv, PassesType
<1> QED
  BY <1>1, <1>2
  DEF EndStatPass, FinalizeProbas, PassesInv, PassesType, FreshInv, StatInv, CodeInv, TokenInv,
      OnePassIsCoded, Places, StatPlaces, TokenPlaces, Ends, infos

LEMMA StatLoopEndsStep == PassesInv /\ StatLoopEnds => PassesInv'
<1> SUFFICES ASSUME PassesInv, StatLoopEnds PROVE PassesInv'
  OBVIOUS
<1>1. StatBlocks' = StatBlocks /\ Some' = Some
  BY DEF StatLoopEnds, StatBlocks, Some, FirstOfPass
<1> QED
  BY <1>1
  DEF StatLoopEnds, FinalizeProbas, PassesInv, PassesType, FreshInv, StatInv, CodeInv, TokenInv,
      StatsAreOfThePass, OnePassIsCoded, Places, StatPlaces, TokenPlaces, Ends, infos, search

LEMMA BeginCodingStep == PassesInv /\ BeginCoding => PassesInv'
<1> SUFFICES ASSUME PassesInv, BeginCoding PROVE PassesInv'
  OBVIOUS
<1>1. StatBlocks' = StatBlocks /\ Some' = Some /\ Macroblocks \in Nat
  BY PassesAssumption DEF BeginCoding, StatBlocks, Some, FirstOfPass
<1> QED
  BY <1>1, NoneYet, CodedNone
  DEF BeginCoding, PassesInv, PassesType, FreshInv, StatInv, CodeInv, TokenInv,
      StatsAreOfThePass, OnePassIsCoded, Places, StatPlaces, TokenPlaces, Ends, search, probas

LEMMA CodeBlockStep == PassesInv /\ CodeBlock => PassesInv'
<1> SUFFICES ASSUME PassesInv, CodeBlock PROVE PassesInv'
  OBVIOUS
<1>1. block \in Nat /\ block' \in 0..Macroblocks /\ loop = "code"
  BY PassesAssumption DEF CodeBlock, PassesInv, PassesType
<1>2. FirstOfPass(block + 1) = FirstOfPass(block) \cup {Current}
  BY <1>1, OneMore DEF Current
<1>3. StatBlocks' = StatBlocks /\ Some' = Some
  BY DEF CodeBlock, StatBlocks, Some, FirstOfPass
<1>4. CASE loop' = "memory"
  BY <1>1, <1>4
  DEF CodeBlock, PassesInv, PassesType, FreshInv, StatInv, CodeInv, TokenInv,
      OnePassIsCoded, Places, StatPlaces, TokenPlaces, Ends, search, probas
<1>5. CASE loop' # "memory"
  <2>1. loop' \in {"code", "abort"} /\ StoreInfos
        /\ coded' = coded \cup CodedWith({Current}, <<coeffs, skipProba>>)
    BY <1>5 DEF CodeBlock
  <2>2. coded' = CodedWith(FirstOfPass(block'), <<coeffs', skipProba'>>)
    BY <1>1, <1>2, <2>1, CodedOneMore DEF CodeBlock, PassesInv, CodeInv, probas
  <2>3. sideInfo' = FirstOfPass(block') /\ filterStats' = FirstOfPass(block')
    BY <1>1, <1>2, <2>1 DEF CodeBlock, StoreInfos, PassesInv, CodeInv
  <2> QED
    BY <1>1, <1>3, <2>1, <2>2, <2>3
    DEF CodeBlock, PassesInv, PassesType, FreshInv, StatInv, CodeInv, TokenInv,
        StatsAreOfThePass, OnePassIsCoded, Places, StatPlaces, TokenPlaces, Ends, search, probas
<1> QED
  BY <1>4, <1>5

LEMMA CodingEndsStep == PassesInv /\ CodingEnds => PassesInv'
<1> SUFFICES ASSUME PassesInv, CodingEnds PROVE PassesInv'
  OBVIOUS
<1>1. StreamIsOfThePass /\ ProbasAreOfThePass
  BY DEF CodingEnds, PassesInv, CodeInv, StatInv, StatsAreOfThePass, Some,
         StreamIsOfThePass, ProbasAreOfThePass
<1>2. StreamIsOfThePass' /\ ProbasAreOfThePass'
  BY <1>1 DEF CodingEnds, StreamIsOfThePass, ProbasAreOfThePass, StatBlocks, FirstOfPass,
              CodedWith, infos, probas, search
<1> QED
  BY <1>2
  DEF CodingEnds, PassesInv, PassesType, FreshInv, StatInv, CodeInv, TokenInv,
      OnePassIsCoded, Places, StatPlaces, TokenPlaces, Ends, search

LEMMA TokenPassBegins == PassesInv /\ BeginTokenPass => PassesInv'
<1> SUFFICES ASSUME PassesInv, BeginTokenPass PROVE PassesInv'
  OBVIOUS
<1>1. Macroblocks \in Nat /\ Before({}) = {}
  BY PassesAssumption DEF Before
<1>2. loop = "token" /\ sideInfo = {} /\ skipProba = {}
  BY DEF BeginTokenPass, PassesInv, FreshInv, TokenPlaces
<1> QED
  BY <1>1, <1>2, NoneYet
  DEF BeginTokenPass, BeginPass, PassesInv, PassesType, FreshInv, StatInv, CodeInv, TokenInv,
      OnePassIsCoded, Places, StatPlaces, TokenPlaces, Ends

LEMMA TokenBlockStep == PassesInv /\ TokenBlock => PassesInv'
<1> SUFFICES ASSUME PassesInv, TokenBlock PROVE PassesInv'
  OBVIOUS
<1>1. block \in Nat /\ block' \in 0..Macroblocks /\ loop = "tokenPass"
  BY PassesAssumption DEF TokenBlock, PassesInv, PassesType
<1>2. FirstOfPass(block + 1) = FirstOfPass(block) \cup {Current}
  BY <1>1, OneMore DEF Current
<1>3. loop' = "tokenPass" =>
        /\ tokens' = FirstOfPass(block')
        /\ IF last THEN /\ counted' = FirstOfPass(block')
                        /\ sideInfo' = FirstOfPass(block') /\ filterStats' = FirstOfPass(block')
                   ELSE sideInfo' = {}
  BY <1>1, <1>2 DEF TokenBlock, StoreInfos, PassesInv, TokenInv, infos
<1>4. loop' \in {"tokenPass", "abort", "memory"} /\ last' = last
  BY <1>1 DEF TokenBlock
<1> QED
  BY <1>1, <1>3, <1>4
  DEF TokenBlock, PassesInv, PassesType, FreshInv, StatInv, CodeInv, TokenInv,
      OnePassIsCoded, Places, StatPlaces, TokenPlaces, Ends, search

LEMMA TokenPassEnds == PassesInv /\ EndTokenPass => PassesInv'
<1> SUFFICES ASSUME PassesInv, EndTokenPass PROVE PassesInv'
  OBVIOUS
<1>1. loop = "tokenPass" /\ block = Macroblocks /\ loop' \in {"token", "emit"}
  BY DEF EndTokenPass
<1>2. loop' = "token" => sideInfo' = {}
  BY <1>1 DEF EndTokenPass, ResetSideInfo, PassesInv, TokenInv
<1>3. loop' = "emit" =>
        /\ tokens' = All /\ counted' = All /\ sideInfo' = All /\ filterStats' = All
        /\ config.target = "size" => coeffs' = counted'
        /\ overflow' => headerBits' = 0
  BY <1>1 DEF EndTokenPass, MustStartOver, PassesInv, PassesType, TokenInv, All
<1>4. All' = All
  BY DEF All, FirstOfPass
<1>5. headerBits' \in Nat
  BY DEF EndTokenPass, StartOver, PassesInv, PassesType
<1> QED
  BY <1>1, <1>2, <1>3, <1>4, <1>5
  DEF EndTokenPass, PassesInv, PassesType, FreshInv, StatInv, CodeInv, TokenInv,
      OnePassIsCoded, Places, StatPlaces, TokenPlaces, Ends

LEMMA EmitTokensStep == PassesInv /\ EmitTokens => PassesInv'
<1> SUFFICES ASSUME PassesInv, EmitTokens PROVE PassesInv'
  OBVIOUS
<1>1. loop = "emit" /\ config' = config /\ config.tokens
  BY DEF EmitTokens, PassesInv, FreshInv, TokenPlaces
<1>2. coeffs' = All
  BY <1>1 DEF EmitTokens, PassesInv, TokenInv
<1>3. coded' = CodedWith(All, <<coeffs', skipProba'>>)
  BY <1>1 DEF EmitTokens, PassesInv, TokenInv
<1>4. StreamIsOfThePass'
  BY <1>1, <1>3 DEF EmitTokens, StreamIsOfThePass, PassesInv, TokenInv, StatInv, All,
                    FirstOfPass, CodedWith, infos, search
<1>5. ProbasAreOfThePass'
  BY <1>1, <1>2 DEF EmitTokens, ProbasAreOfThePass, PassesInv, FreshInv, TokenPlaces, All,
                    FirstOfPass
<1> QED
  BY <1>1, <1>4, <1>5
  DEF EmitTokens, PassesInv, PassesType, FreshInv, StatInv, CodeInv, TokenInv,
      OnePassIsCoded, Places, StatPlaces, TokenPlaces, Ends, search

LEMMA PassesStutter == PassesInv /\ UNCHANGED passVars => PassesInv'
<1> SUFFICES ASSUME PassesInv, UNCHANGED passVars PROVE PassesInv'
  OBVIOUS
<1> USE DEF passVars, search, probas, infos
<1>1. All' = All /\ Some' = Some /\ FirstOfPass(block)' = FirstOfPass(block)
      /\ StatBlocks' = StatBlocks
  BY DEF All, Some, FirstOfPass, StatBlocks
<1>2. OnePassIsCoded'
  BY DEF PassesInv, OnePassIsCoded, StreamIsOfThePass, ProbasAreOfThePass, StatBlocks,
         FirstOfPass, CodedWith
<1>3. CodeInv'
  BY DEF PassesInv, CodeInv, FirstOfPass, CodedWith
<1> QED
  BY <1>1, <1>2, <1>3 DEF PassesInv, PassesType, FreshInv, StatInv, StatsAreOfThePass, TokenInv

\* What the loops of the encoder leave when they succeed is of one pass, for
\* every size of picture and number of passes, and however often they start
\* over, while the other thread does what it may.
THEOREM OnePassHolds == EncoderSpec => []OnePassIsCoded
<1>1. EncoderInit => PassesInv
  BY PassesInitInv DEF EncoderInit
<1>2. PassesInv /\ [EncoderNext]_encoderVars => PassesInv'
  <2> SUFFICES ASSUME PassesInv, [EncoderNext]_encoderVars PROVE PassesInv'
    OBVIOUS
  <2>1. CASE BeginLoop
    BY <2>1, BeginKeepsInv
  <2>2. CASE StatLoop
    BY <2>2, StatPassBegins, StatBlockStep, UnsizedStep, StatPassEnds, StatLoopEndsStep
    DEF StatLoop
  <2>3. CASE CodingLoop
    BY <2>3, BeginCodingStep, CodeBlockStep, CodingEndsStep DEF CodingLoop
  <2>4. CASE TokenLoop
    BY <2>4, TokenPassBegins, TokenBlockStep, TokenPassEnds, EmitTokensStep DEF TokenLoop
  <2>5. CASE UNCHANGED passVars
    BY <2>5, PassesStutter
  <2> QED
    BY <2>1, <2>2, <2>3, <2>4, <2>5, PassesStep DEF PassesNext
<1>3. PassesInv => OnePassIsCoded
  BY DEF PassesInv
<1> QED
  BY <1>1, <1>2, <1>3, PTL DEF EncoderSpec
=============================================================================
