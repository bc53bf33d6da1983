------------------------- MODULE RowPipeline_proofs -------------------------
(***************************************************************************)
(* The two threads of RowPipeline never work on the same data, for every   *)
(* frame, cropping and schedule: the first invariant ties the program      *)
(* counter of the main thread to the job in flight, which holds the        *)
(* buffers of the worker only after a Sync().  And each line delivered is  *)
(* the final one: the second invariant says what a row finds in the cache  *)
(* and what it leaves there for the next, and how many lines are delivered *)
(* by then, from which the contract of the hooks (FrameOutput) follows.    *)
(***************************************************************************)
EXTENDS RowPipeline, TLAPS

\* The main thread is inside the loop over the rows.
InLoop == pc \in {"parse", "process", "launch", "finish", "suspended"}

\* A row being parsed or finished is within the loop's bound, in memory.
LoopInv ==
  /\ InLoop => mbY < RowBound /\ mem
  /\ pc = "frameSync" => mem
  /\ finPc # "idle" => mem
  /\ hooks = "closed" => pc \in {"end", "free", "done"}

\* A job of the worker is in flight exactly while FinishRow() runs in it; the
\* main thread runs FinishRow() itself exactly when it says so.
JobInv ==
  /\ cfg.mt = 2 => job = (IF finPc = "idle" THEN {} ELSE {RowJob})
  /\ cfg.mt = 0 => job = {} /\ ((finPc # "idle") <=> (pc = "finish"))
  /\ pc = "finish" => cfg.mt = 0
  /\ pc \in {"process", "launch"} => cfg.mt = 2
  /\ pc \in {"enter", "thread", "alloc", "launch", "suspended", "end", "free", "done"}
       => finPc = "idle"

\* The two threads hold different buffers.
BufferInv ==
  /\ mem /\ cfg.mt = 2 => decMb # ctx.mb /\ decFi # ctx.fi
  /\ pc \in {"enter", "thread", "alloc"} => decMb = 1 /\ decFi = 1

IInv == TypeOK /\ LoopInv /\ JobInv /\ BufferInv

-----------------------------------------------------------------------------
(* The constants of a frame                                                *)

\* What ConfigsAssumption says of the frame being decoded.
LEMMA ConfigFacts ==
  ASSUME cfg \in Configs
  PROVE  /\ cfg.mt \in {0, 2}
         /\ cfg.filter \in 0..2
         /\ cfg.mbH \in Nat \ {0}
         /\ cfg.cropTop \in Nat
         /\ cfg.cropBottom \in Nat
         /\ cfg.cropTop < cfg.cropBottom
         /\ cfg.cropBottom <= 16 * cfg.mbH
         /\ cfg.alpha \in BOOLEAN /\ cfg.incremental \in BOOLEAN
  BY ConfigsAssumption

\* kFilterExtraRows holds back at most 8 lines (frame_dec.c:335).
LEMMA ExtraRowsType == ASSUME cfg \in Configs PROVE ExtraRows \in 0..8
  BY ConfigFacts DEF ExtraRows

\* InitThreadContext() asks for one cache, or up to three with a worker.
LEMMA NumCachesType == ASSUME cfg \in Configs PROVE NumCaches \in 1..3
  BY ConfigFacts DEF NumCaches

\* The cache index stays within the caches.
LEMMA NextCacheType ==
  ASSUME cfg \in Configs, NEW id \in 0..(NumCaches - 1)
  PROVE  NextCache(id) \in 0..(NumCaches - 1)
<1>1. NumCaches \in 1..3
  BY NumCachesType
<1>2. CASE NumCaches = 1
  BY <1>2 DEF NextCache
<1>3. CASE NumCaches = 2
  BY <1>3 DEF NextCache
<1>4. CASE NumCaches = 3
  BY <1>4 DEF NextCache
<1> QED
  BY <1>1, <1>2, <1>3, <1>4

\* There is at least one row to decode, and none below the picture.
LEMMA RowBoundType == ASSUME cfg \in Configs PROVE RowBound \in 1..cfg.mbH
<1> DEFINE need == (cfg.cropBottom + 15 + ExtraRows) \div 16
<1>1. need \in Nat /\ need >= 1
  BY ConfigFacts, ExtraRowsType
<1>2. BrMbY = Least(need, cfg.mbH)
  BY DEF BrMbY
<1> HIDE DEF need
<1>3. BrMbY \in 1..cfg.mbH
  BY <1>1, <1>2, ConfigFacts DEF Least
<1> QED
  BY <1>3, ConfigFacts DEF RowBound

\* The lines FinishRow() asks alpha for are in the picture.
LEMMA YEndType ==
  ASSUME cfg \in Configs, ctx.mbY \in Nat, NeedAlpha
  PROVE  YEnd \in 0..cfg.cropBottom
<1>1. ExtraRows \in 0..8
  BY ExtraRowsType
<1>2. YStart \in Nat
  BY <1>1 DEF YStart, FirstRow
<1>3. YEnd \in Int /\ YEnd <= cfg.cropBottom
  BY <1>1, ConfigFacts DEF YEnd, Least
<1> QED
  BY <1>2, <1>3, ConfigFacts DEF NeedAlpha

-----------------------------------------------------------------------------
(* The steps several actions share                                         *)

\* The frame does not change, so neither do the sizes computed from it.
LEMMA ConstantsPrimed ==
  ASSUME cfg' = cfg
  PROVE  RowBound' = RowBound /\ NumCaches' = NumCaches
  BY DEF RowBound, BrMbY, NumCaches, ExtraRows

\* The test in VP8SetError() leaves each thread an error to write, or none.
LEMMA SetErrorType ==
  ASSUME TypeOK, NEW t \in {"main", "finish"}, NEW e \in Errors, SetError(t, e)
  PROVE  pending' \in [{"main", "finish"} -> Errors]
  BY DEF TypeOK, SetError

\* The next turn of the loop keeps the types and the loop's bound.
LEMMA BeginRowType ==
  ASSUME TypeOK, cfg' = cfg, NEW m \in 0..RowBound, NEW mb, NEW fi,
         BeginRow(m, mb, fi)
  PROVE  /\ mbY' \in 0..cfg.mbH
         /\ pc' \in {"parse", "frameSync"}
         /\ pc' = "parse" => mbY' < RowBound
<1>1. RowBound \in 1..cfg.mbH
  BY RowBoundType DEF TypeOK
<1> QED
  BY <1>1, ConfigFacts DEF BeginRow, TypeOK

\* What the end of FinishRow() does, in either thread.
LEMMA FinishReturnsFacts ==
  ASSUME IInv, cfg' = cfg, finPc \in {"put", "failed"}, NEW r \in BOOLEAN,
         FinishReturns(r)
  PROVE  /\ finPc' = "idle" /\ cacheId' = cacheId
         /\ decMb' = decMb /\ decFi' = decFi /\ ctx' = ctx
         /\ mbY' \in 0..cfg.mbH
         /\ pending' \in [{"main", "finish"} -> Errors]
         /\ ok' \in BOOLEAN
         /\ cfg.mt = 2 => job' = {} /\ pc' = pc /\ mbY' = mbY
         /\ cfg.mt = 0 => /\ job' = job /\ pc' \in {"parse", "frameSync", "exit"}
                          /\ pc' = "parse" => mbY' < RowBound
<1>1. CASE cfg.mt = 2
  BY <1>1 DEF FinishReturns, Wk!Complete, IInv, TypeOK, buffers
<1>2. CASE cfg.mt = 0
  <2>1. finPc' = "idle" /\ UNCHANGED <<job, decMb, decFi, ctx, cacheId>>
    BY <1>2 DEF FinishReturns, worker
  <2>2. mbY \in 0..cfg.mbH /\ mbY < RowBound /\ cfg \in Configs /\ mbY + 1 \in 0..RowBound
    BY <1>2, RowBoundType, ConfigFacts DEF IInv, TypeOK, LoopInv, JobInv, InLoop
  <2>3. CASE r /\ BeginRow(mbY + 1, decMb, decFi) /\ UNCHANGED <<ok, pending>>
    <3>1. /\ mbY' \in 0..cfg.mbH
          /\ pc' \in {"parse", "frameSync"}
          /\ pc' = "parse" => mbY' < RowBound
      BY <2>2, <2>3, BeginRowType DEF IInv
    <3> QED
      BY <1>2, <2>1, <2>3, <3>1 DEF IInv, TypeOK
  <2>4. CASE ~r /\ Stop("USER_ABORT") /\ UNCHANGED <<mbY, mbBuf, fiBuf>>
    <3>1. pending' \in [{"main", "finish"} -> Errors]
      BY <2>4, SetErrorType DEF Stop, IInv, TypeOK, Errors
    <3>2. pc' = "exit" /\ mbY' = mbY
      BY <2>4 DEF Stop
    <3>3. ok' \in BOOLEAN
      BY <2>4 DEF Stop
    <3> QED
      BY <1>2, <2>1, <2>2, <3>1, <3>2, <3>3
  <2> QED
    BY <1>2, <2>3, <2>4 DEF FinishReturns
<1> QED
  BY <1>1, <1>2, ConfigFacts DEF IInv, TypeOK

-----------------------------------------------------------------------------
(* The inductive invariant                                                 *)

\* The invariant holds before VP8EnterCritical().
LEMMA InitIInv == Init => IInv
<1> SUFFICES ASSUME Init PROVE IInv
  OBVIOUS
<1>1. NumCaches \in 1..3 /\ cfg.mbH \in Nat /\ cfg.cropBottom \in Nat
  BY NumCachesType, ConfigFacts DEF Init
<1>2. TypeOK
  <2>1. pending \in [{"main", "finish"} -> Errors]
    BY DEF Init, Errors
  <2>2. ctx \in [id : 0..(NumCaches - 1), mbY : 0..cfg.mbH, filterRow : BOOLEAN,
                 mb : {1, 2}, fi : {1, 2}]
    BY <1>1 DEF Init
  <2>3. mem \in BOOLEAN /\ ok \in BOOLEAN
    BY DEF Init
  <2> QED
    BY <1>1, <2>1, <2>2, <2>3 DEF Init, TypeOK, Errors
<1>3. LoopInv /\ JobInv /\ BufferInv
  BY DEF Init, LoopInv, InLoop, JobInv, BufferInv, Wk!Init
<1> QED
  BY <1>2, <1>3 DEF IInv

\* The steps before the loop over the rows.
LEMMA SetupIInv ==
  IInv /\ (EnterCritical \/ InitThreadContext \/ AllocateMemory) => IInv'
<1> SUFFICES ASSUME IInv, EnterCritical \/ InitThreadContext \/ AllocateMemory
             PROVE  IInv'
  OBVIOUS
<1>0. cfg' = cfg /\ cfg \in Configs
  BY DEF EnterCritical, InitThreadContext, AllocateMemory, IInv, TypeOK
<1>1. RowBound' = RowBound /\ NumCaches' = NumCaches
  BY <1>0, ConstantsPrimed
<1> USE <1>0, <1>1, ConfigFacts DEF IInv, LoopInv, InLoop, JobInv, BufferInv
<1>2. CASE EnterCritical
  <2>1. pending' \in [{"main", "finish"} -> Errors]
    BY <1>2, SetErrorType DEF EnterCritical, TypeOK, Errors
  <2>2. TypeOK'
    BY <1>2, <2>1 DEF EnterCritical, TypeOK, buffers, samples
  <2> QED
    BY <1>2, <2>2 DEF EnterCritical, TypeOK, buffers, worker
<1>3. CASE InitThreadContext
  <2>1. pending' \in [{"main", "finish"} -> Errors]
    BY <1>3, SetErrorType DEF InitThreadContext, TypeOK, Errors
  <2>2. job' = job
    BY <1>3 DEF InitThreadContext, Wk!Start, worker
  <2>3. TypeOK'
    BY <1>3, <2>1 DEF InitThreadContext, TypeOK, buffers, samples
  <2> QED
    BY <1>3, <2>2, <2>3 DEF InitThreadContext, TypeOK, buffers
<1>4. CASE AllocateMemory
  <2>0. /\ job' = job /\ finPc' = finPc /\ decMb' = decMb /\ decFi' = decFi
        /\ cacheId' = cacheId /\ alphaRow' = alphaRow /\ hooks' = hooks
        /\ status' = status /\ pc = "alloc"
    BY <1>4 DEF AllocateMemory, worker
  <2>1. pending' \in [{"main", "finish"} -> Errors]
    BY <1>4, SetErrorType DEF AllocateMemory, TypeOK, Errors
  <2>2. CASE /\ mem' = TRUE
             /\ ctx' = [ctx EXCEPT !.mb = SecondBuffer(cfg.mt),
                                   !.fi = SecondBuffer(cfg.mt)]
             /\ BeginRow(0, decMb, decFi)
             /\ UNCHANGED <<ok, pending>>
    <3>1. /\ mbY' \in 0..cfg.mbH
          /\ pc' \in {"parse", "frameSync"}
          /\ pc' = "parse" => mbY' < RowBound
      BY <2>2, BeginRowType, RowBoundType
    <3>2. /\ ctx'.mb = SecondBuffer(cfg.mt) /\ ctx'.fi = SecondBuffer(cfg.mt)
          /\ ctx' \in [id : 0..(NumCaches - 1), mbY : 0..cfg.mbH,
                       filterRow : BOOLEAN, mb : {1, 2}, fi : {1, 2}]
      BY <2>2 DEF TypeOK, SecondBuffer
    <3>3. decMb = 1 /\ decFi = 1
      BY <2>0
    <3> QED
      BY <2>0, <2>1, <2>2, <3>1, <3>2, <3>3 DEF TypeOK, SecondBuffer
  <2>3. CASE /\ ok' = FALSE /\ pc' = "exit"
             /\ UNCHANGED <<mem, ctx, mbY>>
    BY <2>0, <2>1, <2>3 DEF TypeOK
  <2> QED
    BY <1>4, <2>2, <2>3 DEF AllocateMemory
<1> QED
  BY <1>2, <1>3, <1>4

\* The steps of the loop over the rows, but for the launch.
LEMMA LoopIInv ==
  IInv /\ (RowParsed \/ RowCorrupted \/ Suspend \/ Resume \/ Delete \/ SyncRow)
    => IInv'
<1> SUFFICES ASSUME IInv,
                    RowParsed \/ RowCorrupted \/ Suspend \/ Resume \/ Delete \/ SyncRow
             PROVE  IInv'
  OBVIOUS
<1>0. cfg' = cfg /\ cfg \in Configs
  BY DEF RowParsed, RowCorrupted, Suspend, Resume, Delete, SyncRow, IInv, TypeOK
<1>1. RowBound' = RowBound /\ NumCaches' = NumCaches
  BY <1>0, ConstantsPrimed
<1> USE <1>0, <1>1, ConfigFacts DEF IInv, LoopInv, InLoop, JobInv, BufferInv
<1>2. CASE RowParsed
  <2>1. /\ pc = "parse" /\ mem' = mem /\ job' = job /\ decMb' = decMb
        /\ decFi' = decFi /\ mbY' = mbY /\ cacheId' = cacheId /\ hooks' = hooks
        /\ UNCHANGED <<alphaRow, status, pending, ok>>
    BY <1>2 DEF RowParsed, worker, outcome, samples
  <2>2. CASE cfg.mt = 2 /\ pc' = "process" /\ UNCHANGED <<ctx, finPc>>
    BY <2>1, <2>2 DEF TypeOK
  <2>3. CASE cfg.mt = 0 /\ pc' = "finish" /\ ctx' = RowContext /\ finPc' = "recon"
    <3>1. FilteredRow(mbY) \in BOOLEAN
      BY DEF FilteredRow
    <3>2. ctx' \in [id : 0..(NumCaches - 1), mbY : 0..cfg.mbH,
                    filterRow : BOOLEAN, mb : {1, 2}, fi : {1, 2}]
      BY <2>3, <3>1 DEF RowContext, TypeOK
    <3> QED
      BY <2>1, <2>3, <3>2 DEF TypeOK
  <2> QED
    BY <1>2, <2>2, <2>3 DEF RowParsed
<1>3. CASE RowCorrupted
  <2>1. pending' \in [{"main", "finish"} -> Errors]
    BY <1>3, SetErrorType DEF RowCorrupted, Stop, TypeOK, Errors
  <2>2. ok' \in BOOLEAN /\ pc' = "exit" /\ pc = "parse"
    BY <1>3 DEF RowCorrupted, Stop
  <2>3. TypeOK'
    BY <1>3, <2>1, <2>2 DEF RowCorrupted, TypeOK, buffers, samples
  <2> QED
    BY <1>3, <2>2, <2>3 DEF RowCorrupted, TypeOK, buffers, worker
<1>4. CASE Suspend
  <2>1. ok' \in BOOLEAN /\ pc' \in {"exit", "suspended"} /\ pc = "parse"
    BY <1>4 DEF Suspend, TypeOK
  <2>2. job' = job /\ (cfg.mt = 2 => job = {})
    BY <1>4 DEF Suspend, Wk!Sync, worker
  <2>3. TypeOK'
    BY <1>4, <2>1 DEF Suspend, TypeOK, buffers, samples
  <2>4. finPc = "idle" /\ finPc' = finPc
    BY <1>4, <2>1, <2>2 DEF Suspend, TypeOK
  <2> QED
    BY <1>4, <2>1, <2>2, <2>3, <2>4 DEF Suspend, TypeOK, buffers
<1>5. CASE Resume
  <2>1. TypeOK'
    BY <1>5 DEF Resume, TypeOK, buffers, samples, outcome
  <2> QED
    BY <1>5, <2>1 DEF Resume, TypeOK, buffers, outcome, worker
<1>6. CASE Delete
  <2>1. ok' \in BOOLEAN
    BY <1>6 DEF Delete
  <2>2. TypeOK'
    BY <1>6, <2>1 DEF Delete, TypeOK, buffers, samples
  <2> QED
    BY <1>6, <2>2 DEF Delete, TypeOK, buffers, worker
<1>7. CASE SyncRow
  <2>1. pending' \in [{"main", "finish"} -> Errors]
    BY <1>7, SetErrorType DEF SyncRow, Stop, TypeOK, Errors
  <2>2. ok' \in BOOLEAN /\ pc' \in {"exit", "launch"} /\ pc = "process"
    BY <1>7 DEF SyncRow, Stop, TypeOK
  <2>3. job' = job /\ job = {}
    BY <1>7 DEF SyncRow, Wk!Sync
  <2>4. cfg.mt = 2 => finPc = "idle"
    BY <2>3
  <2>5. TypeOK'
    BY <1>7, <2>1, <2>2 DEF SyncRow, TypeOK, buffers, samples
  <2>6. cfg.mt = 0 => finPc = "idle"
    BY <2>2
  <2> QED
    BY <1>7, <2>2, <2>3, <2>4, <2>5, <2>6 DEF SyncRow, TypeOK, buffers
<1> QED
  BY <1>2, <1>3, <1>4, <1>5, <1>6, <1>7

\* The launch swaps the buffers while the worker is idle.
LEMMA LaunchIInv == IInv /\ LaunchRow => IInv'
<1> SUFFICES ASSUME IInv, LaunchRow PROVE IInv'
  OBVIOUS
<1>0. cfg' = cfg /\ cfg \in Configs
  BY DEF LaunchRow, IInv, TypeOK
<1>1. RowBound' = RowBound /\ NumCaches' = NumCaches
  BY <1>0, ConstantsPrimed
<1> USE <1>0, <1>1, ConfigFacts DEF IInv, LoopInv, InLoop, JobInv, BufferInv
<1>2. /\ pc = "launch" /\ mem /\ mem' = mem /\ finPc' = "recon"
      /\ UNCHANGED <<alphaRow, status, pending, ok, hooks>>
  BY DEF LaunchRow, outcome, samples
<1>3. job' = {RowJob}
  BY DEF LaunchRow, Wk!Accept
<1>4. cfg.mt = 2
  BY <1>2
<1>5. mbY + 1 \in 0..RowBound
  BY <1>2, RowBoundType DEF TypeOK
<1>6. /\ mbY' \in 0..cfg.mbH
      /\ pc' \in {"parse", "frameSync"}
      /\ pc' = "parse" => mbY' < RowBound
  BY <1>5, BeginRowType DEF LaunchRow
<1>7. FilteredRow(mbY) \in BOOLEAN
  BY DEF FilteredRow
<1>8. /\ ctx' \in [id : 0..(NumCaches - 1), mbY : 0..cfg.mbH,
                   filterRow : BOOLEAN, mb : {1, 2}, fi : {1, 2}]
      /\ ctx'.mb = decMb
      /\ ctx'.fi = IF FilteredRow(mbY) THEN decFi ELSE ctx.fi
  BY <1>7 DEF LaunchRow, RowContext, TypeOK
<1>9. /\ decMb' = ctx.mb
      /\ decFi' = IF FilteredRow(mbY) THEN ctx.fi ELSE decFi
  BY DEF LaunchRow
<1>10. cacheId' \in 0..(NumCaches - 1)
  BY NextCacheType DEF LaunchRow, TypeOK
<1>11. TypeOK'
  BY <1>2, <1>6, <1>8, <1>9, <1>10 DEF TypeOK
<1> QED
  BY <1>2, <1>3, <1>4, <1>6, <1>8, <1>9, <1>11

\* The steps after the loop.
LEMMA ExitIInv ==
  IInv /\ (FrameSync \/ ExitCritical \/ EndWorker \/ FreeMemory \/ WriteError("main")
             \/ WriteError("finish"))
    => IInv'
<1> SUFFICES ASSUME IInv,
                    \/ FrameSync \/ ExitCritical \/ EndWorker \/ FreeMemory
                    \/ WriteError("main") \/ WriteError("finish")
             PROVE  IInv'
  OBVIOUS
<1>0. cfg' = cfg /\ cfg \in Configs
  BY DEF FrameSync, ExitCritical, EndWorker, FreeMemory, WriteError, IInv, TypeOK
<1>1. RowBound' = RowBound /\ NumCaches' = NumCaches
  BY <1>0, ConstantsPrimed
<1> USE <1>0, <1>1, ConfigFacts DEF IInv, LoopInv, InLoop, JobInv, BufferInv
<1>2. CASE FrameSync
  <2>1. ok' \in BOOLEAN
    BY <1>2 DEF FrameSync, TypeOK
  <2>2. job' = job
    BY <1>2 DEF FrameSync, Wk!Sync, worker
  <2>3. TypeOK'
    BY <1>2, <2>1 DEF FrameSync, TypeOK, buffers, samples
  <2> QED
    BY <1>2, <2>2, <2>3 DEF FrameSync, TypeOK, buffers
<1>3. CASE ExitCritical
  <2>1. ok' \in BOOLEAN
    BY <1>3 DEF ExitCritical, TypeOK
  <2>2. job' = job /\ (cfg.mt = 2 => job = {})
    BY <1>3 DEF ExitCritical, Wk!Sync, worker
  <2>3. finPc = "idle"
    BY <1>3, <2>2 DEF ExitCritical
  <2>4. TypeOK'
    BY <1>3, <2>1 DEF ExitCritical, TypeOK, buffers, samples
  <2> QED
    BY <1>3, <2>2, <2>3, <2>4 DEF ExitCritical, TypeOK, buffers
<1>4. CASE EndWorker
  <2>1. job' = job
    BY <1>4 DEF EndWorker, Wk!Stop, worker
  <2>2. TypeOK'
    BY <1>4 DEF EndWorker, TypeOK, buffers, samples, outcome
  <2> QED
    BY <1>4, <2>1, <2>2 DEF EndWorker, TypeOK, buffers, outcome
<1>5. CASE FreeMemory
  <2>1. mem' \in BOOLEAN /\ ~mem' /\ job' = job
    BY <1>5 DEF FreeMemory, Wk!Reclaim
  <2>2. TypeOK'
    BY <1>5, <2>1 DEF FreeMemory, TypeOK, buffers, samples
  <2> QED
    BY <1>5, <2>1, <2>2 DEF FreeMemory, TypeOK, buffers
<1>6. ASSUME NEW t \in {"main", "finish"}, WriteError(t) PROVE IInv'
  <2>1. /\ pending' \in [{"main", "finish"} -> Errors]
        /\ status' \in (Errors \ {"none"}) \cup {"OK"}
    BY <1>6 DEF WriteError, TypeOK, Errors
  <2>2. TypeOK'
    BY <1>6, <2>1 DEF WriteError, TypeOK, buffers, samples
  <2> QED
    BY <1>6, <2>2 DEF WriteError, TypeOK, buffers, worker
<1> QED
  BY <1>2, <1>3, <1>4, <1>5, <1>6

\* FinishRow().
LEMMA FinishIInv ==
  IInv /\ (Reconstruct \/ Filter \/ AlphaFails \/ FinishFailed \/ PutRows) => IInv'
<1> SUFFICES ASSUME IInv,
                    Reconstruct \/ Filter \/ AlphaFails \/ FinishFailed \/ PutRows
             PROVE  IInv'
  OBVIOUS
<1>0. cfg' = cfg /\ cfg \in Configs /\ hooks' = hooks /\ status' = status /\ mem' = mem
  BY DEF Reconstruct, Filter, AlphaFails, FinishFailed, PutRows, IInv, TypeOK, outcome
<1>1. RowBound' = RowBound /\ NumCaches' = NumCaches
  BY <1>0, ConstantsPrimed
<1>2. CASE Reconstruct \/ Filter
  <2>1. /\ finPc \in {"recon", "filter"} /\ finPc' \in {"filter", "put"}
        /\ UNCHANGED <<pc, mbY, cacheId, decMb, decFi, ctx, alphaRow, pending, ok, job>>
    BY <1>2 DEF Reconstruct, Filter, buffers, outcome, worker
  <2>2. TypeOK'
    BY <1>0, <1>1, <2>1 DEF IInv, TypeOK
  <2> QED
    BY <1>0, <1>1, <2>1, <2>2 DEF IInv, LoopInv, InLoop, JobInv, BufferInv
<1>3. CASE AlphaFails
  <2>1. pending' \in [{"main", "finish"} -> Errors]
    BY <1>3, SetErrorType DEF AlphaFails, IInv, TypeOK, Errors
  <2>2. /\ finPc = "put" /\ finPc' = "failed"
        /\ UNCHANGED <<pc, mbY, cacheId, decMb, decFi, ctx, alphaRow, ok, job>>
    BY <1>3 DEF AlphaFails, buffers, samples, worker
  <2>3. TypeOK'
    BY <1>0, <1>1, <2>1, <2>2 DEF IInv, TypeOK
  <2> QED
    BY <1>0, <1>1, <2>2, <2>3 DEF IInv, LoopInv, InLoop, JobInv, BufferInv
<1>4. ASSUME NEW r \in BOOLEAN, FinishReturns(r), finPc \in {"put", "failed"},
             alphaRow' \in 0..cfg.cropBottom
      PROVE  IInv'
  <2>1. /\ finPc' = "idle" /\ cacheId' = cacheId
        /\ decMb' = decMb /\ decFi' = decFi /\ ctx' = ctx
        /\ mbY' \in 0..cfg.mbH
        /\ pending' \in [{"main", "finish"} -> Errors]
        /\ ok' \in BOOLEAN
        /\ cfg.mt = 2 => job' = {} /\ pc' = pc /\ mbY' = mbY
        /\ cfg.mt = 0 => /\ job' = job /\ pc' \in {"parse", "frameSync", "exit"}
                         /\ pc' = "parse" => mbY' < RowBound
    BY <1>0, <1>4, FinishReturnsFacts
  <2>2. TypeOK'
    BY <1>0, <1>1, <1>4, <2>1, ConfigFacts DEF IInv, TypeOK
  <2>3. mem /\ cfg.mt \in {0, 2}
    BY <1>0, <1>4, ConfigFacts DEF IInv, LoopInv
  <2>4. CASE cfg.mt = 2
    BY <1>0, <1>1, <2>1, <2>2, <2>3, <2>4
       DEF IInv, LoopInv, InLoop, JobInv, BufferInv
  <2>5. CASE cfg.mt = 0
    <3>1. pc = "finish"
      BY <1>4, <2>5 DEF IInv, JobInv
    <3>2. hooks # "closed" /\ job = {}
      BY <2>5, <3>1 DEF IInv, LoopInv, JobInv
    <3> QED
      BY <1>0, <1>1, <2>1, <2>2, <2>3, <2>5, <3>1, <3>2
         DEF IInv, LoopInv, InLoop, JobInv, BufferInv
  <2> QED
    BY <2>3, <2>4, <2>5
<1>5. CASE FinishFailed
  <2>1. FinishReturns(FALSE) /\ finPc = "failed" /\ alphaRow' = alphaRow
    BY <1>5 DEF FinishFailed, samples
  <2> QED
    BY <1>4, <2>1 DEF IInv, TypeOK
<1>6. CASE PutRows
  <2>1. PICK r \in BOOLEAN : FinishReturns(r)
    BY <1>6 DEF PutRows
  <2>2. alphaRow' \in 0..cfg.cropBottom
    <3>1. CASE NeedAlpha /\ ~AlphaDecoded
      <4>1. YEnd \in 0..cfg.cropBottom
        BY <1>0, <3>1, YEndType, ConfigFacts DEF IInv, TypeOK
      <4> QED
        BY <1>0, <1>6, <3>1, <4>1, ConfigFacts DEF PutRows, AlphaTargets
    <3>2. CASE ~(NeedAlpha /\ ~AlphaDecoded)
      BY <1>6, <3>2 DEF PutRows, IInv, TypeOK
    <3> QED
      BY <3>1, <3>2
  <2>3. finPc = "put"
    BY <1>6 DEF PutRows
  <2> QED
    BY <1>4, <2>1, <2>2, <2>3
<1> QED
  BY <1>2, <1>3, <1>5, <1>6

\* Nothing of the invariant depends on what a stuttering step changes.
LEMMA StutterIInv == IInv /\ UNCHANGED vars => IInv'
<1> SUFFICES ASSUME IInv, UNCHANGED vars PROVE IInv'
  OBVIOUS
<1>1. RowBound' = RowBound /\ NumCaches' = NumCaches
  BY ConstantsPrimed DEF vars
<1> QED
  BY <1>1 DEF vars, buffers, samples, outcome, worker, IInv, TypeOK, LoopInv,
              InLoop, JobInv, BufferInv

\* The invariant holds of every decoding: the property theorems follow from it.
THEOREM Inductive == Spec => []IInv
<1>1. IInv /\ [Next]_vars => IInv'
  BY SetupIInv, LoopIInv, LaunchIInv, ExitIInv, FinishIInv, StutterIInv
     DEF Next, MainStep, FinishStep, ClientStep, Done
<1> QED
  BY InitIInv, <1>1, PTL DEF Spec

\* Every variable keeps to its type; the cache index stays within the caches
\* and the alpha rows within the picture.
THEOREM TypeCorrect == Spec => []TypeOK
<1>1. IInv => TypeOK
  BY DEF IInv
<1> QED
  BY <1>1, Inductive, PTL

\* For every frame, cropping and schedule, parsing a row and finishing the
\* previous one touch different buffers.
THEOREM RaceFree == Spec => []NoDataRace
<1>1. IInv => NoDataRace
  <2> SUFFICES ASSUME IInv, finPc # "idle" PROVE NoDataRace
    BY DEF NoDataRace
  <2>1. mem /\ pc # "launch"
    BY DEF IInv, LoopInv, JobInv
  <2>2. pc = "parse" => cfg.mt = 2
    BY ConfigFacts DEF IInv, TypeOK, JobInv
  <2> QED
    BY <2>1, <2>2 DEF IInv, BufferInv, NoDataRace
<1> QED
  BY <1>1, Inductive, PTL

\* The worker is idle whenever the decoder has returned to its caller, and
\* when teardown() has been called.
THEOREM WorkerIdle == Spec => []IdleOutsideDecoding
<1>1. IInv => IdleOutsideDecoding
  BY ConfigFacts DEF IInv, TypeOK, LoopInv, JobInv, IdleOutsideDecoding
<1> QED
  BY <1>1, Inductive, PTL
-----------------------------------------------------------------------------
(* The lines delivered.  Each row finds in the cache what the row before   *)
(* it left there, and it leaves as much to the next one.                   *)

\* The main thread has come out of the loop and nothing failed.
Finished == pc = "frameSync" \/ (pc \in {"exit", "end", "free"} /\ ok)

\* The row in flight is the last one the main thread processed.  A failure is
\* never followed by another row.
LinkInv ==
  /\ cfg.mt = 0 => ~err
  /\ pc = "launch" => ~err
  /\ finPc # "idle" => ~err /\ ctx.filterRow = FilteredRow(ctx.mbY)
  /\ finPc # "idle" /\ cfg.mt = 0 => ctx.mbY = mbY /\ ctx.id = cacheId
  /\ finPc # "idle" /\ cfg.mt = 2 => mbY = ctx.mbY + 1 /\ cacheId = NextCache(ctx.id)

\* A row is finished from its own data and strengths.
DataInv ==
  /\ mbBuf \in [{1, 2} -> Int] /\ fiBuf \in [{1, 2} -> Int]
  /\ pc \in {"process", "launch"} =>
       mbBuf[decMb] = mbY /\ (cfg.filter > 0 => fiBuf[decFi] = mbY)
  /\ finPc = "recon" => mbBuf[ctx.mb] = ctx.mbY
  /\ finPc \in {"recon", "filter"} /\ ctx.filterRow => fiBuf[ctx.fi] = ctx.mbY

\* The first line FinishRow() delivers of row m, and the lines delivered before
\* it.
StartOf(m) == 16 * m - (IF m = 0 THEN 0 ELSE ExtraRows)
DoneTo(m) ==
  IF m < BrMbY THEN Most(Least(StartOf(m), cfg.cropBottom) - cfg.cropTop, 0)
               ELSE cfg.cropBottom - cfg.cropTop

\* Row m, to be reconstructed in cache id, finds above it the lines held back
\* of the row before, if they were filtered, and the alpha plane up to it.
AboveReady(m, id) ==
  0 < m /\ m < BrMbY /\ FilteredRow(m - 1) =>
    \A k \in 1..ExtraRows : cache[16 * id - k] = Line(16 * m - k, "own")
AlphaReady(m) ==
  cfg.alpha /\ m < BrMbY => alphaRow \in {cfg.cropBottom, StartOf(m)}

\* The lines of the row in flight, at index i, before and after the filter.
Raw(i) == cache[Base + i] = Line(16 * ctx.mbY + i, "raw")
Own(i) == cache[Base + i] = Line(16 * ctx.mbY + i, "own")
EdgeFiltered == FirstRow \/ FilteredRow(ctx.mbY - 1)
RowReady ==
  /\ ~ctx.filterRow => \A i \in 0..15 : Raw(i)
  /\ ctx.filterRow => \A i \in 0..15 : EdgeFiltered \/ i >= ReachRows => Own(i)
  /\ ~FirstRow /\ ctx.filterRow /\ FilteredRow(ctx.mbY - 1) =>
       \A k \in 1..ExtraRows :
         cache[Base - k] =
           Line(16 * ctx.mbY - k, IF k <= EdgeRows THEN "done" ELSE "own")

CacheInv ==
  /\ mem => DOMAIN cache = (-ExtraRows)..(16 * NumCaches - 1)
  /\ finPc = "recon" => topRow = ctx.mbY - 1
  /\ finPc \in {"filter", "put"} /\ ctx.mbY < cfg.mbH - 1 => topRow = ctx.mbY
  /\ finPc \in {"recon", "filter"} => AboveReady(ctx.mbY, ctx.id)
  /\ finPc = "filter" => \A i \in 0..15 : Raw(i)
  /\ finPc = "put" /\ ctx.mbY < BrMbY => RowReady
  /\ finPc \in {"recon", "filter", "put"} => AlphaReady(ctx.mbY)
  /\ pc \in {"enter", "thread", "alloc"} => topRow = -1 /\ alphaRow = 0
  /\ finPc = "idle" /\ ~err /\ InLoop =>
       topRow = mbY - 1 /\ AboveReady(mbY, cacheId) /\ AlphaReady(mbY)

Deliveries == [at : Nat, rows : Seq([y : Int, stage : {"raw", "own", "done"}])]

OutInv ==
  /\ out \in Seq(Deliveries)
  /\ \A k \in DOMAIN out : \A i \in DOMAIN out[k].rows :
       out[k].rows[i] = Final(cfg.cropTop + out[k].at + i - 1)
  /\ pc \in {"enter", "thread", "alloc"} => out = <<>>
  /\ finPc \in {"recon", "filter", "put"} => Delivered = DoneTo(ctx.mbY)
  /\ finPc = "idle" /\ ~err /\ (InLoop \/ Finished) => Delivered = DoneTo(mbY)

\* The calls of the hooks, and what is returned in the end.
ContractInv ==
  /\ pc = "enter" => hooks = "none"
  /\ pc \in {"thread", "alloc", "frameSync", "exit"} \/ InLoop => hooks = "open"
  /\ pc \in {"end", "free", "done"} => hooks = "closed" \/ (hooks = "refused" /\ ~ok)
  /\ pc # "done" => verdict = "none"
  /\ pc \in {"enter", "thread", "alloc", "frameSync"} \/ InLoop => ok
  /\ pc \in {"enter", "thread", "alloc"} => ~err /\ ~stopped
  /\ pc \in {"end", "free"} /\ ok => ~err
  /\ Finished => mbY = RowBound
  /\ stopped => err \/ (cfg.mt = 0 /\ ~ok /\ pc \in {"exit", "end", "free", "done"})

FrameInv == IInv /\ LinkInv /\ DataInv /\ CacheInv /\ OutInv /\ ContractInv

\* The sizes of the frame: what the filters hold back and reach, and the rows
\* EnterCritical leaves out because no line of the cropping area needs them.
LEMMA Geometry ==
  ASSUME cfg \in Configs
  PROVE  /\ cfg.filter = 0 => ExtraRows = 0 /\ EdgeRows = 0 /\ ReachRows = 0
         /\ cfg.filter = 1 => ExtraRows = 2 /\ EdgeRows = 1 /\ ReachRows = 1
         /\ cfg.filter = 2 => ExtraRows = 8 /\ EdgeRows = 6 /\ ReachRows = 16
         /\ cfg.filter \in {0, 1, 2}
         /\ cfg.mt = 0 => NumCaches = 1
         /\ cfg.mt = 2 => NumCaches \in {2, 3}
         /\ TlMbY \in Nat
         /\ cfg.filter = 2 => TlMbY = 0
         /\ cfg.filter = 1 /\ TlMbY > 0 => cfg.cropTop >= 16 * TlMbY + 2
         /\ BrMbY \in Nat /\ 1 <= BrMbY /\ BrMbY <= RowBound
         /\ RowBound \in Nat /\ RowBound <= cfg.mbH
         /\ BrMbY < cfg.mbH => cfg.cropBottom + ExtraRows <= 16 * BrMbY
         /\ cfg.cropBottom <= 16 * BrMbY
<1>1. /\ cfg.filter = 0 => ExtraRows = 0 /\ EdgeRows = 0 /\ ReachRows = 0
      /\ cfg.filter = 1 => ExtraRows = 2 /\ EdgeRows = 1 /\ ReachRows = 1
      /\ cfg.filter = 2 => ExtraRows = 8 /\ EdgeRows = 6 /\ ReachRows = 16
  BY DEF ExtraRows, EdgeRows, ReachRows
<1>2. cfg.filter \in {0, 1, 2}
  BY ConfigFacts
<1>3. (cfg.mt = 0 => NumCaches = 1) /\ (cfg.mt = 2 => NumCaches \in {2, 3})
  BY DEF NumCaches
<1>4. /\ TlMbY \in Nat
      /\ cfg.filter = 2 => TlMbY = 0
      /\ cfg.filter = 1 /\ TlMbY > 0 => cfg.cropTop >= 16 * TlMbY + 2
  BY <1>1, <1>2, ConfigFacts DEF TlMbY, Most
<1>5. RowBound \in 1..cfg.mbH
  BY RowBoundType
<1>6. /\ BrMbY \in Nat /\ 1 <= BrMbY /\ BrMbY <= cfg.mbH
      /\ BrMbY < cfg.mbH => cfg.cropBottom + ExtraRows <= 16 * BrMbY
      /\ cfg.cropBottom <= 16 * BrMbY
  <2> DEFINE need == (cfg.cropBottom + 15 + ExtraRows) \div 16
  <2>1. ExtraRows \in Nat
    BY <1>1, <1>2
  <2>2. need \in Nat /\ need >= 1 /\ cfg.cropBottom + ExtraRows <= 16 * need
    BY <2>1, ConfigFacts
  <2>3. BrMbY = Least(need, cfg.mbH)
    BY DEF BrMbY
  <2> HIDE DEF need
  <2> QED
    BY <2>1, <2>2, <2>3, ConfigFacts DEF Least
<1>7. BrMbY <= RowBound
  BY <1>6, ConfigFacts DEF RowBound
<1> QED
  BY <1>1, <1>2, <1>3, <1>4, <1>5, <1>6, <1>7, ConfigFacts

\* The frame does not change, so neither does its geometry.
LEMMA GeometryPrimed ==
  ASSUME cfg' = cfg
  PROVE  /\ ExtraRows' = ExtraRows /\ EdgeRows' = EdgeRows
         /\ ReachRows' = ReachRows /\ NumCaches' = NumCaches
         /\ TlMbY' = TlMbY /\ BrMbY' = BrMbY /\ RowBound' = RowBound
  BY DEF ExtraRows, EdgeRows, ReachRows, NumCaches, TlMbY, BrMbY, RowBound

\* The invariant holds before VP8EnterCritical().
LEMMA InitFrameInv == Init => FrameInv
<1> SUFFICES ASSUME Init PROVE FrameInv
  OBVIOUS
<1>1. IInv
  BY InitIInv
<1>2. LinkInv /\ DataInv /\ CacheInv
  BY DEF Init, Wk!Init, Garbage, LinkInv, DataInv, CacheInv, InLoop
<1>3. OutInv
  BY DEF Init, OutInv, InLoop, Finished
<1>4. ContractInv
  BY DEF Init, Wk!Init, ContractInv, InLoop, Finished
<1> QED
  BY <1>1, <1>2, <1>3, <1>4 DEF FrameInv

\* What the invariant says of the lines stays true of a step that leaves them,
\* FinishRow() and the row to decode alone.
LEMMA LinesKept ==
  ASSUME cfg \in Configs, CacheInv, OutInv,
         UNCHANGED <<cfg, finPc, mbY, cacheId, ctx, topRow, cache, alphaRow, out>>,
         mem' => mem,
         finPc = "idle" /\ ~err' /\ InLoop' => ~err /\ InLoop,
         finPc = "idle" /\ ~err' /\ Finished' => ~err /\ (InLoop \/ Finished),
         pc' \in {"enter", "thread", "alloc"} => pc \in {"enter", "thread", "alloc"}
  PROVE  CacheInv' /\ OutInv'
<1>1. /\ ExtraRows' = ExtraRows /\ EdgeRows' = EdgeRows
      /\ ReachRows' = ReachRows /\ NumCaches' = NumCaches
      /\ TlMbY' = TlMbY /\ BrMbY' = BrMbY
  BY GeometryPrimed
<1>2. AboveReady(ctx.mbY, ctx.id)' = AboveReady(ctx.mbY, ctx.id)
  BY <1>1 DEF AboveReady, FilteredRow
<1>3. AboveReady(mbY, cacheId)' = AboveReady(mbY, cacheId)
  BY <1>1 DEF AboveReady, FilteredRow
<1>4. /\ AlphaReady(ctx.mbY)' = AlphaReady(ctx.mbY)
      /\ AlphaReady(mbY)' = AlphaReady(mbY)
  BY <1>1 DEF AlphaReady, StartOf
<1>5. RowReady' = RowReady
  BY <1>1 DEF RowReady, Raw, Own, EdgeFiltered, FirstRow, FilteredRow, Base
<1>6. (\A i \in 0..15 : Raw(i))' <=> \A i \in 0..15 : Raw(i)
  BY <1>1 DEF Raw, Base
<1>7. CacheInv'
  BY <1>1, <1>2, <1>3, <1>4, <1>5, <1>6 DEF CacheInv
<1>8. /\ DoneTo(ctx.mbY)' = DoneTo(ctx.mbY)
      /\ DoneTo(mbY)' = DoneTo(mbY)
      /\ Delivered' = Delivered
  BY <1>1 DEF DoneTo, StartOf, Delivered
<1>9. \A y : Final(y)' = Final(y)
  BY <1>1 DEF Final
<1>10. OutInv'
  BY <1>8, <1>9 DEF OutInv
<1> QED
  BY <1>7, <1>10

\* The steps before the loop over the rows.
LEMMA SetupFrameInv == FrameInv /\ (EnterCritical \/ InitThreadContext) => FrameInv'
<1> SUFFICES ASSUME FrameInv, EnterCritical \/ InitThreadContext PROVE FrameInv'
  OBVIOUS
<1>0. cfg' = cfg /\ cfg \in Configs
  BY DEF EnterCritical, InitThreadContext, FrameInv, IInv, TypeOK
<1>1. IInv'
  BY SetupIInv DEF FrameInv
<1>2. /\ UNCHANGED <<finPc, mbY, cacheId, ctx, topRow, cache, alphaRow, out,
                     decMb, decFi, mbBuf, fiBuf, mem, err, stopped, verdict>>
      /\ pc \in {"enter", "thread"} /\ pc' \in {"thread", "alloc", "exit", "end"}
      /\ pc' \in {"exit", "end"} => ~ok'
      /\ pc' \in {"thread", "alloc"} => ok' = ok
      /\ pc = "enter" => hooks' = (IF pc' = "thread" THEN "open" ELSE "refused")
      /\ pc = "enter" => pc' \in {"thread", "end"}
      /\ pc = "thread" => hooks' = hooks /\ pc' \in {"alloc", "exit"}
  BY DEF EnterCritical, InitThreadContext, Wk!Start, worker, buffers, samples
<1>3. finPc = "idle" /\ cfg.mt \in {0, 2}
  BY <1>0, <1>2, ConfigFacts DEF FrameInv, IInv, JobInv
<1>4. LinkInv'
  BY <1>0, <1>2, <1>3 DEF FrameInv, LinkInv
<1>5. DataInv'
  BY <1>0, <1>2, <1>3 DEF FrameInv, DataInv
<1>6. CacheInv' /\ OutInv'
  BY <1>0, <1>2, LinesKept DEF FrameInv, InLoop, Finished
<1>7. ContractInv'
  BY <1>0, <1>2 DEF FrameInv, ContractInv, InLoop, Finished
<1> QED
  BY <1>1, <1>4, <1>5, <1>6, <1>7 DEF FrameInv

\* The memory is there: the first row has no row above it.
LEMMA AllocateFrameInv == FrameInv /\ AllocateMemory => FrameInv'
<1> SUFFICES ASSUME FrameInv, AllocateMemory PROVE FrameInv'
  OBVIOUS
<1>0. cfg' = cfg /\ cfg \in Configs
  BY DEF AllocateMemory, FrameInv, IInv, TypeOK
<1>1. IInv'
  BY SetupIInv DEF FrameInv
<1>2. /\ UNCHANGED <<finPc, decMb, decFi, cacheId, topRow, alphaRow, out, stopped,
                     hooks, verdict, err>>
      /\ pc = "alloc"
  BY DEF AllocateMemory, worker
<1>3. finPc = "idle" /\ ~err /\ ok /\ topRow = -1 /\ alphaRow = 0 /\ out = <<>>
      /\ hooks = "open" /\ verdict = "none" /\ ~stopped
      /\ mbBuf \in [{1, 2} -> Int] /\ fiBuf \in [{1, 2} -> Int]
  BY <1>2 DEF FrameInv, IInv, JobInv, CacheInv, OutInv, ContractInv, DataInv
<1>4. /\ ExtraRows' = ExtraRows /\ NumCaches' = NumCaches
      /\ TlMbY' = TlMbY /\ BrMbY' = BrMbY /\ RowBound' = RowBound
  BY <1>0, GeometryPrimed
<1>5. CASE /\ ok' = FALSE /\ pc' = "exit"
           /\ UNCHANGED <<mem, ctx, cache, mbY, mbBuf, fiBuf>>
  <2>1. LinkInv' /\ DataInv'
    BY <1>0, <1>2, <1>3, <1>5 DEF FrameInv, LinkInv, DataInv
  <2>2. CacheInv' /\ OutInv'
    BY <1>0, <1>2, <1>5, LinesKept DEF FrameInv, InLoop, Finished
  <2>3. ContractInv'
    BY <1>0, <1>2, <1>3, <1>5 DEF ContractInv, InLoop, Finished
  <2> QED
    BY <1>1, <2>1, <2>2, <2>3 DEF FrameInv
<1>6. CASE /\ mem' = TRUE
           /\ cache' = [r \in (-ExtraRows)..(16 * NumCaches - 1) |->
                          Line(Garbage, "bad")]
           /\ BeginRow(0, decMb, decFi)
           /\ UNCHANGED <<ok, pending>>
  <2>1. RowBound \in Nat /\ 1 <= RowBound /\ 1 <= BrMbY /\ BrMbY \in Nat
    BY <1>0, Geometry
  <2>2. /\ mbY' = 0 /\ pc' = "parse"
        /\ mbBuf' = [mbBuf EXCEPT ![decMb] = Garbage]
        /\ fiBuf' = IF cfg.filter > 0 THEN [fiBuf EXCEPT ![decFi] = Garbage]
                                      ELSE fiBuf
    BY <1>6, <2>1 DEF BeginRow
  <2>3. mbBuf' \in [{1, 2} -> Int] /\ fiBuf' \in [{1, 2} -> Int]
    <3>1. Garbage \in Int
      BY DEF Garbage
    <3>2. mbBuf' \in [{1, 2} -> Int]
      BY <1>3, <2>2, <3>1
    <3>3. fiBuf' \in [{1, 2} -> Int]
      BY <1>3, <2>2, <3>1
    <3> QED
      BY <3>2, <3>3
  <2>4. LinkInv' /\ DataInv'
    BY <1>0, <1>2, <1>3, <2>2, <2>3 DEF LinkInv, DataInv
  <2>5. AboveReady(mbY, cacheId)' /\ AlphaReady(mbY)'
    BY <1>2, <1>3, <2>2 DEF AboveReady, AlphaReady, StartOf
  <2>6. CacheInv'
    BY <1>2, <1>3, <1>4, <1>6, <2>2, <2>5 DEF CacheInv
  <2>7. Delivered' = 0 /\ DoneTo(mbY)' = 0
    BY <1>0, <1>2, <1>3, <1>4, <2>1, <2>2, ConfigFacts
       DEF Delivered, DoneTo, StartOf, Most, Least
  <2>8. OutInv'
    BY <1>2, <1>3, <2>2, <2>7 DEF OutInv
  <2>9. ContractInv'
    BY <1>0, <1>2, <1>3, <1>6, <2>2 DEF ContractInv, InLoop, Finished
  <2> QED
    BY <1>1, <2>4, <2>6, <2>8, <2>9 DEF FrameInv
<1> QED
  BY <1>5, <1>6 DEF AllocateMemory

\* The steps that leave the lines, and the row to decode, alone.
LEMMA QuietFrameInv ==
  FrameInv /\ (RowCorrupted \/ Suspend \/ Resume \/ Delete \/ SyncRow \/ FrameSync
                 \/ ExitCritical \/ EndWorker \/ FreeMemory)
    => FrameInv'
<1> SUFFICES ASSUME FrameInv,
                    \/ RowCorrupted \/ Suspend \/ Resume \/ Delete \/ SyncRow
                    \/ FrameSync \/ ExitCritical \/ EndWorker \/ FreeMemory
             PROVE  FrameInv'
  OBVIOUS
<1>0. cfg' = cfg /\ cfg \in Configs
  BY DEF RowCorrupted, Suspend, Resume, Delete, SyncRow, FrameSync, ExitCritical,
         EndWorker, FreeMemory, FrameInv, IInv, TypeOK
<1>1. IInv'
  BY LoopIInv, ExitIInv DEF FrameInv
<1>2. UNCHANGED <<finPc, mbY, cacheId, ctx, topRow, cache, alphaRow, out,
                  decMb, decFi, mbBuf, fiBuf, stopped, err>>
      /\ (mem' => mem)
  BY DEF RowCorrupted, Suspend, Resume, Delete, SyncRow, FrameSync, ExitCritical,
         EndWorker, FreeMemory, Wk!Sync, Wk!Stop, Wk!Reclaim, worker, buffers,
         samples, outcome
<1>3. /\ RowBound' = RowBound /\ NumCaches' = NumCaches
      /\ TlMbY' = TlMbY /\ BrMbY' = BrMbY
      /\ cfg.mt \in {0, 2}
  BY <1>0, GeometryPrimed, ConfigFacts
<1>4. ASSUME pc' = "launch" => pc = "launch" \/ (pc = "process" /\ ~err),
             pc' = "process" => pc = "process",
             InLoop' => InLoop,
             ~err /\ Finished' => InLoop \/ Finished,
             pc' \notin {"enter", "thread", "alloc"}
      PROVE  LinkInv' /\ DataInv' /\ CacheInv' /\ OutInv'
  <2>1. LinkInv'
    BY <1>0, <1>2, <1>3, <1>4 DEF FrameInv, LinkInv, NextCache, FilteredRow
  <2>2. DataInv'
    BY <1>0, <1>2, <1>4 DEF FrameInv, DataInv
  <2>3. CacheInv' /\ OutInv'
    BY <1>0, <1>2, <1>4, LinesKept DEF FrameInv
  <2> QED
    BY <2>1, <2>2, <2>3
<1>5. CASE RowCorrupted
  <2>1. /\ pc = "parse" /\ pc' = "exit" /\ ~ok'
        /\ UNCHANGED <<hooks, verdict>>
    BY <1>5 DEF RowCorrupted, Stop
  <2>2. ContractInv'
    BY <1>0, <1>2, <2>1 DEF FrameInv, ContractInv, InLoop, Finished
  <2> QED
    BY <1>1, <1>4, <2>1, <2>2 DEF FrameInv, InLoop, Finished
<1>6. CASE Suspend
  <2>1. /\ pc = "parse" /\ pc' = (IF err THEN "exit" ELSE "suspended")
        /\ ok' = (IF err THEN FALSE ELSE ok)
        /\ UNCHANGED <<hooks, verdict>>
    BY <1>6 DEF Suspend
  <2>2. ContractInv'
    BY <1>0, <1>2, <2>1 DEF FrameInv, ContractInv, InLoop, Finished
  <2> QED
    BY <1>1, <1>4, <2>1, <2>2 DEF FrameInv, InLoop, Finished
<1>7. CASE Resume
  <2>1. /\ pc = "suspended" /\ pc' = "parse"
        /\ UNCHANGED <<ok, hooks, verdict>>
    BY <1>7 DEF Resume, outcome
  <2>2. ContractInv'
    BY <1>0, <1>2, <2>1 DEF FrameInv, ContractInv, InLoop, Finished
  <2> QED
    BY <1>1, <1>4, <2>1, <2>2 DEF FrameInv, InLoop, Finished
<1>8. CASE Delete
  <2>1. /\ pc = "suspended" /\ pc' = "exit" /\ ~ok'
        /\ UNCHANGED <<hooks, verdict>>
    BY <1>8 DEF Delete
  <2>2. ContractInv'
    BY <1>0, <1>2, <2>1 DEF FrameInv, ContractInv, InLoop, Finished
  <2> QED
    BY <1>1, <1>4, <2>1, <2>2 DEF FrameInv, InLoop, Finished
<1>9. CASE SyncRow
  <2>1. /\ pc = "process" /\ pc' = (IF err THEN "exit" ELSE "launch")
        /\ ok' = (IF err THEN FALSE ELSE ok)
        /\ UNCHANGED <<hooks, verdict>>
    BY <1>9 DEF SyncRow, Stop
  <2>2. ContractInv'
    BY <1>0, <1>2, <2>1 DEF FrameInv, ContractInv, InLoop, Finished
  <2> QED
    BY <1>1, <1>4, <2>1, <2>2 DEF FrameInv, InLoop, Finished
<1>10. CASE FrameSync
  <2>1. /\ pc = "frameSync" /\ pc' = "exit"
        /\ ok' \in {ok, ~err}
        /\ UNCHANGED <<hooks, verdict>>
    BY <1>10 DEF FrameSync
  <2>2. ContractInv'
    BY <1>0, <1>2, <1>3, <2>1 DEF FrameInv, ContractInv, InLoop, Finished
  <2> QED
    BY <1>1, <1>4, <2>1, <2>2 DEF FrameInv, InLoop, Finished
<1>11. CASE ExitCritical
  <2>1. /\ pc = "exit" /\ pc' = "end" /\ hooks' = "closed"
        /\ ok' = (IF cfg.mt = 2 THEN ok /\ ~err ELSE ok)
        /\ verdict' = verdict
    BY <1>11 DEF ExitCritical
  <2>2. cfg.mt = 0 => ~err
    BY DEF FrameInv, LinkInv
  <2>3. ContractInv'
    BY <1>0, <1>2, <1>3, <2>1, <2>2 DEF FrameInv, ContractInv, InLoop, Finished
  <2> QED
    BY <1>1, <1>3, <1>4, <2>1, <2>2, <2>3 DEF FrameInv, InLoop, Finished
<1>12. CASE EndWorker
  <2>1. /\ pc = "end" /\ pc' = "free"
        /\ UNCHANGED <<ok, hooks, verdict>>
    BY <1>12 DEF EndWorker, outcome
  <2>2. ContractInv'
    BY <1>0, <1>2, <1>3, <2>1 DEF FrameInv, ContractInv, InLoop, Finished
  <2> QED
    BY <1>1, <1>4, <2>1, <2>2 DEF FrameInv, InLoop, Finished
<1>13. CASE FreeMemory
  <2>1. /\ pc = "free" /\ pc' = "done"
        /\ UNCHANGED <<ok, hooks>>
    BY <1>13 DEF FreeMemory
  <2>2. ContractInv'
    BY <1>0, <1>2, <1>3, <2>1 DEF FrameInv, ContractInv, InLoop, Finished
  <2> QED
    BY <1>1, <1>4, <2>1, <2>2 DEF FrameInv, InLoop, Finished
<1> QED
  BY <1>5, <1>6, <1>7, <1>8, <1>9, <1>10, <1>11, <1>12, <1>13

\* VP8SetError(), the client and a stuttering step leave everything but the
\* error alone.
LEMMA IdleFrameInv ==
  FrameInv /\ (WriteError("main") \/ WriteError("finish") \/ UNCHANGED vars)
    => FrameInv'
<1> SUFFICES ASSUME FrameInv,
                    WriteError("main") \/ WriteError("finish") \/ UNCHANGED vars
             PROVE  FrameInv'
  OBVIOUS
<1>0. cfg \in Configs /\ IInv'
  BY ExitIInv, StutterIInv DEF FrameInv, IInv, TypeOK
<1>1. UNCHANGED <<cfg, pc, finPc, mbY, cacheId, ctx, topRow, cache, alphaRow, out,
                  decMb, decFi, mbBuf, fiBuf, stopped, err, mem, ok, hooks, verdict>>
  BY DEF WriteError, vars, buffers, samples, worker, outcome
<1>2. /\ RowBound' = RowBound /\ NumCaches' = NumCaches
      /\ TlMbY' = TlMbY /\ BrMbY' = BrMbY
  BY <1>1, GeometryPrimed
<1>3. LinkInv' /\ DataInv'
  BY <1>1, <1>2 DEF FrameInv, LinkInv, DataInv, NextCache, FilteredRow
<1>4. CacheInv' /\ OutInv'
  BY <1>0, <1>1, LinesKept DEF FrameInv, InLoop, Finished
<1>5. ContractInv'
  BY <1>1, <1>2 DEF FrameInv, ContractInv, InLoop, Finished
<1> QED
  BY <1>0, <1>3, <1>4, <1>5 DEF FrameInv


\* The parsed row keeps its place; without a worker it is the one in flight.
LEMMA ParsedFrameInv == FrameInv /\ RowParsed => FrameInv'
<1> SUFFICES ASSUME FrameInv, RowParsed PROVE FrameInv'
  OBVIOUS
<1>0. cfg' = cfg /\ cfg \in Configs /\ cfg.mt \in {0, 2}
  BY ConfigFacts DEF RowParsed, FrameInv, IInv, TypeOK
<1>1. IInv'
  BY LoopIInv DEF FrameInv
<1>2. /\ pc = "parse" /\ mem
      /\ UNCHANGED <<mbY, decMb, decFi, cacheId, topRow, cache, alphaRow, out,
                     stopped, mem, ok, hooks, verdict, err>>
      /\ mbBuf' = [mbBuf EXCEPT ![decMb] = mbY]
      /\ fiBuf' = IF cfg.filter > 0 THEN [fiBuf EXCEPT ![decFi] = mbY] ELSE fiBuf
  BY DEF RowParsed, samples, outcome, worker, FrameInv, IInv, LoopInv, InLoop
<1>3. /\ mbBuf \in [{1, 2} -> Int] /\ fiBuf \in [{1, 2} -> Int]
      /\ mbY \in Int /\ decMb \in {1, 2} /\ decFi \in {1, 2}
      /\ ctx.mb \in {1, 2} /\ ctx.fi \in {1, 2}
  BY <1>0, ConfigFacts DEF FrameInv, DataInv, IInv, TypeOK
<1>4. /\ mbBuf' \in [{1, 2} -> Int] /\ mbBuf'[decMb] = mbY
      /\ ctx.mb # decMb => mbBuf'[ctx.mb] = mbBuf[ctx.mb]
  BY <1>2, <1>3
<1>5. /\ fiBuf' \in [{1, 2} -> Int] /\ (cfg.filter > 0 => fiBuf'[decFi] = mbY)
      /\ ctx.fi # decFi => fiBuf'[ctx.fi] = fiBuf[ctx.fi]
  BY <1>2, <1>3
<1>6. /\ RowBound' = RowBound /\ NumCaches' = NumCaches
      /\ TlMbY' = TlMbY /\ BrMbY' = BrMbY /\ ExtraRows' = ExtraRows
  BY <1>0, GeometryPrimed
<1>7. CASE cfg.mt = 2
  <2>1. pc' = "process" /\ ctx' = ctx /\ finPc' = finPc
    BY <1>7 DEF RowParsed
  <2>2. decMb # ctx.mb /\ decFi # ctx.fi
    BY <1>2, <1>7 DEF FrameInv, IInv, BufferInv
  <2>3. LinkInv'
    BY <1>0, <1>2, <1>6, <2>1 DEF FrameInv, LinkInv, NextCache, FilteredRow
  <2>4. DataInv'
    BY <1>0, <1>2, <1>4, <1>5, <2>1, <2>2 DEF FrameInv, DataInv
  <2>5. CacheInv' /\ OutInv'
    BY <1>0, <1>2, <2>1, LinesKept DEF FrameInv, InLoop, Finished
  <2>6. ContractInv'
    BY <1>0, <1>2, <1>6, <2>1 DEF FrameInv, ContractInv, InLoop, Finished
  <2> QED
    BY <1>1, <2>3, <2>4, <2>5, <2>6 DEF FrameInv
<1>8. CASE cfg.mt = 0
  <2>1. pc' = "finish" /\ ctx' = RowContext /\ finPc' = "recon" /\ finPc = "idle"
    BY <1>2, <1>8 DEF RowParsed, FrameInv, IInv, JobInv
  <2>2. /\ ctx'.id = cacheId /\ ctx'.mbY = mbY /\ ctx'.filterRow = FilteredRow(mbY)
        /\ ctx'.mb = decMb /\ (FilteredRow(mbY) => ctx'.fi = decFi)
    BY <2>1 DEF RowContext
  <2>3. ~err
    BY <1>8 DEF FrameInv, LinkInv
  <2>4. LinkInv'
    BY <1>0, <1>2, <1>6, <1>8, <2>1, <2>2, <2>3 DEF LinkInv, FilteredRow
  <2>5. DataInv'
    BY <1>0, <1>2, <1>4, <1>5, <2>1, <2>2 DEF DataInv, FilteredRow
  <2>6. topRow = mbY - 1 /\ AboveReady(mbY, cacheId) /\ AlphaReady(mbY)
    BY <1>2, <2>1, <2>3 DEF FrameInv, CacheInv, InLoop
  <2>7. AboveReady(ctx.mbY, ctx.id)' /\ AlphaReady(ctx.mbY)'
    BY <1>0, <1>2, <1>6, <2>2, <2>6 DEF AboveReady, AlphaReady, StartOf, FilteredRow
  <2>8. mem' => DOMAIN cache' = (-ExtraRows')..(16 * NumCaches' - 1)
    BY <1>2, <1>6 DEF FrameInv, CacheInv
  <2>9. CacheInv'
    BY <1>2, <2>1, <2>2, <2>6, <2>7, <2>8 DEF CacheInv
  <2>10. Delivered = DoneTo(mbY)
    BY <1>2, <2>1, <2>3 DEF FrameInv, OutInv, InLoop
  <2>11. Delivered' = DoneTo(ctx.mbY)'
    BY <1>0, <1>2, <1>6, <2>2, <2>10 DEF Delivered, DoneTo, StartOf
  <2>12. \A y : Final(y)' = Final(y)
    BY <1>0, GeometryPrimed DEF Final
  <2>13. OutInv'
    BY <1>0, <1>2, <2>1, <2>11, <2>12 DEF FrameInv, OutInv
  <2>14. ContractInv'
    BY <1>0, <1>2, <1>6, <2>1 DEF FrameInv, ContractInv, InLoop, Finished
  <2> QED
    BY <1>1, <2>4, <2>5, <2>9, <2>13, <2>14 DEF FrameInv
<1> QED
  BY <1>0, <1>7, <1>8

\* The launched row takes the buffers it was parsed into, and the main thread
\* goes on with the others.
LEMMA LaunchFrameInv == FrameInv /\ LaunchRow => FrameInv'
<1> SUFFICES ASSUME FrameInv, LaunchRow PROVE FrameInv'
  OBVIOUS
<1>0. cfg' = cfg /\ cfg \in Configs /\ cfg.mt = 2
  BY ConfigFacts DEF LaunchRow, FrameInv, IInv, TypeOK, JobInv
<1>1. IInv'
  BY LaunchIInv DEF FrameInv
<1>2. /\ pc = "launch" /\ mem /\ finPc = "idle" /\ ~err /\ finPc' = "recon"
      /\ ctx' = RowContext /\ decMb' = ctx.mb
      /\ decFi' = IF FilteredRow(mbY) THEN ctx.fi ELSE decFi
      /\ cacheId' = NextCache(cacheId)
      /\ UNCHANGED <<topRow, cache, alphaRow, out, stopped, mem, ok, hooks,
                     verdict, err>>
      /\ BeginRow(mbY + 1, decMb', decFi')
  BY DEF LaunchRow, samples, outcome, Wk!Accept, FrameInv, IInv, LoopInv, InLoop,
         JobInv, LinkInv
<1>3. /\ mbBuf \in [{1, 2} -> Int] /\ fiBuf \in [{1, 2} -> Int]
      /\ mbY \in Nat /\ decMb \in {1, 2} /\ decFi \in {1, 2}
      /\ ctx.mb \in {1, 2} /\ ctx.fi \in {1, 2}
      /\ decMb # ctx.mb /\ decFi # ctx.fi
      /\ mbBuf[decMb] = mbY /\ (cfg.filter > 0 => fiBuf[decFi] = mbY)
      /\ mbY < RowBound
  BY <1>0, <1>2, ConfigFacts
     DEF FrameInv, DataInv, IInv, TypeOK, BufferInv, LoopInv, InLoop
<1>4. /\ ctx'.id = cacheId /\ ctx'.mbY = mbY /\ ctx'.filterRow = FilteredRow(mbY)
      /\ ctx'.mb = decMb /\ (FilteredRow(mbY) => ctx'.fi = decFi)
  BY <1>2 DEF RowContext
<1>5. /\ mbY' = mbY + 1 /\ pc' \in {"parse", "frameSync"}
      /\ pc' = "parse" => mbY + 1 < RowBound
      /\ pc' = "frameSync" => mbY + 1 >= RowBound
      /\ mbBuf' \in {mbBuf, [mbBuf EXCEPT ![decMb'] = Garbage]}
      /\ fiBuf' \in {fiBuf, [fiBuf EXCEPT ![decFi'] = Garbage]}
  BY <1>0, <1>2, <1>3, Geometry DEF BeginRow
<1>6. /\ mbBuf' \in [{1, 2} -> Int] /\ fiBuf' \in [{1, 2} -> Int]
      /\ mbBuf'[ctx'.mb] = ctx'.mbY
  <2>1. Garbage \in Int
    BY DEF Garbage
  <2>2. decMb' \in {1, 2} /\ decMb' # decMb /\ decFi' \in {1, 2}
    BY <1>2, <1>3
  <2> QED
    BY <1>3, <1>4, <1>5, <2>1, <2>2
<1>7. ctx'.filterRow => fiBuf'[ctx'.fi] = ctx'.mbY
  <2> SUFFICES ASSUME FilteredRow(mbY) PROVE fiBuf'[decFi] = mbY
    BY <1>4
  <2>1. decFi' # decFi /\ decFi' \in {1, 2} /\ fiBuf[decFi] = mbY
    BY <1>2, <1>3 DEF FilteredRow
  <2> QED
    BY <1>3, <1>5, <2>1
<1>8. /\ RowBound' = RowBound /\ NumCaches' = NumCaches
      /\ TlMbY' = TlMbY /\ BrMbY' = BrMbY /\ ExtraRows' = ExtraRows
  BY <1>0, GeometryPrimed
<1>9. LinkInv'
  BY <1>0, <1>2, <1>4, <1>5, <1>8 DEF LinkInv, FilteredRow, NextCache
<1>10. DataInv'
  BY <1>2, <1>5, <1>6, <1>7 DEF DataInv
<1>11. topRow = mbY - 1 /\ AboveReady(mbY, cacheId) /\ AlphaReady(mbY)
  BY <1>2 DEF FrameInv, CacheInv, InLoop
<1>12. AboveReady(ctx.mbY, ctx.id)' /\ AlphaReady(ctx.mbY)'
  BY <1>0, <1>2, <1>4, <1>8, <1>11 DEF AboveReady, AlphaReady, StartOf, FilteredRow
<1>13. mem' => DOMAIN cache' = (-ExtraRows')..(16 * NumCaches' - 1)
  BY <1>2, <1>8 DEF FrameInv, CacheInv
<1>14. CacheInv'
  BY <1>2, <1>4, <1>5, <1>11, <1>12, <1>13 DEF CacheInv
<1>15. Delivered = DoneTo(mbY)
  BY <1>2 DEF FrameInv, OutInv, InLoop
<1>16. Delivered' = DoneTo(ctx.mbY)'
  BY <1>0, <1>2, <1>4, <1>8, <1>15 DEF Delivered, DoneTo, StartOf
<1>17. \A y : Final(y)' = Final(y)
  BY <1>0, GeometryPrimed DEF Final
<1>18. OutInv'
  BY <1>0, <1>2, <1>5, <1>16, <1>17 DEF FrameInv, OutInv
<1>19. mbY + 1 <= RowBound /\ RowBound \in Nat
  BY <1>0, <1>3, Geometry
<1>20. ContractInv'
  BY <1>0, <1>2, <1>3, <1>5, <1>8, <1>19 DEF FrameInv, ContractInv, InLoop, Finished
<1> QED
  BY <1>1, <1>9, <1>10, <1>14, <1>18, <1>20 DEF FrameInv

\* What FinishRow() does before it returns: the row in flight stays the same.
LEMMA InFlightKept ==
  ASSUME FrameInv, finPc # "idle",
         UNCHANGED <<cfg, pc, mbY, buffers, out, stopped, mem, ok, hooks, verdict,
                     worker>>,
         finPc' # "idle", finPc' # "recon",
         finPc' = "filter" => finPc = "recon"
  PROVE  /\ LinkInv' /\ DataInv' /\ ContractInv'
         /\ (finPc' \in {"filter", "put"} => finPc # "failed") => OutInv'
<1>0. cfg \in Configs
  BY DEF FrameInv, IInv, TypeOK
<1>1. UNCHANGED <<cfg, pc, mbY, decMb, decFi, ctx, mbBuf, fiBuf, cacheId, out,
                  stopped, mem, ok, hooks, verdict, err>>
  BY DEF buffers, worker
<1>2. /\ RowBound' = RowBound /\ NumCaches' = NumCaches
      /\ TlMbY' = TlMbY /\ BrMbY' = BrMbY /\ ExtraRows' = ExtraRows
  BY <1>1, GeometryPrimed
<1>3. LinkInv'
  BY <1>1, <1>2 DEF FrameInv, LinkInv, NextCache, FilteredRow
<1>4. DataInv'
  BY <1>1 DEF FrameInv, DataInv
<1>5. ContractInv'
  BY <1>1, <1>2 DEF FrameInv, ContractInv, InLoop, Finished
<1>6. DoneTo(ctx.mbY)' = DoneTo(ctx.mbY) /\ Delivered' = Delivered
  BY <1>1, <1>2 DEF DoneTo, StartOf, Delivered
<1>7. \A y : Final(y)' = Final(y)
  BY <1>1, GeometryPrimed DEF Final
<1>8. ASSUME finPc' \in {"filter", "put"} => finPc # "failed" PROVE OutInv'
  BY <1>1, <1>6, <1>7, <1>8, ConfigFacts DEF FrameInv, OutInv, IInv, TypeOK
<1> QED
  BY <1>3, <1>4, <1>5, <1>8

\* The caches of the rows, and the lines held back above the first one.
LEMMA CacheBounds ==
  ASSUME FrameInv, finPc # "idle"
  PROVE  /\ cfg \in Configs /\ mem
         /\ ctx.mbY \in Nat /\ ctx.mbY < cfg.mbH
         /\ ctx.id \in Nat /\ ctx.id < NumCaches /\ NumCaches \in 1..3
         /\ Base = 16 * ctx.id /\ Base \in Nat
         /\ ExtraRows \in 0..8 /\ EdgeRows \in 0..6 /\ EdgeRows <= ExtraRows
         /\ DOMAIN cache = (-ExtraRows)..(16 * NumCaches - 1)
         /\ \A i \in 0..15 : Base + i \in DOMAIN cache
         /\ \A k \in 1..ExtraRows : Base - k \in DOMAIN cache
<1>1. cfg \in Configs /\ mem /\ NumCaches \in 1..3
  BY NumCachesType DEF FrameInv, IInv, TypeOK, LoopInv
<1>2. /\ ctx.mbY \in Nat /\ ctx.id \in Nat /\ ctx.id < NumCaches
      /\ mbY \in Nat /\ mbY <= cfg.mbH
  BY <1>1, ConfigFacts DEF FrameInv, IInv, TypeOK
<1>3. cfg.mt = 0 => ctx.mbY = mbY /\ mbY < RowBound
  BY DEF FrameInv, LinkInv, IInv, JobInv, LoopInv, InLoop
<1>4. cfg.mt = 2 => ctx.mbY + 1 = mbY
  BY DEF FrameInv, LinkInv
<1>5. ctx.mbY < cfg.mbH
  BY <1>1, <1>2, <1>3, <1>4, RowBoundType, ConfigFacts
<1>6. Base = 16 * ctx.id /\ Base \in Nat
  BY <1>2 DEF Base
<1>7. ExtraRows \in 0..8 /\ EdgeRows \in 0..6 /\ EdgeRows <= ExtraRows
  BY <1>1, Geometry
<1>8. DOMAIN cache = (-ExtraRows)..(16 * NumCaches - 1)
  BY <1>1 DEF FrameInv, CacheInv
<1>9. ASSUME NEW i \in 0..15 PROVE Base + i \in DOMAIN cache
  <2>1. 0 <= Base + i /\ Base + i <= 16 * NumCaches - 1 /\ Base + i \in Int
    BY <1>1, <1>2, <1>6
  <2> QED
    BY <1>1, <1>7, <1>8, <2>1
<1>10. ASSUME NEW k \in 1..ExtraRows PROVE Base - k \in DOMAIN cache
  <2>1. -ExtraRows <= Base - k /\ Base - k <= 16 * NumCaches - 1 /\ Base - k \in Int
    BY <1>1, <1>2, <1>6, <1>7
  <2> QED
    BY <1>1, <1>7, <1>8, <2>1
<1> QED
  BY <1>1, <1>2, <1>5, <1>6, <1>7, <1>8, <1>9, <1>10

\* A row is reconstructed from its own data and from the row above it.
LEMMA ReconstructFrameInv == FrameInv /\ Reconstruct => FrameInv'
<1> SUFFICES ASSUME FrameInv, Reconstruct PROVE FrameInv'
  OBVIOUS
<1>1. IInv'
  BY FinishIInv DEF FrameInv
<1>2. /\ finPc = "recon" /\ finPc' = "filter"
      /\ UNCHANGED <<cfg, pc, mbY, buffers, alphaRow, out, stopped, mem, ok, hooks,
                     verdict, worker, decMb, decFi, ctx, mbBuf, fiBuf, cacheId>>
  BY DEF Reconstruct, outcome, buffers
<1>3. LinkInv' /\ DataInv' /\ ContractInv' /\ OutInv'
  BY <1>2, InFlightKept
<1>4. /\ mbBuf[ctx.mb] = ctx.mbY /\ topRow = ctx.mbY - 1
      /\ AboveReady(ctx.mbY, ctx.id) /\ AlphaReady(ctx.mbY)
  BY <1>2 DEF FrameInv, DataInv, CacheInv
<1>5. /\ cache' = [r \in DOMAIN cache |->
                     IF r \in Base..(Base + 15)
                     THEN Line(16 * ctx.mbY + (r - Base), "raw") ELSE cache[r]]
      /\ ctx.mbY # cfg.mbH - 1 => topRow' = ctx.mbY
  BY <1>4 DEF Reconstruct
<1>6. /\ cfg \in Configs /\ mem
      /\ ctx.mbY \in Nat /\ ctx.mbY < cfg.mbH
      /\ ctx.id \in Nat /\ NumCaches \in 1..3
      /\ Base = 16 * ctx.id /\ Base \in Nat
      /\ ExtraRows \in 0..8
      /\ DOMAIN cache = (-ExtraRows)..(16 * NumCaches - 1)
      /\ \A i \in 0..15 : Base + i \in DOMAIN cache
      /\ \A k \in 1..ExtraRows : Base - k \in DOMAIN cache
  BY <1>2, CacheBounds
<1>7. /\ NumCaches' = NumCaches /\ TlMbY' = TlMbY /\ BrMbY' = BrMbY
      /\ ExtraRows' = ExtraRows
  BY <1>2, GeometryPrimed
<1>8. \A i \in 0..15 : Raw(i)'
  <2> SUFFICES ASSUME NEW i \in 0..15
               PROVE  cache'[Base + i] = Line(16 * ctx.mbY + i, "raw")
    BY <1>2 DEF Raw, Base
  <2>1. Base + i \in DOMAIN cache
    BY <1>6, Zenon
  <2>2. Base \in Int
    BY <1>6
  <2>3. Base + i \in Base..(Base + 15) /\ (Base + i) - Base = i
    BY <2>2
  <2> QED
    BY <1>5, <2>1, <2>3
<1>9. AboveReady(ctx.mbY, ctx.id)'
  <2> SUFFICES ASSUME 0 < ctx.mbY, ctx.mbY < BrMbY, FilteredRow(ctx.mbY - 1),
                      NEW k \in 1..ExtraRows
               PROVE  cache'[16 * ctx.id - k] = Line(16 * ctx.mbY - k, "own")
    BY <1>2, <1>7 DEF AboveReady, FilteredRow
  <2>1. Base - k \in DOMAIN cache /\ 16 * ctx.id = Base
    BY <1>6, Zenon
  <2>2. Base \in Int /\ ExtraRows \in Int
    BY <1>6
  <2>3. 16 * ctx.id - k \notin Base..(Base + 15)
    BY <2>1, <2>2
  <2>4. cache'[16 * ctx.id - k] = cache[16 * ctx.id - k]
    BY <1>5, <2>1, <2>3
  <2> QED
    BY <1>4, <2>4 DEF AboveReady
<1>10. AlphaReady(ctx.mbY)'
  BY <1>2, <1>4, <1>7 DEF AlphaReady, StartOf
<1>11. DOMAIN cache' = (-ExtraRows')..(16 * NumCaches' - 1)
  BY <1>5, <1>6, <1>7
<1>12. ctx'.mbY < cfg'.mbH - 1 => topRow' = ctx'.mbY
  BY <1>2, <1>5, <1>6, ConfigFacts
<1>13. CacheInv'
  BY <1>1, <1>2, <1>8, <1>9, <1>10, <1>11, <1>12 DEF CacheInv, IInv, JobInv
<1> QED
  BY <1>1, <1>3, <1>13 DEF FrameInv

\* The filter reads the strengths of the row and the filtered row above.
LEMMA FilterFrameInv == FrameInv /\ Filter => FrameInv'
<1> SUFFICES ASSUME FrameInv, Filter PROVE FrameInv'
  OBVIOUS
<1>1. IInv'
  BY FinishIInv DEF FrameInv
<1>2. /\ finPc = "filter" /\ finPc' = "put"
      /\ cache' = IF ctx.filterRow THEN [r \in DOMAIN cache |-> Filtered(r)] ELSE cache
      /\ UNCHANGED <<cfg, pc, mbY, buffers, topRow, alphaRow, out, stopped, mem, ok,
                     hooks, verdict, worker, decMb, decFi, ctx, mbBuf, fiBuf, cacheId>>
  BY DEF Filter, outcome, buffers
<1>3. LinkInv' /\ DataInv' /\ ContractInv' /\ OutInv'
  BY <1>2, InFlightKept
<1>4. /\ AboveReady(ctx.mbY, ctx.id) /\ AlphaReady(ctx.mbY)
      /\ \A i \in 0..15 : Raw(i)
      /\ ctx.filterRow => fiBuf[ctx.fi] = ctx.mbY
      /\ ctx.filterRow = FilteredRow(ctx.mbY)
      /\ ctx.mbY < cfg.mbH - 1 => topRow = ctx.mbY
  BY <1>2 DEF FrameInv, DataInv, CacheInv, LinkInv
<1>5. /\ cfg \in Configs /\ mem
      /\ ctx.mbY \in Nat /\ ctx.mbY < cfg.mbH
      /\ ctx.id \in Nat /\ NumCaches \in 1..3
      /\ Base = 16 * ctx.id /\ Base \in Nat
      /\ ExtraRows \in 0..8 /\ EdgeRows \in 0..6 /\ EdgeRows <= ExtraRows
      /\ DOMAIN cache = (-ExtraRows)..(16 * NumCaches - 1)
      /\ \A i \in 0..15 : Base + i \in DOMAIN cache
      /\ \A k \in 1..ExtraRows : Base - k \in DOMAIN cache
  BY <1>2, CacheBounds
<1>6. /\ NumCaches' = NumCaches /\ TlMbY' = TlMbY /\ BrMbY' = BrMbY
      /\ ExtraRows' = ExtraRows /\ EdgeRows' = EdgeRows /\ ReachRows' = ReachRows
  BY <1>2, GeometryPrimed
<1>7. DOMAIN cache' = DOMAIN cache
  BY <1>2
<1>8. ctx.mbY < BrMbY /\ ~FirstRow /\ FilteredRow(ctx.mbY - 1) => AboveFiltered
  <2>1. ctx.mbY \in Nat
    BY <1>5
  <2>2. ~FirstRow => 0 < ctx.mbY
    BY <2>1 DEF FirstRow
  <2> QED
    BY <1>4, <2>2, Zenon DEF AboveReady, AboveFiltered, Base
<1>9. ASSUME ctx.mbY < BrMbY, ctx.filterRow, NEW i \in 0..15,
             EdgeFiltered \/ i >= ReachRows
      PROVE  cache'[Base + i] = Line(16 * ctx.mbY + i, "own")
  <2>1. Base + i \in DOMAIN cache
    BY <1>5, Zenon
  <2>2. Base \in Int
    BY <1>5
  <2>3. (Base + i) - Base = i
    BY <2>2
  <2>4. cache[Base + i] = Line(16 * ctx.mbY + i, "raw")
    BY <1>4 DEF Raw
  <2>5. FirstRow \/ AboveFiltered \/ i >= ReachRows
    BY <1>9, <1>8, Zenon DEF EdgeFiltered
  <2>6. Filtered(Base + i) = Line(16 * ctx.mbY + i, "own")
    BY <1>4, <1>9, <2>3, <2>4, <2>5 DEF Filtered, Line
  <2> QED
    BY <1>2, <1>9, <2>1, <2>6
<1>10. ASSUME ctx.mbY < BrMbY, ctx.filterRow, ~FirstRow, FilteredRow(ctx.mbY - 1),
              NEW k \in 1..ExtraRows
       PROVE  cache'[Base - k] =
                Line(16 * ctx.mbY - k, IF k <= EdgeRows THEN "done" ELSE "own")
  <2>1. Base - k \in DOMAIN cache
    BY <1>5
  <2>2. Base \in Int /\ ExtraRows \in Int /\ EdgeRows \in Int
    BY <1>5
  <2>3. /\ (Base - k) - Base = -k /\ -k \notin 0..15
        /\ -k \in (-EdgeRows)..(-1) <=> k <= EdgeRows
    BY <2>2
  <2>4. AboveFiltered
    BY <1>10, <1>8
  <2>5. cache[Base - k] = Line(16 * ctx.mbY - k, "own")
    BY <2>4 DEF AboveFiltered
  <2>6. Filtered(Base - k) =
          Line(16 * ctx.mbY - k, IF k <= EdgeRows THEN "done" ELSE "own")
    BY <1>4, <1>10, <2>1, <2>4, <2>5, <2>3 DEF Filtered, Line
  <2> QED
    BY <1>2, <1>10, <2>1, <2>6
<1>11. ctx.mbY < BrMbY => RowReady'
  <2> SUFFICES ASSUME ctx.mbY < BrMbY PROVE RowReady'
    OBVIOUS
  <2>1. ~ctx.filterRow => \A i \in 0..15 : Raw(i)'
    BY <1>2, <1>4 DEF Raw, Base
  <2>2. ctx.filterRow =>
          \A i \in 0..15 : (EdgeFiltered \/ i >= ReachRows) => Own(i)'
    BY <1>2, <1>9 DEF Own, Base
  <2>3. EdgeFiltered' = EdgeFiltered /\ FirstRow' = FirstRow
        /\ FilteredRow(ctx.mbY - 1)' = FilteredRow(ctx.mbY - 1)
        /\ Base' = Base
    BY <1>2, <1>6 DEF EdgeFiltered, FirstRow, FilteredRow, Base
  <2> QED
    BY <1>2, <1>6, <1>10, <2>1, <2>2, <2>3 DEF RowReady
<1>12. AlphaReady(ctx.mbY)'
  BY <1>2, <1>4, <1>6 DEF AlphaReady, StartOf
<1>13. CacheInv'
  BY <1>1, <1>2, <1>4, <1>5, <1>6, <1>7, <1>11, <1>12 DEF CacheInv, IInv, JobInv
<1> QED
  BY <1>1, <1>3, <1>13 DEF FrameInv

\* The alpha plane is not delivered: the row will not be either.
LEMMA AlphaFailsFrameInv == FrameInv /\ AlphaFails => FrameInv'
<1> SUFFICES ASSUME FrameInv, AlphaFails PROVE FrameInv'
  OBVIOUS
<1>1. IInv'
  BY FinishIInv DEF FrameInv
<1>2. /\ finPc = "put" /\ finPc' = "failed"
      /\ UNCHANGED <<cfg, pc, mbY, buffers, topRow, cache, alphaRow, out, stopped, mem,
                     ok, hooks, verdict, worker>>
  BY DEF AlphaFails, samples
<1>3. LinkInv' /\ DataInv' /\ ContractInv' /\ OutInv'
  BY <1>2, InFlightKept
<1>4. NumCaches' = NumCaches /\ ExtraRows' = ExtraRows
  BY <1>2, GeometryPrimed
<1>5. CacheInv'
  BY <1>1, <1>2, <1>4 DEF FrameInv, CacheInv, IInv, JobInv
<1> QED
  BY <1>1, <1>3, <1>5 DEF FrameInv

\* FinishRow() returns, in either thread: the loop goes on with the next row,
\* or it will not deliver another one.
LEMMA FinishedRow ==
  ASSUME FrameInv, IInv', cfg' = cfg, finPc \in {"put", "failed"},
         NEW r \in BOOLEAN, FinishReturns(r),
         UNCHANGED <<hooks, verdict, mem, topRow>>,
         stopped' \in {stopped, stopped \/ ~r}
  PROVE  /\ LinkInv' /\ DataInv' /\ ContractInv'
         /\ finPc' = "idle" /\ pc' \notin {"enter", "thread", "alloc"}
         /\ ctx' = ctx
         /\ r => mbY' = ctx.mbY + 1 /\ cacheId' = NextCache(ctx.id)
         /\ ~r /\ (InLoop' \/ Finished') => err'
<1>1. /\ cfg \in Configs /\ cfg.mt \in {0, 2} /\ ctx.mbY \in Nat
      /\ ~err /\ mem /\ pc \notin {"enter", "thread", "alloc", "launch", "suspended",
                                   "end", "free", "done"}
      /\ mbBuf \in [{1, 2} -> Int] /\ fiBuf \in [{1, 2} -> Int]
  BY CacheBounds, ConfigFacts
     DEF FrameInv, IInv, TypeOK, JobInv, LinkInv, LoopInv, DataInv
<1>2. RowBound' = RowBound /\ RowBound \in Nat
  BY <1>1, GeometryPrimed, Geometry
<1>3. CASE cfg.mt = 2
  <2>1. /\ finPc' = "idle" /\ err' = (err \/ ~r)
        /\ UNCHANGED <<pc, mbY, cacheId, decMb, decFi, ctx, mbBuf, fiBuf, ok>>
    BY <1>3 DEF FinishReturns, Wk!Complete, buffers
  <2>2. mbY = ctx.mbY + 1 /\ cacheId = NextCache(ctx.id)
    BY <1>3 DEF FrameInv, LinkInv
  <2>3. LinkInv'
    BY <1>1, <1>3, <2>1 DEF LinkInv
  <2>4. DataInv'
    BY <1>1, <2>1 DEF FrameInv, DataInv
  <2>5. ContractInv'
    BY <1>1, <1>2, <1>3, <2>1 DEF FrameInv, ContractInv, InLoop, Finished
  <2> QED
    BY <1>1, <2>1, <2>2, <2>3, <2>4, <2>5
<1>4. CASE cfg.mt = 0
  <2>1. /\ finPc' = "idle"
        /\ UNCHANGED <<err, cacheId, decMb, decFi, ctx>>
    BY <1>4 DEF FinishReturns, worker
  <2>2. /\ pc = "finish" /\ mbY < RowBound /\ mbY = ctx.mbY /\ ctx.id = cacheId
        /\ ok /\ hooks = "open" /\ verdict = "none" /\ ~stopped
    BY <1>1, <1>4 DEF FrameInv, IInv, JobInv, LoopInv, InLoop, LinkInv, ContractInv
  <2>3. cacheId = NextCache(ctx.id)
    <3>1. NumCaches = 1 /\ ctx.id \in 0..(NumCaches - 1)
      BY <1>1, <1>4, Geometry DEF FrameInv, IInv, TypeOK
    <3> QED
      BY <2>2, <3>1 DEF NextCache
  <2>4. CASE r /\ BeginRow(mbY + 1, decMb, decFi) /\ UNCHANGED <<ok, pending>>
    <3>1. /\ mbY' = mbY + 1 /\ pc' \in {"parse", "frameSync"}
          /\ pc' = "frameSync" => mbY + 1 >= RowBound
          /\ mbBuf' \in {mbBuf, [mbBuf EXCEPT ![decMb] = Garbage]}
          /\ fiBuf' \in {fiBuf, [fiBuf EXCEPT ![decFi] = Garbage]}
      BY <1>1, <1>2, <2>2, <2>4 DEF BeginRow
    <3>2. mbBuf' \in [{1, 2} -> Int] /\ fiBuf' \in [{1, 2} -> Int]
      <4>1. Garbage \in Int
        BY DEF Garbage
      <4> QED
        BY <1>1, <3>1, <4>1
    <3>3. LinkInv' /\ DataInv'
      BY <1>1, <2>1, <3>1, <3>2 DEF LinkInv, DataInv
    <3>4. ~stopped'
      BY <2>2, <2>4, Zenon
    <3>5. pc' = "frameSync" => mbY' = RowBound
      BY <1>1, <1>2, <2>2, <3>1
    <3>6. ContractInv'
      BY <1>1, <1>2, <2>1, <2>2, <2>4, <3>1, <3>4, <3>5
         DEF ContractInv, InLoop, Finished
    <3> QED
      BY <1>1, <2>1, <2>2, <2>3, <2>4, <3>1, <3>3, <3>6
  <2>5. CASE ~r /\ Stop("USER_ABORT") /\ UNCHANGED <<mbY, mbBuf, fiBuf>>
    <3>1. pc' = "exit" /\ ~ok'
      BY <2>5 DEF Stop
    <3>2. LinkInv' /\ DataInv'
      BY <1>1, <2>1, <2>5, <3>1 DEF LinkInv, DataInv
    <3>3. ContractInv'
      BY <1>1, <1>2, <1>4, <2>1, <2>2, <3>1 DEF ContractInv, InLoop, Finished
    <3> QED
      BY <2>1, <2>5, <3>1, <3>2, <3>3 DEF InLoop, Finished
  <2> QED
    BY <1>4, <2>4, <2>5 DEF FinishReturns
<1> QED
  BY <1>1, <1>3, <1>4

\* A row that failed is not followed by another.
LEMMA FailedFrameInv == FrameInv /\ FinishFailed => FrameInv'
<1> SUFFICES ASSUME FrameInv, FinishFailed PROVE FrameInv'
  OBVIOUS
<1>1. IInv'
  BY FinishIInv DEF FrameInv
<1>2. /\ finPc = "failed" /\ FinishReturns(FALSE)
      /\ UNCHANGED <<cfg, topRow, cache, alphaRow, out, stopped, mem, hooks, verdict>>
  BY DEF FinishFailed, samples
<1>3. /\ LinkInv' /\ DataInv' /\ ContractInv'
      /\ finPc' = "idle" /\ pc' \notin {"enter", "thread", "alloc"}
      /\ InLoop' \/ Finished' => err'
  BY <1>1, <1>2, FinishedRow
<1>4. NumCaches' = NumCaches /\ ExtraRows' = ExtraRows
  BY <1>2, GeometryPrimed
<1>5. \A y : Final(y)' = Final(y)
  BY <1>2, GeometryPrimed DEF Final
<1>6. CacheInv'
  BY <1>2, <1>3, <1>4 DEF FrameInv, CacheInv
<1>7. OutInv'
  BY <1>2, <1>3, <1>5 DEF FrameInv, OutInv
<1> QED
  BY <1>1, <1>3, <1>6, <1>7 DEF FrameInv

\* A row from which lines are delivered is one EnterCritical decodes.
LEMMA DeliveringRow ==
  ASSUME FrameInv, finPc = "put", YStart < YEnd
  PROVE  ctx.mbY < BrMbY
<1>1. /\ cfg \in Configs /\ ctx.mbY \in Nat /\ ctx.mbY < cfg.mbH /\ ExtraRows \in 0..8
  BY CacheBounds
<1>2. YStart >= 16 * ctx.mbY - ExtraRows /\ YStart \in Int
  BY <1>1 DEF YStart
<1>3. YEnd <= cfg.cropBottom /\ YEnd \in Int
  BY <1>1, ConfigFacts DEF YEnd, Least
<1>4. /\ BrMbY \in Nat
      /\ BrMbY < cfg.mbH => cfg.cropBottom + ExtraRows <= 16 * BrMbY
  BY <1>1, Geometry
<1> QED
  BY <1>1, <1>2, <1>3, <1>4, ConfigFacts

\* The lines put() receives are the final ones: nothing below changes them any
\* more, and the row above was filtered if they depend on it.
LEMMA LinesRight ==
  ASSUME FrameInv, finPc = "put",
         NEW y \in Int, YStart <= y, y < YEnd, cfg.cropTop <= y
  PROVE  cache[Base + y - 16 * ctx.mbY] = Final(y)
<1> DEFINE m == ctx.mbY
<1>1. /\ cfg \in Configs /\ m \in Nat /\ m < cfg.mbH /\ Base \in Nat
      /\ ExtraRows \in 0..8
  BY CacheBounds
<1>2. YStart = 16 * m - (IF m = 0 THEN 0 ELSE ExtraRows)
  BY DEF YStart, FirstRow
<1>3. YEnd = Least(16 * (m + 1) - (IF m >= BrMbY - 1 THEN 0 ELSE ExtraRows),
                   cfg.cropBottom)
  BY DEF YEnd, LastRow
<1>4. m < BrMbY
  <2>1. YStart \in Int /\ YEnd \in Int
    BY <1>1, <1>2, <1>3, ConfigFacts DEF Least
  <2>2. YStart < YEnd
    BY <2>1
  <2> QED
    BY <2>2, DeliveringRow
<1>5. RowReady /\ (ctx.filterRow <=> FilteredRow(m))
  BY <1>4 DEF FrameInv, CacheInv, LinkInv
<1>6. /\ cfg.filter = 0 => ExtraRows = 0 /\ EdgeRows = 0 /\ ReachRows = 0
      /\ cfg.filter = 1 => ExtraRows = 2 /\ EdgeRows = 1 /\ ReachRows = 1
      /\ cfg.filter = 2 => ExtraRows = 8 /\ EdgeRows = 6 /\ ReachRows = 16
      /\ cfg.filter \in {0, 1, 2}
      /\ TlMbY \in Nat
      /\ cfg.filter = 2 => TlMbY = 0
      /\ cfg.filter = 1 /\ TlMbY > 0 => cfg.cropTop >= 16 * TlMbY + 2
      /\ BrMbY \in Nat /\ BrMbY <= cfg.mbH
      /\ BrMbY < cfg.mbH => cfg.cropBottom + ExtraRows <= 16 * BrMbY
      /\ cfg.cropTop \in Nat /\ cfg.cropBottom \in Nat /\ cfg.mbH \in Nat
  BY <1>1, Geometry, ConfigFacts
<1>7. /\ YEnd <= cfg.cropBottom
      /\ m < BrMbY - 1 => YEnd <= 16 * (m + 1) - ExtraRows
      /\ YEnd <= 16 * (m + 1)
      /\ YEnd \in Int
  BY <1>1, <1>6, <1>3 DEF Least
<1>8. /\ EdgeFiltered <=> (m = 0 \/ FilteredRow(m - 1))
      /\ FirstRow <=> m = 0
  BY DEF EdgeFiltered, FirstRow
<1>9. \A i \in 0..15 : /\ Raw(i) => cache[Base + i] = Line(16 * m + i, "raw")
                       /\ Own(i) => cache[Base + i] = Line(16 * m + i, "own")
  BY DEF Raw, Own
<1>10. /\ ~FilteredRow(m) => \A i \in 0..15 : Raw(i)
       /\ FilteredRow(m) => \A i \in 0..15 : EdgeFiltered \/ i >= ReachRows => Own(i)
       /\ m # 0 /\ FilteredRow(m) /\ FilteredRow(m - 1) =>
            \A k \in 1..ExtraRows :
              cache[Base - k] = Line(16 * m - k, IF k <= EdgeRows THEN "done" ELSE "own")
  BY <1>5, <1>8 DEF RowReady
<1> HIDE DEF m
<1>11. CASE y >= 16 * m
  <2> DEFINE i == y - 16 * m
  <2>1. i \in 0..15 /\ y = 16 * m + i /\ Base + y - 16 * m = Base + i
    BY <1>1, <1>7, <1>11
  <2>2. y % 16 = i /\ y \div 16 = m
    <3> HIDE DEF i
    <3> QED
      BY <1>1, <2>1
  <2>3. cfg.filter > 0 /\ i >= 16 - EdgeRows => m = cfg.mbH - 1
    BY <1>1, <1>4, <1>6, <1>7, <2>1
  <2>4. cfg.filter > 0 => FilteredRow(m) /\ (EdgeFiltered \/ i >= ReachRows)
    BY <1>1, <1>4, <1>6, <1>8, <2>1 DEF FilteredRow
  <2>5. cfg.filter = 0 => Raw(i)
    BY <1>10, <2>1 DEF FilteredRow
  <2>6. cfg.filter > 0 => Own(i)
    BY <1>10, <2>1, <2>4
  <2>7. Final(y) = Line(y, IF cfg.filter = 0 THEN "raw" ELSE "own")
    <3>1. cfg.filter > 0 => ~(i >= 16 - EdgeRows /\ m < cfg.mbH - 1)
      BY <1>1, <1>6, <2>3
    <3> HIDE DEF i
    <3> QED
      BY <1>6, <2>2, <3>1 DEF Final
  <2> HIDE DEF i
  <2> QED
    BY <1>6, <1>9, <2>1, <2>5, <2>6, <2>7 DEF m
<1>12. CASE y < 16 * m
  <2> DEFINE k == 16 * m - y
  <2>1. m > 0 /\ cfg.filter > 0 /\ k \in 1..ExtraRows /\ y = 16 * m - k
        /\ Base + y - 16 * m = Base - k
    BY <1>1, <1>6, <1>7, <1>12, <1>2
  <2>2. y % 16 = 16 - k /\ y \div 16 = m - 1
    BY <1>1, <1>6, <2>1
  <2>3. FilteredRow(m) /\ FilteredRow(m - 1)
    BY <1>1, <1>4, <1>6, <2>1 DEF FilteredRow
  <2>4. cache[Base - k] = Line(y, IF k <= EdgeRows THEN "done" ELSE "own")
    BY <1>10, <2>1, <2>3
  <2>5. Final(y) = Line(y, IF k <= EdgeRows THEN "done" ELSE "own")
    <3>1. 16 - k >= 16 - EdgeRows <=> k <= EdgeRows
      BY <1>6, <2>1
    <3>2. m - 1 < cfg.mbH - 1 /\ cfg.filter # 0
      BY <1>1, <1>6, <2>1
    <3> HIDE DEF k
    <3> QED
      BY <2>2, <3>1, <3>2 DEF Final
  <2> HIDE DEF k
  <2> QED
    BY <2>1, <2>4, <2>5 DEF m
<1> QED
  BY <1>1, <1>11, <1>12

\* The lines held back at the bottom of a row are where the next row looks for
\* them: in the cache below, or above the first one.
LEMMA RotatedReady ==
  ASSUME FrameInv, finPc = "put", ctx.mbY + 1 < BrMbY, FilteredRow(ctx.mbY),
         NEW k \in 1..ExtraRows
  PROVE  Rotated[16 * NextCache(ctx.id) - k] = Line(16 * (ctx.mbY + 1) - k, "own")
<1> DEFINE m == ctx.mbY
<1>1. /\ cfg \in Configs /\ m \in Nat /\ Base \in Nat
      /\ ctx.id \in Nat /\ ctx.id < NumCaches /\ NumCaches \in 1..3
      /\ Base = 16 * ctx.id
      /\ ExtraRows \in 0..8
      /\ DOMAIN cache = (-ExtraRows)..(16 * NumCaches - 1)
  BY CacheBounds
<1>2. /\ cfg.filter = 1 => ExtraRows = 2 /\ ReachRows = 1
      /\ cfg.filter = 2 => ReachRows = 16 /\ TlMbY = 0
      /\ cfg.filter \in {0, 1, 2} /\ cfg.filter > 0
      /\ BrMbY \in Nat
  BY <1>1, Geometry DEF FilteredRow
<1>3. m < BrMbY
  BY <1>1, <1>2
<1>4. RowReady /\ ctx.filterRow
  BY <1>3 DEF FrameInv, CacheInv, LinkInv
<1>5. m \in Int /\ Base \in Int /\ k \in Int
  BY <1>1
<1>6. 16 - k \in 0..15 /\ (EdgeFiltered \/ 16 - k >= ReachRows)
  BY <1>1, <1>2, <1>4 DEF EdgeFiltered, FirstRow, FilteredRow
<1>7. cache[Base + (16 - k)] = Line(16 * m + (16 - k), "own")
  BY <1>4, <1>6, Zenon DEF RowReady, Own
<1>8. Base + (16 - k) = Base + 16 + -k /\ 16 * m + (16 - k) = 16 * (m + 1) - k
  <2> HIDE DEF m
  <2> QED
    BY <1>5
<1>9. ~LastRow
  BY <1>1, <1>2 DEF LastRow
<1>10. CASE ctx.id + 1 = NumCaches
  <2>1. NextCache(ctx.id) = 0
    BY <1>1, <1>10 DEF NextCache
  <2>2. -k \in DOMAIN cache /\ -k < 0 /\ 16 * 0 - k = -k
    BY <1>1
  <2>3. Rotated[-k] = cache[Base + 16 + -k]
    BY <1>9, <1>10, <2>2 DEF Rotated
  <2> QED
    BY <1>7, <1>8, <2>1, <2>2, <2>3
<1>11. CASE ctx.id + 1 # NumCaches
  <2>1. NextCache(ctx.id) = ctx.id + 1
    <3>1. ctx.id + 1 < NumCaches
      BY <1>1, <1>11
    <3> QED
      BY <1>1, <3>1 DEF NextCache
  <2>2. 16 * (ctx.id + 1) - k = Base + (16 - k)
    <3>1. ctx.id \in Int /\ Base = 16 * ctx.id
      BY <1>1
    <3> QED
      BY <1>5, <3>1
  <2>3. Rotated = cache
    BY <1>11 DEF Rotated
  <2> QED
    BY <1>7, <1>8, <2>1, <2>2, <2>3
<1> QED
  BY <1>10, <1>11

\* The next row starts with the first line this one held back.
LEMMA NextStart ==
  ASSUME FrameInv, finPc = "put", ctx.mbY < BrMbY
  PROVE  /\ YStart = StartOf(ctx.mbY) /\ YStart \in Nat
         /\ YEnd = IF ctx.mbY + 1 < BrMbY
                   THEN Least(StartOf(ctx.mbY + 1), cfg.cropBottom)
                   ELSE cfg.cropBottom
         /\ YEnd \in Int
<1>1. /\ cfg \in Configs /\ ctx.mbY \in Nat /\ ExtraRows \in 0..8
      /\ BrMbY \in Nat /\ cfg.cropBottom <= 16 * BrMbY
      /\ cfg.cropBottom \in Nat
  BY CacheBounds, Geometry, ConfigFacts
<1>2. YStart = StartOf(ctx.mbY) /\ YStart \in Nat
  BY <1>1 DEF YStart, FirstRow, StartOf
<1>3. CASE ctx.mbY + 1 < BrMbY
  <2>1. ~LastRow
    BY <1>1, <1>3 DEF LastRow
  <2> QED
    <3>1. YEnd = Least(16 * (ctx.mbY + 1) - ExtraRows, cfg.cropBottom)
      BY <2>1 DEF YEnd
    <3>2. StartOf(ctx.mbY + 1) = 16 * (ctx.mbY + 1) - ExtraRows
      BY <1>1 DEF StartOf
    <3> QED
      BY <1>1, <1>2, <1>3, <3>1, <3>2 DEF Least
<1>4. CASE ~(ctx.mbY + 1 < BrMbY)
  <2>1. LastRow /\ BrMbY = ctx.mbY + 1
    BY <1>1, <1>4 DEF LastRow
  <2> QED
    <3>1. YEnd = Least(16 * (ctx.mbY + 1) - 0, cfg.cropBottom)
      BY <2>1 DEF YEnd
    <3> QED
      BY <1>1, <1>2, <1>4, <2>1, <3>1 DEF Least
<1> QED
  BY <1>3, <1>4

\* The alpha rows are asked for from where the plane stops.
LEMMA InOrder == FrameInv => AlphaInOrder
<1> SUFFICES ASSUME FrameInv, finPc = "put", NeedAlpha, ~AlphaDecoded
             PROVE  YStart = alphaRow
  BY DEF AlphaInOrder
<1>1. ctx.mbY < BrMbY
  BY DeliveringRow DEF NeedAlpha
<1>2. alphaRow \in {cfg.cropBottom, StartOf(ctx.mbY)}
  BY <1>1 DEF FrameInv, CacheInv, AlphaReady, NeedAlpha
<1> QED
  BY <1>1, <1>2, NextStart DEF AlphaDecoded

\* Each row starts below the one before.
LEMMA StartsGrow ==
  ASSUME cfg \in Configs, NEW m \in Nat
  PROVE  StartOf(m) \in Int /\ StartOf(m + 1) \in Int /\ StartOf(m) < StartOf(m + 1)
<1>1. ExtraRows \in 0..8
  BY ExtraRowsType
<1>2. m # 0 => StartOf(m) = 16 * m - ExtraRows
  BY DEF StartOf
<1>3. StartOf(0) = 0
  BY DEF StartOf
<1>4. StartOf(m + 1) = 16 * (m + 1) - ExtraRows
  <2>1. m + 1 # 0
    OBVIOUS
  <2> QED
    BY <2>1 DEF StartOf
<1> QED
  BY <1>1, <1>2, <1>4, <1>3

\* put() receives the lines from the first one not delivered yet, and the row
\* is left when they are.
LEMMA PutProgress ==
  ASSUME FrameInv, PutRows
  PROVE  /\ Delivered = DoneTo(ctx.mbY)
         /\ Delivered' = DoneTo(ctx.mbY + 1)
         /\ \/ out' = out /\ stopped' = stopped
            \/ /\ Delivered' \in (Delivered + 1)..(cfg.cropBottom - cfg.cropTop)
               /\ stopped' \in BOOLEAN
         /\ out' \in Seq(Deliveries)
         /\ \A k \in DOMAIN out' : \A i \in DOMAIN out'[k].rows :
              out'[k].rows[i] = Final(cfg.cropTop + out'[k].at + i - 1)
<1> DEFINE m == ctx.mbY
           from == Most(YStart, cfg.cropTop)
           rows == [i \in 1..(YEnd - from) |->
                      cache[Base + (from + i - 1) - 16 * ctx.mbY]]
<1>1. finPc = "put" /\ Delivered = DoneTo(m) /\ out \in Seq(Deliveries)
  BY DEF PutRows, FrameInv, OutInv
<1>2. /\ cfg \in Configs /\ m \in Nat /\ ExtraRows \in 0..8 /\ BrMbY \in Nat
      /\ cfg.cropTop \in Nat /\ cfg.cropBottom \in Nat
      /\ cfg.cropTop < cfg.cropBottom
      /\ Base \in Nat
  BY <1>1, CacheBounds, Geometry, ConfigFacts
<1>3. /\ YStart \in Int /\ YEnd \in Int /\ from \in Int
      /\ YStart <= from /\ cfg.cropTop <= from
      /\ from = YStart \/ from = cfg.cropTop
  BY <1>2 DEF YStart, YEnd, Most, Least
<1>4. m < BrMbY =>
        /\ YStart = StartOf(m) /\ YStart \in Nat
        /\ YEnd = IF m + 1 < BrMbY THEN Least(StartOf(m + 1), cfg.cropBottom)
                                   ELSE cfg.cropBottom
  BY <1>1, NextStart
<1>5. StartOf(m) \in Int /\ StartOf(m + 1) \in Int /\ StartOf(m) < StartOf(m + 1)
  BY <1>2, StartsGrow
<1>6. CASE /\ from < YEnd
           /\ out' = Append(out, [at |-> from - cfg.cropTop, rows |-> rows])
           /\ \E r \in BOOLEAN : stopped' = (stopped \/ ~r) /\ FinishReturns(r)
  <2>1. m < BrMbY
    BY <1>1, <1>3, <1>6, DeliveringRow
  <2>2. YEnd <= cfg.cropBottom
    BY <1>2, <1>4, <1>5, <2>1 DEF Least
  <2>3. \A i \in DOMAIN rows :
          rows[i] = Final(cfg.cropTop + (from - cfg.cropTop) + i - 1)
    <3> SUFFICES ASSUME NEW i \in 1..(YEnd - from)
                 PROVE  cache[Base + (from + i - 1) - 16 * ctx.mbY] =
                          Final(cfg.cropTop + (from - cfg.cropTop) + i - 1)
      OBVIOUS
    <3> DEFINE y == from + i - 1
    <3>1. y \in Int /\ YStart <= y /\ y < YEnd /\ cfg.cropTop <= y
          /\ cfg.cropTop + (from - cfg.cropTop) + i - 1 = y
      BY <1>2, <1>3
    <3> HIDE DEF y
    <3>2. cache[Base + y - 16 * ctx.mbY] = Final(y)
      BY <1>1, <3>1, LinesRight
    <3> QED
      BY <3>1, <3>2 DEF y
  <2>4. rows \in Seq([y : Int, stage : {"raw", "own", "done"}]) /\ Len(rows) = YEnd - from
    <3>1. YEnd - from \in Nat
      BY <1>3, <1>6
    <3>2. ASSUME NEW i \in 1..(YEnd - from)
          PROVE  rows[i] \in [y : Int, stage : {"raw", "own", "done"}]
      <4> DEFINE y == cfg.cropTop + (from - cfg.cropTop) + i - 1
      <4>1. y \in Int
        BY <1>2, <1>3
      <4>2. rows[i] = Final(y)
        BY <2>3
      <4> HIDE DEF y, rows
      <4>3. Final(y) \in {Line(y, "raw"), Line(y, "own"), Line(y, "done")}
        BY DEF Final
      <4> QED
        BY <4>1, <4>2, <4>3 DEF Line
    <3> DEFINE n == YEnd - from
               S == [y : Int, stage : {"raw", "own", "done"}]
    <3>3. rows \in [1..n -> S]
      BY <3>2
    <3>4. DOMAIN rows = 1..n
      OBVIOUS
    <3> HIDE DEF rows, S, n
    <3>5. n \in Nat
      BY <3>1 DEF n
    <3>6. rows \in Seq(S) /\ Len(rows) = n
      BY <3>3, <3>4, <3>5
    <3> QED
      BY <3>6 DEF n, S
  <2> DEFINE d == [at |-> from - cfg.cropTop, rows |-> rows]
  <2>5. d \in Deliveries /\ d.at = from - cfg.cropTop /\ d.rows = rows
    <3>1. from - cfg.cropTop \in Nat
      BY <1>2, <1>3
    <3> HIDE DEF rows, from
    <3> QED
      BY <2>4, <3>1 DEF Deliveries
  <2>6. out' = Append(out, d)
    BY <1>6
  <2> HIDE DEF d, rows
  <2>7. /\ out' \in Seq(Deliveries) /\ Len(out') = Len(out) + 1 /\ out' # <<>>
        /\ out'[Len(out')] = d
        /\ DOMAIN out' = 1..(Len(out) + 1) /\ DOMAIN out = 1..Len(out)
        /\ \A k \in 1..Len(out) : out'[k] = out[k]
        /\ out'[Len(out) + 1] = d
        /\ Len(out) \in Nat
    BY <1>1, <2>5, <2>6
  <2>8. Delivered' = (from - cfg.cropTop) + (YEnd - from)
    BY <2>4, <2>5, <2>7 DEF Delivered
  <2>9. Delivered' = YEnd - cfg.cropTop
    <3> HIDE DEF from
    <3> QED
      BY <1>2, <1>3, <2>8
  <2>10. YEnd - cfg.cropTop = DoneTo(m + 1) /\ DoneTo(m) = from - cfg.cropTop
    BY <1>2, <1>3, <1>4, <1>5, <1>6, <2>1, <2>2 DEF DoneTo, Most, Least
  <2>11. Delivered' \in (Delivered + 1)..(cfg.cropBottom - cfg.cropTop)
    <3> HIDE DEF from, m
    <3>1. Delivered = from - cfg.cropTop
      BY <1>1, <2>10
    <3> QED
      BY <1>2, <1>3, <1>6, <2>2, <2>9, <3>1
  <2>12. \A k \in DOMAIN out' : \A i \in DOMAIN out'[k].rows :
           out'[k].rows[i] = Final(cfg.cropTop + out'[k].at + i - 1)
    <3>1. \A k \in DOMAIN out : \A i \in DOMAIN out[k].rows :
            out[k].rows[i] = Final(cfg.cropTop + out[k].at + i - 1)
      BY DEF FrameInv, OutInv
    <3> SUFFICES ASSUME NEW k \in DOMAIN out', NEW i \in DOMAIN out'[k].rows
                 PROVE  out'[k].rows[i] = Final(cfg.cropTop + out'[k].at + i - 1)
      OBVIOUS
    <3>2. CASE k = Len(out) + 1
      <4>1. out'[k] = d
        BY <2>7, <3>2
      <4> QED
        BY <2>3, <2>5, <4>1
    <3>3. CASE k # Len(out) + 1
      <4>1. k \in DOMAIN out /\ out'[k] = out[k]
        BY <2>7, <3>3
      <4> QED
        BY <3>1, <4>1
    <3> QED
      BY <3>2, <3>3
  <2>13. stopped' \in BOOLEAN
    BY <1>6
  <2> QED
    BY <1>1, <2>7, <2>9, <2>10, <2>11, <2>12, <2>13
<1>7. CASE from >= YEnd /\ UNCHANGED <<out, stopped>>
  <2>1. Delivered' = Delivered
    BY <1>7 DEF Delivered
  <2>2. DoneTo(m + 1) = DoneTo(m)
    BY <1>2, <1>3, <1>4, <1>5, <1>7 DEF DoneTo, Most, Least
  <2>3. \A k \in DOMAIN out' : \A i \in DOMAIN out'[k].rows :
          out'[k].rows[i] = Final(cfg.cropTop + out'[k].at + i - 1)
    BY <1>7 DEF FrameInv, OutInv
  <2> QED
    BY <1>1, <1>7, <2>1, <2>2, <2>3
<1> QED
  BY <1>6, <1>7 DEF PutRows

\* The alpha plane is decoded up to the lines delivered, or entirely.
LEMMA AlphaProgress ==
  ASSUME FrameInv, PutRows, cfg.alpha, ctx.mbY + 1 < BrMbY
  PROVE  alphaRow' \in {cfg.cropBottom, StartOf(ctx.mbY + 1)}
<1> DEFINE m == ctx.mbY
<1>1. finPc = "put" /\ AlphaReady(m)
  BY DEF PutRows, FrameInv, CacheInv
<1>2. /\ cfg \in Configs /\ m \in Nat /\ ExtraRows \in 0..8 /\ BrMbY \in Nat
      /\ cfg.cropBottom \in Nat /\ alphaRow \in 0..cfg.cropBottom
  BY <1>1, CacheBounds, Geometry, ConfigFacts DEF FrameInv, IInv, TypeOK
<1>3. m < BrMbY
  BY <1>2
<1>4. /\ YStart = StartOf(m)
      /\ YEnd = Least(StartOf(m + 1), cfg.cropBottom)
  BY <1>1, <1>3, NextStart
<1>5. StartOf(m) \in Int /\ StartOf(m + 1) \in Int /\ StartOf(m) < StartOf(m + 1)
  BY <1>2, StartsGrow
<1>6. CASE NeedAlpha /\ ~AlphaDecoded
  BY <1>4, <1>6 DEF PutRows, AlphaTargets, Least
<1>7. CASE AlphaDecoded
  BY <1>7 DEF PutRows, AlphaDecoded
<1>8. CASE ~NeedAlpha /\ ~AlphaDecoded
  <2>1. ~(YStart < YEnd)
    BY <1>8 DEF NeedAlpha
  <2>2. alphaRow = StartOf(m)
    BY <1>1, <1>3, <1>8 DEF AlphaReady, AlphaDecoded
  <2> QED
    BY <1>2, <1>4, <1>5, <1>8, <2>1, <2>2 DEF Least, AlphaDecoded
<1> QED
  BY <1>6, <1>7, <1>8

\* The row is delivered, and the next one finds what it needs.
LEMMA PutFrameInv == FrameInv /\ PutRows => FrameInv'
<1> SUFFICES ASSUME FrameInv, PutRows PROVE FrameInv'
  OBVIOUS
<1> DEFINE m == ctx.mbY
<1>1. IInv'
  BY FinishIInv DEF FrameInv
<1>2. /\ finPc = "put" /\ cache' = Rotated
      /\ UNCHANGED <<cfg, topRow, mem, hooks, verdict>>
  BY DEF PutRows
<1>3. PICK r \in BOOLEAN : FinishReturns(r) /\ stopped' \in {stopped, stopped \/ ~r}
  <2>1. CASE UNCHANGED <<out, stopped>> /\ FinishReturns(TRUE)
    BY <2>1
  <2>2. CASE \E r \in BOOLEAN : stopped' = (stopped \/ ~r) /\ FinishReturns(r)
    BY <2>2
  <2> QED
    BY <2>1, <2>2 DEF PutRows
<1>4. /\ LinkInv' /\ DataInv' /\ ContractInv'
      /\ finPc' = "idle" /\ pc' \notin {"enter", "thread", "alloc"}
      /\ ctx' = ctx
      /\ r => mbY' = m + 1 /\ cacheId' = NextCache(ctx.id)
      /\ ~r /\ (InLoop' \/ Finished') => err'
  BY <1>1, <1>2, <1>3, FinishedRow
<1>5. /\ NumCaches' = NumCaches /\ ExtraRows' = ExtraRows /\ TlMbY' = TlMbY
      /\ BrMbY' = BrMbY /\ RowBound' = RowBound
  BY <1>2, GeometryPrimed
<1>6. /\ cfg \in Configs /\ m \in Nat /\ NumCaches \in 1..3
      /\ RowBound \in Nat /\ RowBound <= cfg.mbH /\ cfg.mbH \in Nat
  BY <1>2, CacheBounds, Geometry, ConfigFacts
<1>7. DOMAIN cache' = DOMAIN cache
  BY <1>2 DEF Rotated
<1>8. mem' => DOMAIN cache' = (-ExtraRows')..(16 * NumCaches' - 1)
  BY <1>2, <1>5, <1>7 DEF FrameInv, CacheInv
<1>9. ASSUME r, InLoop'
      PROVE  topRow' = mbY' - 1 /\ AboveReady(mbY, cacheId)' /\ AlphaReady(mbY)'
  <2>1. topRow' = mbY' - 1
    <3>1. mbY' < RowBound /\ mbY' = m + 1
      BY <1>1, <1>4, <1>5, <1>9 DEF IInv, LoopInv, InLoop
    <3>2. m < cfg.mbH - 1
      BY <1>6, <3>1
    <3> QED
      BY <1>2, <1>6, <3>1, <3>2 DEF FrameInv, CacheInv
  <2>2. AboveReady(mbY, cacheId)'
    <3> SUFFICES ASSUME m + 1 < BrMbY, FilteredRow(m), NEW k \in 1..ExtraRows
                 PROVE  cache'[16 * NextCache(ctx.id) - k] = Line(16 * (m + 1) - k, "own")
      <4>1. (m + 1) - 1 = m
        BY <1>6
      <4> QED
        BY <1>2, <1>4, <1>5, <1>9, <4>1 DEF AboveReady, FilteredRow
    <3> QED
      BY <1>2, RotatedReady
  <2>3. AlphaReady(mbY)'
    <3> SUFFICES ASSUME cfg.alpha, m + 1 < BrMbY
                 PROVE  alphaRow' \in {cfg.cropBottom, StartOf(m + 1)}
      BY <1>2, <1>4, <1>5, <1>9 DEF AlphaReady, StartOf
    <3> QED
      BY AlphaProgress
  <2> QED
    BY <2>1, <2>2, <2>3
<1>10. CacheInv'
  BY <1>4, <1>8, <1>9 DEF CacheInv
<1>11. Delivered' = DoneTo(m + 1)
       /\ out' \in Seq(Deliveries)
       /\ \A k \in DOMAIN out' : \A i \in DOMAIN out'[k].rows :
            out'[k].rows[i] = Final(cfg.cropTop + out'[k].at + i - 1)
  BY PutProgress
<1>12. \A y : Final(y)' = Final(y)
  BY <1>2, GeometryPrimed DEF Final
<1>13. \A k \in DOMAIN out' : \A i \in DOMAIN out'[k].rows :
         out'[k].rows[i] = Final(cfg.cropTop + out[k].at + i - 1)'
  BY <1>2, <1>11, <1>12
<1>14. r => Delivered' = DoneTo(mbY)'
  BY <1>2, <1>4, <1>5, <1>11 DEF DoneTo, StartOf
<1>15. OutInv'
  BY <1>4, <1>11, <1>13, <1>14 DEF OutInv
<1> QED
  BY <1>1, <1>4, <1>10, <1>15 DEF FrameInv

\* The invariant holds of every decoding, and the next theorems follow from it.
LEMMA NextFrameInv == FrameInv /\ [Next]_vars => FrameInv'
  BY SetupFrameInv, AllocateFrameInv, ParsedFrameInv, LaunchFrameInv, QuietFrameInv,
     IdleFrameInv, ReconstructFrameInv, FilterFrameInv, AlphaFailsFrameInv,
     FailedFrameInv, PutFrameInv
     DEF Next, MainStep, FinishStep, ClientStep, Done

\* For every frame, cropping area, filter, thread method and schedule: every
\* line put() receives is the final line of the picture, and alpha rows are
\* requested in order.
THEOREM LinesAreFinal == Spec => []OutputCorrect
<1>1. FrameInv => OutputCorrect
  BY InOrder DEF FrameInv, OutInv, OutputCorrect
<1> QED
  BY <1>1, InitFrameInv, NextFrameInv, PTL DEF Spec

\* A step of the decoder is a step of the contract, or none of its business.
LEMMA ContractStep ==
  FrameInv /\ [Next]_vars => [FrameContract!Next]_(FrameContract!outputVars)
<1> SUFFICES ASSUME FrameInv, [Next]_vars
             PROVE  [FrameContract!Next]_(FrameContract!outputVars)
  OBVIOUS
<1>1. cfg' = cfg /\ cfg \in Configs
  BY DEF vars, Next, MainStep, FinishStep, ClientStep, Done, EnterCritical,
         InitThreadContext, AllocateMemory, RowParsed, RowCorrupted, Suspend, SyncRow,
         LaunchRow, FrameSync, ExitCritical, EndWorker, FreeMemory, WriteError,
         Reconstruct, Filter, AlphaFails, PutRows, FinishFailed, Resume, Delete,
         FrameInv, IInv, TypeOK
<1>2. CASE UNCHANGED <<hooks, out, stopped, verdict>>
  <2>1. Delivered' = Delivered
    BY <1>2 DEF Delivered
  <2> QED
    BY <1>1, <1>2, <2>1 DEF FrameContract!outputVars
<1>3. CASE EnterCritical
  <2>1. /\ hooks = "none" /\ hooks' \in {"open", "refused"}
        /\ UNCHANGED <<out, stopped, verdict>>
    BY <1>3 DEF EnterCritical, samples, FrameInv, ContractInv
  <2>2. Delivered' = Delivered
    BY <2>1 DEF Delivered
  <2> QED
    BY <1>1, <2>1, <2>2 DEF FrameContract!Next, FrameContract!Setup
<1>4. CASE ExitCritical
  <2>1. /\ hooks = "open" /\ hooks' = "closed"
        /\ UNCHANGED <<out, stopped, verdict>>
    BY <1>4 DEF ExitCritical, samples, FrameInv, ContractInv
  <2>2. Delivered' = Delivered
    BY <2>1 DEF Delivered
  <2> QED
    BY <1>1, <2>1, <2>2 DEF FrameContract!Next, FrameContract!Teardown
<1>5. CASE FreeMemory
  <2>1. /\ verdict = "none" /\ verdict' = (IF ok THEN "ok" ELSE "failed")
        /\ hooks = "closed" \/ (hooks = "refused" /\ ~ok)
        /\ UNCHANGED <<hooks, out, stopped>>
        /\ pc = "free"
    BY <1>5 DEF FreeMemory, samples, FrameInv, ContractInv
  <2>2. Delivered' = Delivered
    BY <2>1 DEF Delivered
  <2>3. ok => Delivered = cfg.cropBottom - cfg.cropTop /\ ~stopped
    <3> SUFFICES ASSUME ok PROVE Delivered = cfg.cropBottom - cfg.cropTop /\ ~stopped
      OBVIOUS
    <3>1. Finished /\ ~err /\ finPc = "idle"
      BY <2>1 DEF Finished, FrameInv, ContractInv, IInv, JobInv
    <3>2. mbY = RowBound /\ Delivered = DoneTo(mbY) /\ ~stopped
      BY <3>1 DEF FrameInv, ContractInv, OutInv
    <3>3. ~(RowBound < BrMbY)
      BY <1>1, Geometry
    <3> QED
      BY <3>2, <3>3 DEF DoneTo
  <2> QED
    BY <1>1, <2>1, <2>2, <2>3 DEF FrameContract!Next, FrameContract!Return
<1>6. CASE PutRows
  <2>1. UNCHANGED <<hooks, verdict>>
    BY <1>6 DEF PutRows
  <2>2. hooks = "open" /\ ~stopped
    BY <1>1, <1>6, ConfigFacts
       DEF PutRows, FrameInv, ContractInv, LinkInv, InLoop, IInv, TypeOK, JobInv
  <2>3. \/ out' = out /\ stopped' = stopped
        \/ /\ Delivered' \in (Delivered + 1)..(cfg.cropBottom - cfg.cropTop)
           /\ stopped' \in BOOLEAN
    BY <1>6, PutProgress
  <2> QED
    BY <1>1, <1>2, <2>1, <2>2, <2>3 DEF FrameContract!Next, FrameContract!Put
<1>7. CASE ~(EnterCritical \/ ExitCritical \/ FreeMemory \/ PutRows)
  <2>1. UNCHANGED <<hooks, out, stopped, verdict>>
    BY <1>7 DEF vars, samples, outcome, Next, MainStep, FinishStep, ClientStep, Done,
         InitThreadContext, AllocateMemory, RowParsed, RowCorrupted, Suspend, SyncRow,
         LaunchRow, FrameSync, EndWorker, WriteError, Reconstruct, Filter, AlphaFails,
         FinishFailed, Resume, Delete
  <2> QED
    BY <1>2, <2>1
<1> QED
  BY <1>3, <1>4, <1>5, <1>6, <1>7

\* The decoder of a frame implements the contract of vp8_dec.h: setup() first,
\* lines in order and once, none after a refusal, teardown() once if setup()
\* succeeded, and success only when every line was delivered.
THEOREM ImplementsFrameOutput == Spec => RefinesFrameOutput
<1>1. Init => FrameContract!Init
  <2> SUFFICES ASSUME Init PROVE FrameContract!Init
    OBVIOUS
  <2>1. cfg.cropBottom - cfg.cropTop \in Nat
    BY ConfigFacts DEF Init
  <2>2. Delivered = 0
    BY DEF Init, Delivered
  <2> QED
    BY <2>1, <2>2 DEF Init, FrameContract!Init
<1> QED
  BY <1>1, InitFrameInv, NextFrameInv, ContractStep, PTL
     DEF Spec, RefinesFrameOutput, FrameContract!Spec
=============================================================================
