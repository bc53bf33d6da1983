---------------------------- MODULE Worker_proofs ----------------------------
(***************************************************************************)
(* The invariants of Worker and its refinement of WorkerContract, for any  *)
(* set of jobs.  Everything follows from one inductive invariant: who      *)
(* holds the mutex is determined by the two program counters, and so is    *)
(* what status_ can be.                                                    *)
(***************************************************************************)
EXTENDS Worker, TLAPS

\* The mutex is held by the thread whose program counter says so, so the two
\* are never both inside, and only a thread inside cond_wait() is blocked.
MutexInv ==
  /\ (mutex = "main") <=> (mainPc \in {"create", "created", "test", "unlock"})
  /\ (mutex = "thr") <=> (thrPc \in {"test", "exec"})
  /\ "main" \in waiting => mainPc = "wait"
  /\ "thr" \in waiting => thrPc = "wait"

\* The thread exists from pthread_create() to pthread_join().
ThreadInv ==
  /\ impl \/ mainPc \in {"client", "reset"}
  /\ (thrPc = "none") <=> (~impl \/ mainPc = "create")
  /\ mainPc = "created" => thrPc = "lock"
  /\ thrPc \in {"quit", "exited"} => status = "NOT_OK" /\ mainPc # "created"

\* Which function the caller is in.
CallInv ==
  /\ (call = "none") <=> (mainPc \in {"client", "reset", "create", "created"})
  /\ mainPc = "unlock" => call = "Sync"
  /\ mainPc = "signal" => call \in {"Launch", "End"}
  /\ mainPc = "join" => call = "End"

\* status_ is NOT_OK outside a successful Reset() .. End(), and WORK exactly
\* from Launch() until the hook returned.
StatusInv ==
  /\ (status = "NOT_OK") <=> (\/ ~impl
                              \/ mainPc \in {"create", "created", "join"}
                              \/ mainPc = "signal" /\ call = "End")
  /\ mainPc = "unlock" => status = "OK"
  /\ thrPc = "exec" => status = "WORK"
  /\ owned => status # "WORK"

\* Nobody else records an error while a hook executes, so writing back an old
\* had_error can bring an error back after a Reset() but never loses one.
ErrorInv ==
  /\ failed => hadError
  /\ thrPc = "exec" => (hadError => seen)

IInv ==
  /\ TypeOK
  /\ MutexInv
  /\ ThreadInv
  /\ CallInv
  /\ StatusInv
  /\ ErrorInv
  /\ ExactlyOnce
  /\ StableData

USE DEF vars, workerVars, implVars, thrVars, histVars, Threads, Jobs

\* A signal only takes threads out of the wait set.
LEMMA SignalWakes == Signal => waiting' \subseteq waiting
  BY Zenon DEF Signal

\* Hooks return a Boolean.
LEMMA HookResultsType == \A j : HookResults(j) \subseteq BOOLEAN
  BY DEF HookResults

\* WebPWorkerInit() establishes the invariant.
LEMMA InitIInv == Init => IInv
  BY DEF Init, IInv, TypeOK, MutexInv, ThreadInv, CallInv, StatusInv, ErrorInv,
         ExactlyOnce, StableData

\* What the caller does between two calls, or in a call without a thread, keeps it.
LEMMA ClientIInv == IInv /\ ClientStep => IInv'
<1> SUFFICES ASSUME IInv, ClientStep PROVE IInv'
  OBVIOUS
<1> USE DEF IInv, TypeOK, MutexInv, ThreadInv, CallInv, StatusInv, ErrorInv,
            ExactlyOnce, StableData
<1>1. ASSUME NEW j \in Jobs, SetHook(j) PROVE IInv'
  BY <1>1 DEF SetHook
<1>2. ASSUME NEW f \in {"Sync", "Launch", "End"}, Call(f) PROVE IInv'
  BY <1>2 DEF Call, EnterChangeState
<1>3. CASE SyncWithoutThread
  BY <1>3 DEF SyncWithoutThread
<1>4. CASE Execute
  <2>1. PICK ok \in BOOLEAN : /\ hadError' = ErrorAfter(hadError, ok)
                              /\ failed' = (failed \/ ~ok)
    BY <1>4, HookResultsType DEF Execute
  <2>2. hadError' \in BOOLEAN /\ failed' \in BOOLEAN
    BY <2>1 DEF ErrorAfter
  <2>3. failed' => hadError'
    BY <2>1 DEF ErrorAfter
  <2> QED
    BY <1>4, <2>2, <2>3 DEF Execute
<1>5. CASE Reset
  <2>1. TypeOK' /\ ErrorInv'
    BY <1>5 DEF Reset
  <2>2. MutexInv' /\ ThreadInv' /\ CallInv' /\ StatusInv'
    BY <1>5 DEF Reset
  <2> QED
    BY <1>5, <2>1, <2>2 DEF Reset
<1> QED
  BY <1>1, <1>2, <1>3, <1>4, <1>5 DEF ClientStep

\* Every step of the caller inside Reset(), ChangeState() and End() keeps it.
LEMMA MainIInv == IInv /\ MainStep => IInv'
<1> SUFFICES ASSUME IInv, MainStep PROVE IInv'
  OBVIOUS
<1> USE DEF IInv, TypeOK, MutexInv, ThreadInv, CallInv, StatusInv, ErrorInv,
            ExactlyOnce, StableData
<1>1. CASE ResetUp
  BY <1>1 DEF ResetUp, EnterChangeState
<1>2. CASE ResetAlloc
  BY <1>2 DEF ResetAlloc, Acquire
<1>3. CASE ResetCreate
  BY <1>3 DEF ResetCreate, Release
<1>4. CASE ResetPublish
  BY <1>4 DEF ResetPublish, Release
<1>5. CASE ChangeLock
  BY <1>5 DEF ChangeLock, Acquire
<1>6. CASE ChangeWait
  BY <1>6 DEF ChangeWait, Wait, Release
<1>7. CASE ChangeWoken
  BY <1>7 DEF ChangeWoken, Woken, Acquire
<1>8. CASE ChangeAssign
  <2>1. CASE call = "Sync"
    BY <1>8, <2>1 DEF ChangeAssign, NewStatus
  <2>2. CASE call = "Launch"
    <3>1. /\ status' = "WORK" /\ mutex' = "none" /\ mainPc' = "signal"
          /\ runs' = 0 /\ owned' = FALSE
      BY <1>8, <2>2 DEF ChangeAssign, NewStatus, Release
    <3> QED
      BY <1>8, <2>2, <3>1 DEF ChangeAssign
  <2>3. CASE call = "End"
    <3>1. /\ status' = "NOT_OK" /\ mutex' = "none" /\ mainPc' = "signal"
          /\ runs' = runs /\ owned' = owned
      BY <1>8, <2>3 DEF ChangeAssign, NewStatus, Release
    <3> QED
      BY <1>8, <2>3, <3>1 DEF ChangeAssign
  <2> QED
    BY <1>8, <2>1, <2>2, <2>3 DEF ChangeAssign
<1>9. CASE ChangeUnlock
  BY <1>9 DEF ChangeUnlock, Release
<1>10. CASE ChangeSignal
  <2>1. waiting' \subseteq waiting
    BY <1>10, SignalWakes DEF ChangeSignal
  <2>2. waiting' \subseteq Threads
    BY <2>1
  <2>3. TypeOK'
    BY <1>10, <2>2 DEF ChangeSignal
  <2>4. MutexInv' /\ ThreadInv' /\ CallInv' /\ StatusInv'
    BY <1>10, <2>1 DEF ChangeSignal
  <2> QED
    BY <1>10, <2>3, <2>4 DEF ChangeSignal
<1>11. CASE EndJoin
  BY <1>11 DEF EndJoin
<1> QED
  BY <1>1, <1>2, <1>3, <1>4, <1>5, <1>6, <1>7, <1>8, <1>9, <1>10, <1>11
     DEF MainStep

\* Every step of ThreadLoop(), spurious wakeups included, keeps it.
LEMMA ThrIInv == IInv /\ (ThrStep \/ SpuriousWakeup) => IInv'
<1> SUFFICES ASSUME IInv, ThrStep \/ SpuriousWakeup PROVE IInv'
  OBVIOUS
<1> USE DEF IInv, TypeOK, MutexInv, ThreadInv, CallInv, StatusInv, ErrorInv,
            ExactlyOnce, StableData
<1>1. CASE ThrLock
  BY <1>1 DEF ThrLock, Acquire
<1>2. CASE ThrWait
  BY <1>2 DEF ThrWait, Wait, Release
<1>3. CASE ThrWoken
  BY <1>3 DEF ThrWoken, Woken, Acquire
<1>4. CASE ThrExecute
  BY <1>4 DEF ThrExecute
<1>5. CASE ThrFinish
  <2>1. PICK ok \in BOOLEAN, old \in {seen, hadError} :
          /\ hadError' = ErrorAfter(old, ok)
          /\ failed' = (failed \/ ~ok)
    BY <1>5, HookResultsType DEF ThrFinish
  <2>2. hadError' \in BOOLEAN /\ failed' \in BOOLEAN
    BY <2>1 DEF ErrorAfter
  <2>3. failed' => hadError'
    BY <1>5, <2>1 DEF ErrorAfter, ThrFinish
  <2>4. runs = 0 /\ runs' = 1
    BY <1>5 DEF ThrFinish
  <2> QED
    BY <1>5, <2>2, <2>3, <2>4 DEF ThrFinish, Release
<1>6. CASE ThrQuit
  BY <1>6 DEF ThrQuit, Release
<1>7. CASE ThrSignal
  <2>1. waiting' \subseteq waiting
    BY <1>7, SignalWakes DEF ThrSignal
  <2>2. waiting' \subseteq Threads
    BY <2>1
  <2>3. TypeOK'
    BY <1>7, <2>2 DEF ThrSignal
  <2>4. MutexInv' /\ ThreadInv' /\ CallInv' /\ StatusInv'
    BY <1>7, <2>1 DEF ThrSignal
  <2> QED
    BY <1>7, <2>3, <2>4 DEF ThrSignal
<1>8. CASE SpuriousWakeup
  BY <1>8 DEF SpuriousWakeup
<1> QED
  BY <1>1, <1>2, <1>3, <1>4, <1>5, <1>6, <1>7, <1>8 DEF ThrStep

\* Nothing of the invariant depends on what a stuttering step changes.
LEMMA StutterIInv == IInv /\ UNCHANGED vars => IInv'
  BY DEF IInv, TypeOK, MutexInv, ThreadInv, CallInv, StatusInv, ErrorInv,
         ExactlyOnce, StableData

\* The invariant is inductive: it holds of Init() and every step keeps it.
THEOREM Inductive == Spec => []IInv
<1>1. IInv /\ [Next]_vars => IInv'
  BY ClientIInv, MainIInv, ThrIInv, StutterIInv DEF Next
<1> QED
  BY InitIInv, <1>1, PTL DEF Spec

\* Every variable keeps to its type.
THEOREM TypeCorrect == Spec => []TypeOK
<1>1. IInv => TypeOK
  BY DEF IInv
<1> QED
  BY <1>1, Inductive, PTL

\* Between Sync() (or End()) and the next Launch() no job is pending or
\* running, so the caller may change the data; and the mutex and the
\* condition are destroyed after the thread's last use.
THEOREM NothingInUseHolds == Spec => []NothingInUse
<1>1. IInv => Quiescent
  BY DEF IInv, StatusInv, Quiescent
<1>2. IInv => ImplOutlivesThread
  BY DEF IInv, TypeOK, MutexInv, ThreadInv, ImplOutlivesThread
<1> QED
  BY <1>1, <1>2, Inductive, PTL DEF NothingInUse

\* A job is executed once, on the data it was launched with.
THEOREM JobsDone == Spec => [](ExactlyOnce /\ StableData)
<1>1. IInv => ExactlyOnce /\ StableData
  BY DEF IInv
<1> QED
  BY <1>1, Inductive, PTL

\* The failure of a hook is kept until Reset(), whatever runs after it.
THEOREM FailuresRemembered == Spec => []FailureRemembered
<1>1. IInv => FailureRemembered
  BY DEF IInv, ErrorInv, FailureRemembered
<1> QED
  BY <1>1, Inductive, PTL

-----------------------------------------------------------------------------
(* The refinement.  The steps of the contract are: the end of Reset() comes *)
(* up (ResetPublish), the assignment of the status (ChangeAssign), the end *)
(* of the hook (ThrFinish) and the return of Sync() and End(); the others  *)
(* only move the mutex, the wait set and the program counters.             *)

\* A step of the caller outside ChangeState() and Reset().
LEMMA ClientRefines == IInv /\ ClientStep => Contract!Next \/ UNCHANGED Contract!contractVars
<1> SUFFICES ASSUME IInv, ClientStep
             PROVE Contract!Next \/ UNCHANGED Contract!contractVars
  OBVIOUS
<1> USE DEF Contract!contractVars
<1>1. ASSUME NEW j \in Jobs, SetHook(j) PROVE UNCHANGED Contract!contractVars
  BY <1>1 DEF SetHook, IInv, StatusInv
<1>2. ASSUME NEW f \in {"Sync", "Launch", "End"}, Call(f)
      PROVE UNCHANGED Contract!contractVars
  BY <1>2 DEF Call
<1>3. CASE SyncWithoutThread
  <2>1. status # "WORK"
    BY <1>3 DEF SyncWithoutThread, IInv, StatusInv
  <2>2. Contract!Sync
    BY <1>3, <2>1 DEF SyncWithoutThread, Contract!Sync
  <2> QED
    BY <2>2 DEF Contract!Next
<1>4. CASE Execute
  <2>1. status # "WORK"
    BY <1>4 DEF Execute, IInv, StatusInv
  <2>2. PICK ok \in BOOLEAN : hadError' = (hadError \/ ~ok)
    BY <1>4, HookResultsType DEF Execute, ErrorAfter
  <2>3. Contract!RunInline(ok)
    BY <1>4, <2>1, <2>2 DEF Execute, Contract!RunInline
  <2> QED
    BY <2>3 DEF Contract!Next
<1>5. CASE Reset
  BY <1>5 DEF Reset, Contract!Next, Contract!ClearError
<1> QED
  BY <1>1, <1>2, <1>3, <1>4, <1>5 DEF ClientStep

\* A step of Reset(), ChangeState() or End().
LEMMA MainRefines == IInv /\ MainStep => Contract!Next \/ UNCHANGED Contract!contractVars
<1> SUFFICES ASSUME IInv, MainStep
             PROVE Contract!Next \/ UNCHANGED Contract!contractVars
  OBVIOUS
<1> USE DEF Contract!contractVars
<1>1. CASE ResetUp
  BY <1>1 DEF ResetUp
<1>2. CASE ResetAlloc
  BY <1>2 DEF ResetAlloc
<1>3. CASE ResetCreate
  BY <1>3 DEF ResetCreate
<1>4. CASE ResetPublish
  <2>1. status = "NOT_OK"
    BY <1>4 DEF ResetPublish, IInv, StatusInv
  <2>2. Contract!Start
    BY <1>4, <2>1 DEF ResetPublish, Contract!Start
  <2> QED
    BY <2>2 DEF Contract!Next
<1>5. CASE ChangeLock
  BY <1>5 DEF ChangeLock
<1>6. CASE ChangeWait
  BY <1>6 DEF ChangeWait
<1>7. CASE ChangeWoken
  BY <1>7 DEF ChangeWoken
<1>8. CASE ChangeAssign
  <2>1. status = "OK" /\ data \in Jobs
    BY <1>8 DEF ChangeAssign, IInv, TypeOK
  <2>2. CASE NewStatus = "OK"
    BY <1>8, <2>2 DEF ChangeAssign
  <2>3. CASE NewStatus = "WORK"
    <3>1. Contract!Accept(data)
      BY <1>8, <2>1, <2>3 DEF ChangeAssign, Contract!Accept
    <3> QED
      BY <2>1, <3>1 DEF Contract!Next
  <2>4. CASE NewStatus = "NOT_OK"
    <3>1. status' = "NOT_OK" /\ owned' = owned
      BY <1>8, <2>4 DEF ChangeAssign, IInv, TypeOK
    <3>2. Contract!Stop
      BY <1>8, <2>1, <3>1 DEF ChangeAssign, Contract!Stop
    <3> QED
      BY <3>2 DEF Contract!Next
  <2>5. NewStatus \in {"OK", "WORK", "NOT_OK"}
    BY <1>8 DEF ChangeAssign, NewStatus, IInv, TypeOK, CallInv
  <2> QED
    BY <2>2, <2>3, <2>4, <2>5
<1>9. CASE ChangeUnlock
  <2>1. status = "OK"
    BY <1>9 DEF ChangeUnlock, IInv, StatusInv
  <2>2. Contract!Sync
    BY <1>9, <2>1 DEF ChangeUnlock, Contract!Sync
  <2> QED
    BY <2>2 DEF Contract!Next
<1>10. CASE ChangeSignal
  BY <1>10 DEF ChangeSignal
<1>11. CASE EndJoin
  <2>1. status = "NOT_OK"
    BY <1>11 DEF EndJoin, IInv, StatusInv
  <2>2. Contract!Reclaim
    BY <1>11, <2>1 DEF EndJoin, Contract!Reclaim
  <2> QED
    BY <2>2 DEF Contract!Next
<1> QED
  BY <1>1, <1>2, <1>3, <1>4, <1>5, <1>6, <1>7, <1>8, <1>9, <1>10, <1>11
     DEF MainStep

\* A step of ThreadLoop(): only the end of the hook is visible.
LEMMA ThrRefines ==
  IInv /\ (ThrStep \/ SpuriousWakeup)
    => Contract!Next \/ UNCHANGED Contract!contractVars
<1> SUFFICES ASSUME IInv, ThrStep \/ SpuriousWakeup
             PROVE Contract!Next \/ UNCHANGED Contract!contractVars
  OBVIOUS
<1> USE DEF Contract!contractVars
<1>1. CASE ThrFinish
  <2>1. status = "WORK"
    BY <1>1 DEF ThrFinish, IInv, StatusInv
  <2>2. hadError' \in BOOLEAN
    BY ThrIInv, <1>1 DEF ThrStep, IInv, TypeOK
  <2>3. PICK ok \in BOOLEAN, old \in {seen, hadError} : hadError' = (old \/ ~ok)
    BY <1>1, HookResultsType DEF ThrFinish, ErrorAfter
  <2>4. hadError' = (hadError \/ ~FALSE) \/ hadError' = (hadError \/ ~TRUE)
    <3>1. hadError => hadError'
      BY <1>1, <2>3 DEF ThrFinish, IInv, ErrorInv
    <3> QED
      BY <2>2, <3>1
  <2>5. Contract!Complete(FALSE) \/ Contract!Complete(TRUE)
    BY <1>1, <2>1, <2>4 DEF ThrFinish, Contract!Complete
  <2> QED
    BY <2>5 DEF Contract!Next
<1>2. ASSUME ThrLock \/ ThrWait \/ ThrWoken \/ ThrExecute \/ ThrQuit \/ ThrSignal
      PROVE UNCHANGED Contract!contractVars
  BY <1>2 DEF ThrLock, ThrWait, ThrWoken, ThrExecute, ThrQuit, ThrSignal
<1>3. CASE SpuriousWakeup
  BY <1>3 DEF SpuriousWakeup
<1> QED
  BY <1>1, <1>2, <1>3 DEF ThrStep

\* The mutex, the condition variable and the two program counters implement
\* the contract the callers of the worker interface rely on.
THEOREM WorkerRefinesContract == Spec => RefinesContract
<1>1. Init => Contract!Init
  BY DEF Init, Contract!Init
<1>2. IInv /\ [Next]_vars => [Contract!Next]_(Contract!contractVars)
  <2>1. UNCHANGED vars => UNCHANGED Contract!contractVars
    BY DEF Contract!contractVars
  <2> QED
    BY <2>1, ClientRefines, MainRefines, ThrRefines DEF Next
<1> QED
  BY <1>1, <1>2, Inductive, PTL DEF Spec, RefinesContract, Contract!Spec
=============================================================================
