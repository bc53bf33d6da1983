------------------------------- MODULE Worker -------------------------------
(***************************************************************************)
(* The worker thread of src/utils/thread_utils.c (pthread build): one      *)
(* caller thread ("main"), one thread running ThreadLoop() ("thr"), the    *)
(* mutex_ and the single condition_ they share.                            *)
(*                                                                         *)
(* A step is a piece of code that cannot be interleaved with the other     *)
(* thread: what is done under the mutex is one step unless it waits, calls *)
(* the hook or creates the thread.  pthread_cond_signal() is called after  *)
(* the unlock, as in the code, and is a step of its own.                   *)
(***************************************************************************)
EXTENDS Naturals

CONSTANTS
  Job,      \* non-NULL values of the hook/data1/data2 fields
  NoHook    \* the fields as Init() leaves them: hook == NULL

ASSUME JobAssumption == NoHook \notin Job

VARIABLES
  status,   \* worker->status_
  impl,     \* worker->impl_ != NULL
  hadError, \* worker->had_error
  data,     \* worker->hook, data1, data2
  mutex,    \* owner of impl->mutex_: "main", "thr" or "none"
  waiting,  \* threads blocked in pthread_cond_wait(&impl->condition_, ...)
  mainPc,   \* where the caller is; "client" outside the worker interface
  call,     \* the interface function it is executing
  thrPc,    \* where ThreadLoop() is; "none" when there is no thread
  running,  \* the job ThreadLoop() passed to the hook
  seen,     \* had_error when that hook was called (see ThrFinish)
  runs,     \* history: times the job launched last has been executed
  owned,    \* history: the caller may touch the data (no job since Sync())
  failed,   \* history: a hook returned false since the last Reset()
  result    \* history: what the last Sync() returned

workerVars == <<status, impl, hadError, data>>
implVars   == <<mutex, waiting>>
thrVars    == <<thrPc, running, seen>>
histVars   == <<runs, owned, failed, result>>
vars == <<workerVars, implVars, mainPc, call, thrVars, histVars>>

Threads == {"main", "thr"}
Jobs    == Job \cup {NoHook}

\* Init(): memset() and status_ = NOT_OK.
Init ==
  /\ status = "NOT_OK" /\ impl = FALSE /\ hadError = FALSE /\ data = NoHook
  /\ mutex = "none" /\ waiting = {}
  /\ mainPc = "client" /\ call = "none" /\ thrPc = "none"
  /\ running = NoHook /\ seen = FALSE
  /\ runs = 1 /\ owned = TRUE /\ failed = FALSE
  /\ result = TRUE

-----------------------------------------------------------------------------
(* pthread_mutex_t and pthread_cond_t (external)                           *)

Acquire(t) == mutex = "none" /\ mutex' = t
Release(t) == mutex = t /\ mutex' = "none"

\* pthread_cond_wait(): unlocks and blocks in one step.
Wait(t) == Release(t) /\ waiting' = waiting \cup {t}

\* pthread_cond_wait() returns with the mutex once the thread was woken up.
Woken(t) == t \notin waiting /\ Acquire(t) /\ UNCHANGED waiting

\* pthread_cond_signal() wakes up one of the blocked threads, if any.
Signal ==
  IF waiting = {} THEN UNCHANGED waiting
  ELSE \E t \in waiting : waiting' = waiting \ {t}

\* POSIX lets a wait return without a signal.
SpuriousWakeup ==
  /\ \E t \in waiting : waiting' = waiting \ {t}
  /\ UNCHANGED <<workerVars, mutex, mainPc, call, thrVars, histVars>>

\* What calling the hook on job j can return (no hook: no error).
HookResults(j) == IF j = NoHook THEN {TRUE} ELSE BOOLEAN

\* had_error |= !hook(...): what had_error becomes.
ErrorOfLastHook(old, ok) == ~ok                              \* (faulty)
ErrorAfter(old, ok) == old \/ ~ok

-----------------------------------------------------------------------------
(* The caller                                                              *)

\* The header allows the fields to change between Sync() and Launch() only.
SetHook(j) ==
  /\ mainPc = "client" /\ owned
  /\ data' = j
  /\ UNCHANGED <<status, impl, hadError, implVars, mainPc, call, thrVars,
                 histVars>>

\* Enter ChangeState() on behalf of function f; it does nothing if !impl_.
EnterChangeState(f) == impl /\ mainPc' = "lock" /\ call' = f

\* Sync() without a thread only reports had_error.
SyncWithoutThread ==
  /\ mainPc = "client" /\ ~impl
  /\ result' = ~hadError /\ owned' = TRUE
  /\ UNCHANGED <<workerVars, implVars, mainPc, call, thrVars, runs, failed>>

\* Sync(), Launch() and End() of an object whose thread is up.  Calling
\* Launch() without a successful Reset() breaks the header's rules.
Call(f) ==
  /\ mainPc = "client"
  /\ f \in {"Sync", "Launch", "End"}
  /\ EnterChangeState(f)
  /\ UNCHANGED <<workerVars, implVars, thrVars, histVars>>

\* Execute(): runs the hook in the calling thread.
Execute ==
  /\ mainPc = "client" /\ owned
  /\ \E ok \in HookResults(data) :
       /\ hadError' = ErrorAfter(hadError, ok)
       /\ failed' = (failed \/ ~ok)
  /\ UNCHANGED <<status, impl, data, implVars, mainPc, call, thrVars, runs,
                 owned, result>>

\* Reset(): had_error = 0, before status_ is read without the mutex.
Reset ==
  /\ mainPc = "client"
  /\ hadError' = FALSE /\ failed' = FALSE
  /\ mainPc' = "reset"
  /\ UNCHANGED <<status, impl, data, implVars, call, thrVars, runs, owned, result>>

\* Reset() of an object that is up: nothing to do, or wait for the job.
ResetUp ==
  /\ mainPc = "reset"
  /\ \/ /\ status = "OK"
        /\ mainPc' = "client" /\ UNCHANGED call
     \/ /\ status = "WORK"
        /\ EnterChangeState("Sync")
  /\ UNCHANGED <<workerVars, implVars, thrVars, histVars>>

\* Reset() of an object that is down: calloc(), mutex and condition, then the
\* mutex is taken.  Any of the three initializations may fail.
ResetAlloc ==
  /\ mainPc = "reset" /\ status = "NOT_OK"
  /\ \/ /\ impl' = TRUE /\ Acquire("main")
        /\ mainPc' = "create"
     \/ /\ impl' = FALSE /\ UNCHANGED mutex
        /\ mainPc' = "client"
  /\ UNCHANGED <<status, hadError, data, waiting, call, thrVars,
                 histVars>>

\* pthread_create(): the thread starts while the caller holds the mutex.
ResetCreate ==
  /\ mainPc = "create"
  /\ \/ /\ thrPc' = "lock" /\ mainPc' = "created"
        /\ UNCHANGED <<impl, mutex>>
     \/ /\ Release("main") /\ impl' = FALSE /\ mainPc' = "client"
        /\ UNCHANGED thrPc
  /\ UNCHANGED <<status, hadError, data, waiting, call, running, seen, histVars>>

ResetPublish ==
  /\ mainPc = "created"
  /\ status' = "OK"
  /\ Release("main")
  /\ mainPc' = "client"
  /\ UNCHANGED <<impl, hadError, data, waiting, call, thrVars, histVars>>

\* ChangeState(): the status each caller of it asks for.
NewStatus == CASE call = "Sync"   -> "OK"
               [] call = "Launch" -> "WORK"
               [] call = "End"    -> "NOT_OK"

LockWithoutWait ==                                  \* (faulty) no while loop
  /\ mainPc = "lock"
  /\ Acquire("main")
  /\ mainPc' = IF call = "Sync" THEN "unlock" ELSE "test"
  /\ UNCHANGED <<workerVars, waiting, call, thrVars, histVars>>

ChangeLock ==
  /\ mainPc = "lock"
  /\ Acquire("main")
  /\ mainPc' = IF status = "NOT_OK" THEN "unlock" ELSE "test"
  /\ UNCHANGED <<workerVars, waiting, call, thrVars, histVars>>

\* while (status_ != OK) pthread_cond_wait()
ChangeWait ==
  /\ mainPc = "test" /\ status # "OK"
  /\ Wait("main")
  /\ mainPc' = "wait"
  /\ UNCHANGED <<workerVars, call, thrVars, histVars>>

ChangeWoken ==
  /\ mainPc = "wait"
  /\ Woken("main")
  /\ mainPc' = "test"
  /\ UNCHANGED <<workerVars, call, thrVars, histVars>>

\* The worker is idle: assign the new status, if it is one, and unlock.
ChangeAssign ==
  /\ mainPc = "test" /\ status = "OK"
  /\ IF NewStatus = "OK"
     THEN /\ mainPc' = "unlock"
          /\ UNCHANGED <<status, mutex, runs, owned>>
     ELSE /\ status' = NewStatus
          /\ Release("main")
          /\ mainPc' = "signal"
          /\ runs' = IF NewStatus = "WORK" THEN 0 ELSE runs
          /\ owned' = (owned /\ NewStatus # "WORK")
  /\ UNCHANGED <<impl, hadError, data, waiting, call, thrVars, failed, result>>

\* The last unlock of ChangeState(), and the return of Sync().
ChangeUnlock ==
  /\ mainPc = "unlock"
  /\ Release("main")
  /\ mainPc' = "client" /\ call' = "none"
  /\ owned' = TRUE
  /\ result' = ~hadError
  /\ UNCHANGED <<workerVars, waiting, thrVars, runs, failed>>

LaunchWithoutSignal ==                              \* (faulty)
  /\ mainPc = "signal"
  /\ IF call = "End" THEN mainPc' = "join" /\ UNCHANGED call
                     ELSE mainPc' = "client" /\ call' = "none"
  /\ UNCHANGED <<workerVars, implVars, thrVars, histVars>>

ChangeSignal ==
  /\ mainPc = "signal"
  /\ Signal
  /\ IF call = "End" THEN mainPc' = "join" /\ UNCHANGED call
                     ELSE mainPc' = "client" /\ call' = "none"
  /\ UNCHANGED <<workerVars, mutex, thrVars, histVars>>

EndWithoutJoin ==                                   \* (faulty)
  /\ mainPc = "join"
  /\ impl' = FALSE
  /\ mainPc' = "client" /\ call' = "none"
  /\ owned' = TRUE
  /\ UNCHANGED <<status, hadError, data, implVars, thrVars, runs, failed,
                 result>>

\* End(): pthread_join(), then impl_ is destroyed and freed.
EndJoin ==
  /\ mainPc = "join" /\ thrPc = "exited"
  /\ impl' = FALSE
  /\ thrPc' = "none"
  /\ mainPc' = "client" /\ call' = "none"
  /\ owned' = TRUE
  /\ UNCHANGED <<status, hadError, data, implVars, running, seen, runs,
                 failed, result>>

-----------------------------------------------------------------------------
(* ThreadLoop()                                                            *)

ThrLock ==
  /\ thrPc = "lock"
  /\ Acquire("thr")
  /\ thrPc' = "test"
  /\ UNCHANGED <<workerVars, waiting, mainPc, call, running, seen, histVars>>

\* while (status_ == OK) pthread_cond_wait()
ThrWait ==
  /\ thrPc = "test" /\ status = "OK"
  /\ Wait("thr")
  /\ thrPc' = "wait"
  /\ UNCHANGED <<workerVars, mainPc, call, running, seen, histVars>>

ThrWoken ==
  /\ thrPc = "wait"
  /\ Woken("thr")
  /\ thrPc' = "test"
  /\ UNCHANGED <<workerVars, mainPc, call, running, seen, histVars>>

ExecuteOnAnyWakeup ==                               \* (faulty) if, not while
  /\ thrPc = "test" /\ status # "NOT_OK"
  /\ running' = data /\ seen' = hadError
  /\ thrPc' = "exec"
  /\ UNCHANGED <<workerVars, implVars, mainPc, call, histVars>>

\* The hook is called with the mutex held.
ThrExecute ==
  /\ thrPc = "test" /\ status = "WORK"
  /\ running' = data /\ seen' = hadError
  /\ thrPc' = "exec"
  /\ UNCHANGED <<workerVars, implVars, mainPc, call, histVars>>

\* had_error |= !hook(...) is a read and a write, and Reset() clears had_error
\* without the mutex: the old value is the one before or after a Reset().
ThrFinish ==
  /\ thrPc = "exec"
  /\ \E ok \in HookResults(running), old \in {seen, hadError} :
       /\ hadError' = ErrorAfter(old, ok)
       /\ failed' = (failed \/ ~ok)
  /\ status' = "OK"
  /\ runs' = runs + 1
  /\ Release("thr")
  /\ thrPc' = "signal"
  /\ UNCHANGED <<impl, data, waiting, mainPc, call, running, seen, owned,
                 result>>

\* status_ == NOT_OK: done = 1.
ThrQuit ==
  /\ thrPc = "test" /\ status = "NOT_OK"
  /\ Release("thr")
  /\ thrPc' = "quit"
  /\ UNCHANGED <<workerVars, waiting, mainPc, call, running, seen, histVars>>

DoneWithoutSignal ==                                \* (faulty)
  /\ thrPc \in {"signal", "quit"}
  /\ thrPc' = IF thrPc = "quit" THEN "exited" ELSE "lock"
  /\ UNCHANGED <<workerVars, implVars, mainPc, call, running, seen, histVars>>

ThrSignal ==
  /\ thrPc \in {"signal", "quit"}
  /\ Signal
  /\ thrPc' = IF thrPc = "quit" THEN "exited" ELSE "lock"
  /\ UNCHANGED <<workerVars, mutex, mainPc, call, running, seen, histVars>>

-----------------------------------------------------------------------------
ClientStep ==
  \/ \E j \in Jobs : SetHook(j)
  \/ \E f \in {"Sync", "Launch", "End"} : Call(f)
  \/ SyncWithoutThread
  \/ Execute
  \/ Reset

MainStep ==
  \/ ResetUp \/ ResetAlloc \/ ResetCreate \/ ResetPublish
  \/ ChangeLock \/ ChangeWait \/ ChangeWoken \/ ChangeAssign
  \/ ChangeUnlock \/ ChangeSignal \/ EndJoin

ThrStep ==
  ThrLock \/ ThrWait \/ ThrWoken \/ ThrExecute \/ ThrFinish \/ ThrQuit
    \/ ThrSignal

Next == ClientStep \/ MainStep \/ ThrStep \/ SpuriousWakeup

Spec == Init /\ [][Next]_vars

(***************************************************************************)
(* A thread that can run runs, hooks return, and a thread that waits for   *)
(* the mutex gets it if it is released again and again.  Nothing forces    *)
(* the caller to call, nor a wait to return without a signal.              *)
(***************************************************************************)
Fairness ==
  /\ WF_vars(MainStep) /\ WF_vars(ThrStep)
  /\ SF_vars(ChangeLock) /\ SF_vars(ChangeWoken)
  /\ SF_vars(ThrLock) /\ SF_vars(ThrWoken)

FairSpec == Spec /\ Fairness

-----------------------------------------------------------------------------
(* Properties                                                              *)

TypeOK ==
  /\ status \in {"NOT_OK", "OK", "WORK"}
  /\ impl \in BOOLEAN /\ hadError \in BOOLEAN
  /\ data \in Jobs /\ running \in Jobs
  /\ mutex \in Threads \cup {"none"}
  /\ waiting \subseteq Threads
  /\ mainPc \in {"client", "reset", "create", "created", "lock", "test", "wait",
                 "unlock", "signal", "join"}
  /\ call \in {"none", "Sync", "Launch", "End"}
  /\ thrPc \in {"none", "lock", "test", "wait", "exec", "signal", "quit",
                "exited"}
  /\ seen \in BOOLEAN
  /\ runs \in {0, 1}
  /\ owned \in BOOLEAN /\ failed \in BOOLEAN
  /\ result \in BOOLEAN

\* While the caller may change the data (from the return of Sync() or End()
\* to the next Launch()) no job is pending and no hook is executing; this is
\* what lets callers swap buffers between Sync() and Launch().
Quiescent == owned => status # "WORK" /\ thrPc # "exec"

\* impl_ (its mutex and condition included) is destroyed only when the thread
\* can no longer touch it and nobody holds the mutex or waits.
ImplOutlivesThread ==
  ~impl => thrPc = "none" /\ mutex = "none" /\ waiting = {}

\* What a thread may still use is neither changed by the caller nor freed.
NothingInUse == Quiescent /\ ImplOutlivesThread

\* A launched job is executed once: it is neither dropped when the worker
\* leaves WORK, nor executed again by another round of ThreadLoop().
ExactlyOnce == runs = (IF status = "WORK" THEN 0 ELSE 1)

\* A failure reported by any hook since Reset() is still in had_error: a
\* later success does not hide it from Sync().
FailureRemembered == failed => hadError

\* The hook works on the data it was launched with: the fields do not change
\* under a running job.
StableData == thrPc = "exec" => running = data

Contract ==
  INSTANCE WorkerContract WITH
    Job <- Jobs,
    up  <- status # "NOT_OK",
    job <- IF status = "WORK" THEN {data} ELSE {},
    err <- hadError

\* The locking protocol implements the contract the callers rely on: a job
\* is accepted only after the previous one completed, Sync() returns only
\* when nothing is in flight, and with what the jobs reported.
RefinesContract == Contract!Spec

\* ... and it never leaves an accepted job unfinished.
RefinesFairContract == Contract!FairSpec

\* No call hangs: each of them gives the control back to the caller, whatever
\* the order of the unlocks, the signals and the wakeups of both threads.
CallReturns == (mainPc # "client") ~> (mainPc = "client")
=============================================================================
