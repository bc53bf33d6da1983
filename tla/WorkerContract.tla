--------------------------- MODULE WorkerContract ---------------------------
(***************************************************************************)
(* What src/utils/thread_utils.h promises the callers of a WebPWorker,     *)
(* without the mutex, the condition variable and the thread behind it.     *)
(* The callers (the lossy decoder, the alpha, analysis and lossless        *)
(* encoders) rely on nothing else: at most one job is in flight, it runs   *)
(* exactly once, its failure is remembered until Reset(), and the data it  *)
(* works on belong to the caller again when Sync() has returned.           *)
(***************************************************************************)

CONSTANT Job          \* the values the hook/data1/data2 fields can take

VARIABLES
  up,       \* the object is usable: between a successful Reset() and End()
  job,      \* the job handed over and not finished yet: {} or {j}
  owned,    \* the caller may change the data the job works on
  err,      \* some job failed since the last Reset() (had_error)
  result    \* what the last Sync() returned

contractVars == <<up, job, owned, err, result>>

Init ==
  /\ up = FALSE
  /\ job = {}
  /\ owned = TRUE
  /\ err = FALSE
  /\ result = TRUE

\* Reset(): forgets the errors, and later brings the object up.
ClearError == err' = FALSE /\ UNCHANGED <<up, job, owned, result>>

Start == ~up /\ up' = TRUE /\ UNCHANGED <<job, owned, err, result>>

\* Launch(): a job is accepted only when no other is in flight.
Accept(j) ==
  /\ up
  /\ job = {}
  /\ job' = {j}
  /\ owned' = FALSE
  /\ UNCHANGED <<up, err, result>>

\* The thread is done with the job.
Complete(ok) ==
  /\ job # {}
  /\ job' = {}
  /\ err' = (err \/ ~ok)
  /\ UNCHANGED <<up, owned, result>>

\* Execute(): the caller runs a job itself.
RunInline(ok) ==
  /\ owned
  /\ job = {}
  /\ err' = (err \/ ~ok)
  /\ UNCHANGED <<up, job, owned, result>>

\* Sync() returns.
Sync ==
  /\ job = {}
  /\ owned' = TRUE
  /\ result' = ~err
  /\ UNCHANGED <<up, job, err>>

\* End(): stops the thread, then gives the data back.
Stop == up /\ job = {} /\ up' = FALSE /\ UNCHANGED <<job, owned, err, result>>

Reclaim == ~up /\ job = {} /\ owned' = TRUE /\ UNCHANGED <<up, job, err, result>>

Next ==
  \/ ClearError
  \/ Start
  \/ \E j \in Job : Accept(j)
  \/ \E ok \in BOOLEAN : Complete(ok) \/ RunInline(ok)
  \/ Sync
  \/ Stop
  \/ Reclaim

Spec == Init /\ [][Next]_contractVars

\* A hook terminates, so a job in flight is completed.
FairSpec == Spec /\ WF_contractVars(\E ok \in BOOLEAN : Complete(ok))
=============================================================================
