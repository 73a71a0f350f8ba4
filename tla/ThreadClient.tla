---------------------------- MODULE ThreadClient ----------------------------
(***************************************************************************)
(* CThreadOwner under its most general client: one thread that starts,     *)
(* stops and deletes its objects in any order, each worker polling         *)
(* ShouldContinueRunning() as CThreadProc of Input.cpp does.  The members  *)
(* of EarlyEnders also return on their own, as CFileReadThread does when   *)
(* its file fails it.                                                      *)
(***************************************************************************)
EXTENDS ThreadOwner

CONSTANT EarlyEnders

ASSUME EarlyEndersAssumption == EarlyEnders \subseteq Owners

\* while (o.ShouldContinueRunning()): the loop of the override is left.
EndThreadProc(o) ==
  /\ ShouldContinueRunning(o) => o \in EarlyEnders
  /\ LeaveThreadProc(o, "proc")

CallerStep(o) ==
  \/ EnterStart(o)
  \/ BeginThread(o)
  \/ AssignHandle(o)
  \/ \E seen \in Handles : EndStart(o, seen)
  \/ StopThread(o)
  \/ EnterDestructor(o)
  \/ DestructorStop(o)
  \/ DestructorReturn(o)

WorkerStep(o) ==
  \/ CallThreadProc(o)
  \/ EndThreadProc(o)
  \/ ExchangeState(o)
  \/ CallThreadTerminated(o, "clearing")
  \/ ClearHandle(o)

Next == ~ProcessAborted /\ \E o \in Owners : CallerStep(o) \/ WorkerStep(o)

Init == OwnerInit

Spec == Init /\ [][Next]_ownerVars

\* The scheduler runs every worker, and the caller once it has entered
\* StartThread or the destructor; nothing obliges it to enter either.
CallerInside(o) == CallerStep(o) /\ caller[o] # "idle"

FairSpec ==
  /\ Spec
  /\ \A o \in Owners :
       /\ WF_ownerVars(~ProcessAborted /\ WorkerStep(o))
       /\ WF_ownerVars(~ProcessAborted /\ CallerInside(o))

-----------------------------------------------------------------------------
\* Type invariant.
TypeOK == OwnerTypeOK

\* When a worker has cleared the handle, or none could be created, the object
\* can be started again: m_State is back to tsNotRunning, so that the next
\* StartThread sets it to tsRunning and its worker does not end at once.
Restartable ==
  \A o \in Owners : caller[o] = "idle" /\ handle[o] = NULL => state[o] = "NotRunning"

\* IsThreadRunning() never denies a worker that may still touch the object,
\* whenever the caller is outside StartThread.
RunningIsSeen ==
  \A o \in Owners : caller[o] \notin {"begin", "assign"} /\ Live(o) => IsThreadRunning(o)

\* IsThreadRunning() is true only of a worker that exists, unless the worker
\* may return before StartThread has stored its handle, or _beginthread has
\* reported a failure by a value other than NULL.
HandleFaithful ==
  \A o \in Owners \ EarlyEnders :
    caller[o] = "idle" /\ IsThreadRunning(o) => Live(o) \/ handle[o] = "minus1"

\* A worker told to stop ends, or the process has died.
StopIsObeyed ==
  \A o \in Owners :
    Live(o) /\ state[o] \in {"Aborted", "Deleting"} ~> ~Live(o) \/ ProcessAborted

\* ~CThreadOwner returns, unless it was entered with a handle that nobody will
\* clear, or the process has died.
DestructorEnds ==
  \A o \in Owners :
    caller[o] = "stopping" /\ (IsThreadRunning(o) => Live(o))
      ~> caller[o] = "freed" \/ ProcessAborted

-----------------------------------------------------------------------------
\* The worker is on its way out, or will be at its next poll.
Told(o) == state[o] # "Running" \/ worker[o] \notin {"created", "proc", "purecall"}

Guard == INSTANCE ThreadGuard WITH
  thread <- [o \in Owners |->
               IF ~Live(o) /\ worker[o] # "purecall" THEN "none"
               ELSE IF Told(o) THEN "told" ELSE "run"],
  freed <- {o \in Owners : caller[o] = "freed"}

\* CThreadOwner keeps what it promises.
ImplementsGuard == Guard!Spec
=============================================================================
