---------------------------- MODULE ThreadOwner ----------------------------
(***************************************************************************)
(* CThreadOwner (utils.h): an object that owns one worker thread.  The     *)
(* thread that calls the methods (the caller) and the worker share         *)
(* m_State and m_ThreadHandle without a lock, so every read or write of    *)
(* one of them by either thread is a step of its own here.                 *)
(*                                                                         *)
(* The module holds the operations only.  ThreadClient, LoadThreads and    *)
(* later clients extend it and add the code that calls them.               *)
(***************************************************************************)
CONSTANTS
  Owners,        \* the CThreadOwner objects
  BeginFailures  \* what _beginthread may return when it creates no thread:
                 \* "minus1" is what the C runtime documents, "null" what the
                 \* test in StartThread expects

NULL == "null"

ASSUME BeginFailuresAssumption == BeginFailures \subseteq {NULL, "minus1"}

VARIABLES
  state,     \* m_State
  handle,    \* m_ThreadHandle; "thread" stands for any value naming a thread
  returned,  \* the value _beginthread gave to the StartThread call in progress
  caller,    \* where the caller is inside StartThread or the destructor
  worker,    \* where the worker is inside _ThreadProc
  vptr       \* which class's virtual functions a call on the object reaches

ownerVars == <<state, handle, returned, caller, worker, vptr>>

States == {"NotRunning", "Running", "Aborted", "Deleting"}
Handles == {NULL, "thread", "minus1"}
CallerAt == {"idle", "begin", "assign", "test", "stopping", "waiting", "freed"}

\* Positions of a worker that still has accesses to the object ahead of it.
\* "working" and "signal" are inside overrides of the virtual functions.
LiveAt == {"created", "proc", "working", "ended", "exchanged", "signal", "clearing"}
WorkerAt == LiveAt \cup {"none", "gone", "purecall"}

Live(o) == worker[o] \in LiveAt

\* A pure virtual call ends the whole process.
ProcessAborted == \E o \in Owners : worker[o] = "purecall"

OwnerTypeOK ==
  /\ state \in [Owners -> States]
  /\ handle \in [Owners -> Handles]
  /\ returned \in [Owners -> Handles]
  /\ caller \in [Owners -> CallerAt]
  /\ worker \in [Owners -> WorkerAt]
  /\ vptr \in [Owners -> {"derived", "base"}]

OwnerInit ==
  /\ state = [o \in Owners |-> "NotRunning"]
  /\ handle = [o \in Owners |-> NULL]
  /\ returned = [o \in Owners |-> NULL]
  /\ caller = [o \in Owners |-> "idle"]
  /\ worker = [o \in Owners |-> "none"]
  /\ vptr = [o \in Owners |-> "derived"]

\* m_State after InterlockedCompareExchange(&m_State, to, from).
CompareExchange(o, to, from) ==
  [state EXCEPT ![o] = IF @ = from THEN to ELSE @]

-----------------------------------------------------------------------------
(* StartThread, run by the caller.                                         *)

IsThreadRunning(o) == handle[o] # NULL

\* A variant that forgets the test of the handle.
EnterStartUnguarded(o) ==
  /\ caller[o] = "idle"
  /\ state' = CompareExchange(o, "Running", "NotRunning")
  /\ caller' = [caller EXCEPT ![o] = "begin"]
  /\ UNCHANGED <<handle, returned, worker, vptr>>

\* The early return (a thread is running) changes nothing and is no step.
EnterStart(o) ==
  /\ caller[o] = "idle"
  /\ ~IsThreadRunning(o)
  /\ state' = CompareExchange(o, "Running", "NotRunning")
  /\ caller' = [caller EXCEPT ![o] = "begin"]
  /\ UNCHANGED <<handle, returned, worker, vptr>>

\* _beginthread: from here on the worker runs, possibly to its end, before
\* the caller takes its next step.
BeginThread(o) ==
  /\ caller[o] = "begin"
  /\ caller' = [caller EXCEPT ![o] = "assign"]
  /\ \/ /\ worker' = [worker EXCEPT ![o] = "created"]
        /\ returned' = [returned EXCEPT ![o] = "thread"]
     \/ /\ \E r \in BeginFailures : returned' = [returned EXCEPT ![o] = r]
        /\ UNCHANGED worker
  /\ UNCHANGED <<state, handle, vptr>>

AssignHandle(o) ==
  /\ caller[o] = "assign"
  /\ handle' = [handle EXCEPT ![o] = returned[o]]
  /\ caller' = [caller EXCEPT ![o] = "test"]
  /\ UNCHANGED <<state, returned, worker, vptr>>

\* The second IsThreadRunning().  The worker may clear the handle at the same
\* time and the field is a plain one, so the build may read the field again
\* or use the value it has just stored: seen is either.
EndStart(o, seen) ==
  /\ caller[o] = "test"
  /\ seen \in {returned[o], handle[o]}
  /\ state' = IF seen = NULL THEN CompareExchange(o, "NotRunning", "Running")
                             ELSE state
  /\ caller' = [caller EXCEPT ![o] = "idle"]
  /\ UNCHANGED <<handle, returned, worker, vptr>>

-----------------------------------------------------------------------------
(* StopThread and the destructor, run by the caller.                       *)

\* A variant with the wrong expected value.
StopThreadNotRunning(o) ==
  /\ caller[o] = "idle"
  /\ state' = CompareExchange(o, "Aborted", "NotRunning")
  /\ UNCHANGED <<handle, returned, caller, worker, vptr>>

StopThread(o) ==
  /\ caller[o] = "idle"
  /\ state' = CompareExchange(o, "Aborted", "Running")
  /\ UNCHANGED <<handle, returned, caller, worker, vptr>>

\* The derived part is gone: virtual calls now reach CThreadOwner.
EnterDestructor(o) ==
  /\ caller[o] = "idle"
  /\ vptr' = [vptr EXCEPT ![o] = "base"]
  /\ caller' = [caller EXCEPT ![o] = "stopping"]
  /\ UNCHANGED <<state, handle, returned, worker>>

\* A variant that waits without having told the worker to end.
DestructorStopForgotten(o) ==
  /\ caller[o] = "stopping"
  /\ caller' = [caller EXCEPT ![o] = "waiting"]
  /\ UNCHANGED <<state, handle, returned, worker, vptr>>

DestructorStop(o) ==
  /\ caller[o] = "stopping"
  /\ state' = CompareExchange(o, "Deleting", "Running")
  /\ caller' = [caller EXCEPT ![o] = "waiting"]
  /\ UNCHANGED <<handle, returned, worker, vptr>>

\* A variant without the loop.
DestructorReturnAtOnce(o) ==
  /\ caller[o] = "waiting"
  /\ caller' = [caller EXCEPT ![o] = "freed"]
  /\ UNCHANGED <<state, handle, returned, worker, vptr>>

\* while (IsThreadRunning()) Sleep(10): the loop ends, the memory is freed.
DestructorReturn(o) ==
  /\ caller[o] = "waiting"
  /\ ~IsThreadRunning(o)
  /\ caller' = [caller EXCEPT ![o] = "freed"]
  /\ UNCHANGED <<state, handle, returned, worker, vptr>>

-----------------------------------------------------------------------------
(* _ThreadProc, run by the worker.                                         *)

\* pOwner->ThreadProc(): pure in CThreadOwner.
CallThreadProc(o) ==
  /\ worker[o] = "created"
  /\ worker' = [worker EXCEPT ![o] = IF vptr[o] = "derived" THEN "proc" ELSE "purecall"]
  /\ UNCHANGED <<state, handle, returned, caller, vptr>>

\* A variant that goes on once stopped.
ShouldContinueUntilEnd(o) == state[o] # "NotRunning"

ShouldContinueRunning(o) == state[o] = "Running"

\* The worker advances inside an override, or returns from one.
Advance(o, from, to) ==
  /\ worker[o] = from
  /\ worker' = [worker EXCEPT ![o] = to]
  /\ UNCHANGED <<state, handle, returned, caller, vptr>>

\* The override of ThreadProc returns from position "from".
LeaveThreadProc(o, from) == Advance(o, from, "ended")

\* Variants: a compare-exchange where the code exchanges; the handle cleared
\* before the last virtual call.
ExchangeIfRunning(o) ==
  /\ worker[o] = "ended"
  /\ state' = CompareExchange(o, "NotRunning", "Running")
  /\ worker' = [worker EXCEPT ![o] = "exchanged"]
  /\ UNCHANGED <<handle, returned, caller, vptr>>

ExchangeAndClear(o) ==
  /\ worker[o] = "ended"
  /\ state' = [state EXCEPT ![o] = "NotRunning"]
  /\ handle' = [handle EXCEPT ![o] = NULL]
  /\ worker' = [worker EXCEPT ![o] = "exchanged"]
  /\ UNCHANGED <<returned, caller, vptr>>

ExchangeState(o) ==
  /\ worker[o] = "ended"
  /\ state' = [state EXCEPT ![o] = "NotRunning"]
  /\ worker' = [worker EXCEPT ![o] = "exchanged"]
  /\ UNCHANGED <<handle, returned, caller, vptr>>

\* pOwner->ThreadTerminated(val): "override" is the first position of the
\* derived class's version, "clearing" if it has none.
CallThreadTerminated(o, override) ==
  /\ worker[o] = "exchanged"
  /\ worker' = [worker EXCEPT ![o] = IF vptr[o] = "derived" THEN override ELSE "clearing"]
  /\ UNCHANGED <<state, handle, returned, caller, vptr>>

\* A variant that stores nothing.
ClearHandleForgotten(o) ==
  /\ worker[o] = "clearing"
  /\ worker' = [worker EXCEPT ![o] = "gone"]
  /\ UNCHANGED <<state, handle, returned, caller, vptr>>

\* CThreadOwner::ThreadTerminated: the worker's last access to the object.
ClearHandle(o) ==
  /\ worker[o] = "clearing"
  /\ handle' = [handle EXCEPT ![o] = NULL]
  /\ worker' = [worker EXCEPT ![o] = "gone"]
  /\ UNCHANGED <<state, returned, caller, vptr>>

-----------------------------------------------------------------------------
(* What holds of every object whatever its client does.                    *)

\* While StartThread is at work m_State is tsRunning or, once the worker has
\* ended, tsNotRunning.
StartInv(o) ==
  /\ caller[o] = "begin" => handle[o] = NULL /\ ~Live(o) /\ state[o] = "Running"
  /\ caller[o] = "assign" => handle[o] = NULL
  /\ caller[o] \in {"assign", "test"} =>
       /\ state[o] \in {"Running", "NotRunning"}
       /\ Live(o) => returned[o] = "thread"
  /\ caller[o] = "test" /\ handle[o] = NULL => returned[o] = NULL \/ state[o] = "NotRunning"

\* Outside StartThread the handle covers the whole life of the worker.
HandleInv(o) ==
  /\ caller[o] \notin {"begin", "assign"} /\ Live(o) => handle[o] = "thread"
  /\ caller[o] = "idle" /\ handle[o] = NULL => state[o] = "NotRunning"
  /\ worker[o] \in {"exchanged", "signal", "clearing"} => state[o] = "NotRunning"
  /\ caller[o] = "freed" => handle[o] = NULL

OwnerInv == \A o \in Owners : StartInv(o) /\ HandleInv(o)
=============================================================================
