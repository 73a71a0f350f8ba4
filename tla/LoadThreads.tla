---------------------------- MODULE LoadThreads ----------------------------
(***************************************************************************)
(* The "threads" command (Threads.cpp): CThreadCollection starts workers,  *)
(* takes keyboard input and shuts the workers down.  Each worker is a      *)
(* CThreadOwner.  One counting semaphore serves both as the start permit a *)
(* worker waits for and as the notice that a worker has finished, which    *)
(* the destructor of the collection counts.                                *)
(***************************************************************************)
EXTENDS ThreadOwner, Naturals, FiniteSets

CONSTANTS
  MaxAdds,     \* bound: threads added in one life of the collection
  NumThreads,  \* the command's second parameter
  MaxPermits,  \* MAX_THREADS
  Interactive, \* m_Interactive: no "ni_" prefix
  EarlyReturn  \* the activity's ThreadProc may return before it is told to
               \* (wfile and rfile, when the working file fails them)

ASSUME LoadThreadsAssumption ==
  /\ MaxAdds \in Nat /\ NumThreads \in 0 .. MaxAdds /\ MaxPermits \in Nat
  /\ Owners = 1 .. MaxAdds
  /\ Interactive \in BOOLEAN /\ EarlyReturn \in BOOLEAN

VARIABLES
  mpc,     \* where the main thread is
  count,   \* m_Threads.GetCount()
  posted,  \* calls of m_Semaphore.Signal() made by AddThread
  cursor,  \* i of the destructor's first and last loops
  joined,  \* i of the destructor's Wait() loop
  permits  \* the semaphore's count

mainVars == <<mpc, count, posted, cursor, joined>>
vars == <<ownerVars, mainVars, permits>>

Init ==
  /\ OwnerInit
  /\ mpc = "ctor"
  /\ count = 0 /\ posted = 0 /\ cursor = 1 /\ joined = 0
  /\ permits = 0

\* ReleaseSemaphore fails, and its result is not looked at, at the maximum.
Release == permits' = IF permits < MaxPermits THEN permits + 1 ELSE permits

\* AddThread has returned for every thread of m_Threads.
NoAddInProgress == posted = count

-----------------------------------------------------------------------------
(* The main thread: AddThread and ProcessInput.                            *)

\* new, m_Threads.Add(p) and the start of p->StartThread().
AddThread ==
  /\ NoAddInProgress
  /\ \/ mpc = "ctor" /\ count < NumThreads
     \/ mpc = "input" /\ Interactive /\ count < MaxAdds
  /\ count' = count + 1
  /\ EnterStart(count + 1)
  /\ UNCHANGED <<mpc, posted, cursor, joined, permits>>

InStartThread ==
  /\ \E o \in Owners :
       \/ BeginThread(o)
       \/ AssignHandle(o)
       \/ \E seen \in Handles : EndStart(o, seen)
  /\ UNCHANGED <<mainVars, permits>>

\* m_Semaphore.Signal(), whatever StartThread returned.
PostStart ==
  /\ posted < count
  /\ caller[count] = "idle"
  /\ posted' = posted + 1
  /\ Release
  /\ UNCHANGED <<ownerVars, mpc, count, cursor, joined>>

ConstructorEnds ==
  /\ mpc = "ctor" /\ count = NumThreads /\ NoAddInProgress
  /\ mpc' = "input"
  /\ UNCHANGED <<ownerVars, count, posted, cursor, joined, permits>>

\* 'q', the end of the input, or the time limit of the ni_ mode.
LeaveInput ==
  /\ mpc = "input" /\ NoAddInProgress
  /\ mpc' = "stop"
  /\ cursor' = 1
  /\ UNCHANGED <<ownerVars, count, posted, joined, permits>>

-----------------------------------------------------------------------------
(* The main thread: ~CThreadCollection.                                    *)

StopNext ==
  /\ mpc = "stop" /\ cursor <= count
  /\ StopThread(cursor)
  /\ cursor' = cursor + 1
  /\ UNCHANGED <<mpc, count, posted, joined, permits>>

\* A variant without the Wait() loop.
StopsDoneNoJoin ==
  /\ mpc = "stop" /\ cursor > count
  /\ mpc' = "delete"
  /\ cursor' = 1
  /\ UNCHANGED <<ownerVars, count, posted, joined, permits>>

StopsDone ==
  /\ mpc = "stop" /\ cursor > count
  /\ mpc' = "join"
  /\ UNCHANGED <<ownerVars, count, posted, cursor, joined, permits>>

JoinNext ==
  /\ mpc = "join" /\ joined < count
  /\ permits > 0
  /\ permits' = permits - 1
  /\ joined' = joined + 1
  /\ UNCHANGED <<ownerVars, mpc, count, posted, cursor>>

JoinsDone ==
  /\ mpc = "join" /\ joined = count
  /\ mpc' = "delete"
  /\ cursor' = 1
  /\ UNCHANGED <<ownerVars, count, posted, joined, permits>>

\* delete p, of which only ~CThreadOwner has effects here.
DeleteNext ==
  /\ mpc = "delete" /\ cursor <= count
  /\ \/ EnterDestructor(cursor) /\ UNCHANGED cursor
     \/ DestructorStop(cursor) /\ UNCHANGED cursor
     \/ DestructorReturn(cursor) /\ cursor' = cursor + 1
  /\ UNCHANGED <<mpc, count, posted, joined, permits>>

\* The semaphore goes with the collection.
DeletesDone ==
  /\ mpc = "delete" /\ cursor > count
  /\ mpc' = "closed"
  /\ UNCHANGED <<ownerVars, count, posted, cursor, joined, permits>>

\* -loop: CreateThreads makes the next collection, with objects of its own.
NextLoop ==
  /\ mpc = "closed"
  /\ mpc' = "ctor"
  /\ count' = 0 /\ posted' = 0 /\ cursor' = 1 /\ joined' = 0
  /\ permits' = 0
  /\ state' = [o \in Owners |-> "NotRunning"]
  /\ handle' = [o \in Owners |-> NULL]
  /\ returned' = [o \in Owners |-> NULL]
  /\ caller' = [o \in Owners |-> "idle"]
  /\ worker' = [o \in Owners |-> "none"]
  /\ vptr' = [o \in Owners |-> "derived"]

-----------------------------------------------------------------------------
(* A worker: CLoadingThread and the activities derived from it.            *)

\* CLoadingThread::ThreadProc: m_Obj.Wait().
TakePermit(o) ==
  /\ permits > 0
  /\ permits' = permits - 1
  /\ Advance(o, "proc", "working")
  /\ UNCHANGED mainVars

\* The activity's loop ends at a poll of ShouldContinueRunning(), or the
\* activity gives up.
EndWork(o) ==
  /\ ShouldContinueRunning(o) => EarlyReturn
  /\ LeaveThreadProc(o, "working")
  /\ UNCHANGED <<mainVars, permits>>

\* A variant that keeps its permit.
SignalDoneForgotten(o) ==
  /\ Advance(o, "signal", "clearing")
  /\ UNCHANGED <<permits, mainVars>>

\* CLoadingThread::ThreadTerminated: m_Obj.Signal(), then the base version.
SignalDone(o) ==
  /\ Release
  /\ Advance(o, "signal", "clearing")
  /\ UNCHANGED mainVars

WorkerStep(o) ==
  \/ TakePermit(o)
  \/ EndWork(o)
  \/ SignalDone(o)
  \/ /\ \/ CallThreadProc(o)
        \/ ExchangeState(o)
        \/ CallThreadTerminated(o, "signal")
        \/ ClearHandle(o)
     /\ UNCHANGED <<mainVars, permits>>

-----------------------------------------------------------------------------
Shutdown == StopNext \/ StopsDone \/ JoinNext \/ JoinsDone \/ DeleteNext \/ DeletesDone

MainStep ==
  \/ AddThread \/ InStartThread \/ PostStart \/ ConstructorEnds \/ LeaveInput
  \/ Shutdown \/ NextLoop

Next == ~ProcessAborted /\ (MainStep \/ \E o \in Owners : WorkerStep(o))

Spec == Init /\ [][Next]_vars

\* Every thread that can take a step is scheduled in the end.  The user need
\* not leave ProcessInput or ask for another loop.
FairSpec ==
  /\ Spec
  /\ WF_vars(~ProcessAborted /\ (InStartThread \/ PostStart \/ ConstructorEnds))
  /\ WF_vars(~ProcessAborted /\ Shutdown)
  /\ \A o \in Owners : WF_vars(~ProcessAborted /\ WorkerStep(o))

-----------------------------------------------------------------------------
TypeOK ==
  /\ OwnerTypeOK
  /\ mpc \in {"ctor", "input", "stop", "join", "delete", "closed"}
  /\ count \in 0 .. MaxAdds /\ posted \in 0 .. MaxAdds
  /\ joined \in 0 .. MaxAdds /\ cursor \in 1 .. MaxAdds + 1
  /\ permits \in 0 .. MaxPermits

\* The workers that hold a permit: past Wait() and short of Signal().
InFlight == {o \in Owners : worker[o] \in {"working", "ended", "exchanged", "signal"}}

\* No permit is made up: those in the semaphore, in the hands of workers and
\* counted by the destructor were all posted by AddThread.
PermitsConserved == permits + Cardinality(InFlight) + joined <= posted

\* And none is lost while there are no more threads than the semaphore holds.
NoPermitLost ==
  count <= MaxPermits => permits + Cardinality(InFlight) + joined = posted

\* When the destructor has made its Wait() calls no worker is at work, or will
\* ever be: it deletes no object from under an activity.
JoinSafe == mpc \in {"delete", "closed"} => InFlight = {} /\ permits = 0

\* An object is freed only when its worker is past its last access to it.
NoUseAfterFree == \A o \in Owners : caller[o] = "freed" => ~Live(o)

\* The destructor ends if every worker there is has been given its permit when
\* it starts to wait, none of the handles was stored after its worker had gone,
\* and no permit was lost.
AllAtWork ==
  \A o \in 1 .. count :
    worker[o] \notin {"created", "proc"} /\ (IsThreadRunning(o) => Live(o))
ShutdownCompletes ==
  mpc = "join" /\ joined = 0 /\ AllAtWork /\ count <= MaxPermits ~> mpc = "closed"

\* Threads.cpp:281, before the objects are deleted: "All threads finished".
AllThreadsFinished ==
  mpc = "delete" => \A o \in 1 .. count : worker[o] \notin {"created", "proc", "working"}

\* Where the main thread is, what it has added and what it has counted agree.
MainInv ==
  /\ posted <= count /\ count <= posted + 1
  /\ mpc \in {"stop", "join", "delete", "closed"} => posted = count
  /\ joined <= count /\ cursor <= count + 1
  /\ mpc \in {"ctor", "input"} => cursor = 1
  /\ mpc \in {"ctor", "input", "stop"} => joined = 0
  /\ mpc \in {"delete", "closed"} => joined = count
  /\ \A o \in Owners : o > count => worker[o] = "none" /\ caller[o] = "idle"
  /\ \A o \in Owners : vptr[o] = "base" => mpc \in {"delete", "closed"}

-----------------------------------------------------------------------------
Gate == INSTANCE WorkGate WITH
  Workers <- Owners, busy <- InFlight, open <- mpc \notin {"delete", "closed"}

\* The shutdown handshake keeps what it promises.
ImplementsGate == Gate!Spec
=============================================================================
