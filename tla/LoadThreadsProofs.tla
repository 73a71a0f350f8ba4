------------------------- MODULE LoadThreadsProofs -------------------------
(***************************************************************************)
(* The shutdown handshake of CThreadCollection for every number of threads *)
(* and every capacity of the semaphore.                                    *)
(***************************************************************************)
EXTENDS LoadThreads, ThreadOwnerProofs, FiniteSetTheorems

MainType ==
  /\ mpc \in {"ctor", "input", "stop", "join", "delete", "closed"}
  /\ count \in 0 .. MaxAdds /\ posted \in 0 .. MaxAdds
  /\ joined \in 0 .. MaxAdds /\ cursor \in 1 .. MaxAdds + 1
  /\ permits \in 0 .. MaxPermits

\* The inductive invariant.
Inv ==
  /\ TypedInv /\ MainType /\ MainInv
  /\ PermitsConserved /\ NoPermitLost

-----------------------------------------------------------------------------
(* InFlight and the count of it.                                           *)

LEMMA InFlightFinite == IsFiniteSet(InFlight) /\ Cardinality(InFlight) \in Nat
<1>1. IsFiniteSet(Owners)
  BY LoadThreadsAssumption, FS_Interval
<1>2. InFlight \in SUBSET Owners
  BY DEF InFlight
<1>3. QED BY <1>1, <1>2, FS_Subset, FS_CardinalityType

LEMMA TakeCounts ==
  ASSUME OwnerTypeOK, NEW o \in Owners, TakePermit(o)
  PROVE  InFlight' = InFlight \cup {o} /\ Cardinality(InFlight') = Cardinality(InFlight) + 1
<1>1. InFlight' = InFlight \cup {o} /\ o \notin InFlight
  BY DEF TakePermit, Advance, OwnerTypeOK, InFlight
<1>2. QED BY <1>1, InFlightFinite, FS_AddElement

LEMMA SignalCounts ==
  ASSUME OwnerTypeOK, NEW o \in Owners, SignalDone(o)
  PROVE  /\ InFlight' = InFlight \ {o} /\ o \in InFlight
         /\ Cardinality(InFlight') = Cardinality(InFlight) - 1
<1>1. InFlight' = InFlight \ {o} /\ o \in InFlight
  BY DEF SignalDone, Advance, OwnerTypeOK, InFlight
<1>2. QED BY <1>1, InFlightFinite, FS_RemoveElement

-----------------------------------------------------------------------------
(* What the invariant says of the joined collection.                       *)

LEMMA JoinedMeansIdle ==
  ASSUME Inv, mpc \in {"delete", "closed"} \/ (mpc = "join" /\ joined = count)
  PROVE  InFlight = {} /\ permits = 0
<1>1. joined = count /\ posted = count
  BY DEF Inv, MainInv
<1>2. Cardinality(InFlight) = 0 /\ permits = 0
  BY <1>1, InFlightFinite DEF Inv, PermitsConserved, MainType
<1>3. QED BY <1>2, InFlightFinite, FS_EmptySet

-----------------------------------------------------------------------------
(* The steps of a worker.                                                  *)

\* The steps that leave the semaphore alone.
QuietWorkerStep(o) ==
  \/ EndWork(o)
  \/ /\ \/ CallThreadProc(o) \/ ExchangeState(o)
        \/ CallThreadTerminated(o, "signal") \/ ClearHandle(o)
     /\ UNCHANGED <<mainVars, permits>>

LEMMA QuietKeeps ==
  ASSUME Inv, NEW o \in Owners, QuietWorkerStep(o)
  PROVE  InFlight' = InFlight
<1>0. TypedInv /\ OwnerTypeOK
  BY DEF Inv, TypedInv
<1> USE DEF InFlight, OwnerTypeOK
<1>1. CASE EndWork(o)
  BY <1>0, <1>1 DEF EndWork, LeaveThreadProc, Advance
<1>2. CASE CallThreadProc(o)
  BY <1>0, <1>2 DEF CallThreadProc
<1>3. CASE ExchangeState(o)
  BY <1>0, <1>3 DEF ExchangeState
<1>4. CASE CallThreadTerminated(o, "signal")
  <2>1. vptr[o] = "derived"
    BY <1>0, <1>4, JoinedMeansIdle DEF CallThreadTerminated, Inv, MainInv
  <2>2. QED BY <1>0, <1>4, <2>1 DEF CallThreadTerminated
<1>5. CASE ClearHandle(o)
  BY <1>0, <1>5 DEF ClearHandle
<1>6. QED BY <1>1, <1>2, <1>3, <1>4, <1>5 DEF QuietWorkerStep

\* A worker that moves is one that exists, and vptr is not its to change.
LEMMA WorkersStay ==
  ASSUME OwnerTypeOK, NEW o \in Owners, WorkerStep(o)
  PROVE  /\ worker[o] # "none" /\ UNCHANGED <<vptr, caller, mainVars>>
         /\ \A p \in Owners : worker[p] = "none" => worker'[p] = "none"
<1> USE DEF OwnerTypeOK
<1>1. CASE TakePermit(o) BY <1>1 DEF TakePermit, Advance
<1>2. CASE EndWork(o) BY <1>2 DEF EndWork, LeaveThreadProc, Advance
<1>3. CASE SignalDone(o) BY <1>3 DEF SignalDone, Advance
<1>4. CASE CallThreadProc(o) /\ UNCHANGED <<mainVars, permits>>
  BY <1>4 DEF CallThreadProc
<1>5. CASE ExchangeState(o) /\ UNCHANGED <<mainVars, permits>>
  BY <1>5 DEF ExchangeState
<1>6. CASE CallThreadTerminated(o, "signal") /\ UNCHANGED <<mainVars, permits>>
  BY <1>6 DEF CallThreadTerminated
<1>7. CASE ClearHandle(o) /\ UNCHANGED <<mainVars, permits>>
  BY <1>7 DEF ClearHandle
<1>8. QED BY <1>1, <1>2, <1>3, <1>4, <1>5, <1>6, <1>7 DEF WorkerStep

\* The semaphore and the count of permits through a worker's step.
LEMMA WorkerKeepsPermits ==
  ASSUME Inv, NEW o \in Owners, WorkerStep(o)
  PROVE  permits' \in 0 .. MaxPermits /\ PermitsConserved' /\ NoPermitLost'
<1>1. OwnerTypeOK /\ MainType /\ PermitsConserved /\ NoPermitLost /\ MainInv
  BY DEF Inv, TypedInv
<1>2. UNCHANGED mainVars
  BY <1>1, WorkersStay
<1>3. Cardinality(InFlight) \in Nat
  BY InFlightFinite
<1> USE LoadThreadsAssumption
<1> USE DEF PermitsConserved, NoPermitLost, MainType, mainVars
<1>4. CASE TakePermit(o)
  <2>1. Cardinality(InFlight') = Cardinality(InFlight) + 1
    BY <1>1, <1>4, TakeCounts
  <2>2. QED BY <1>1, <1>2, <1>3, <1>4, <2>1 DEF TakePermit
<1>5. CASE SignalDone(o)
  <2>1. Cardinality(InFlight') = Cardinality(InFlight) - 1 /\ Cardinality(InFlight') \in Nat
    <3>1. Cardinality(InFlight) # 0
      BY <1>1, <1>5, SignalCounts, InFlightFinite, FS_EmptySet
    <3>2. QED BY <1>1, <1>3, <1>5, <3>1, SignalCounts
  <2>2. count <= MaxPermits => permits < MaxPermits
    BY <1>1, <1>3, <2>1 DEF MainInv
  <2>3. QED BY <1>1, <1>2, <1>3, <1>5, <2>1, <2>2 DEF SignalDone, Release
<1>6. CASE QuietWorkerStep(o)
  <2>1. InFlight' = InFlight /\ permits' = permits
    BY <1>6, QuietKeeps DEF QuietWorkerStep, EndWork
  <2>2. QED BY <1>1, <1>2, <2>1
<1>7. QED BY <1>4, <1>5, <1>6 DEF WorkerStep, QuietWorkerStep

LEMMA WorkerKeepsInv ==
  ASSUME Inv, NEW o \in Owners, WorkerStep(o)
  PROVE  Inv'
<1>1. TypedInv'
  <2>1. OwnerStep(o)
    BY DEF WorkerStep, OwnerStep, TakePermit, EndWork, SignalDone
  <2>2. QED BY <2>1, OperationsPreserve DEF Inv
<1>2. OwnerTypeOK
  BY DEF Inv, TypedInv
<1>3. /\ UNCHANGED <<vptr, caller, mainVars>>
      /\ \A p \in Owners : worker[p] = "none" => worker'[p] = "none"
  BY <1>2, WorkersStay
<1>4. permits' \in 0 .. MaxPermits /\ PermitsConserved' /\ NoPermitLost'
  BY WorkerKeepsPermits
<1>5. MainInv' /\ MainType'
  BY <1>3, <1>4 DEF Inv, MainInv, MainType, mainVars
<1>6. QED BY <1>1, <1>4, <1>5 DEF Inv

-----------------------------------------------------------------------------
(* The steps of the main thread.                                           *)

\* An operation of the main thread on one object, as far as workers go.
LEMMA CallerLeavesWorkers ==
  ASSUME OwnerTypeOK, NEW o \in Owners,
         \/ EnterStart(o) \/ BeginThread(o) \/ AssignHandle(o)
         \/ \E seen \in Handles : EndStart(o, seen)
         \/ StopThread(o) \/ EnterDestructor(o) \/ DestructorStop(o) \/ DestructorReturn(o)
  PROVE  /\ OwnerStep(o)
         /\ \A p \in Owners : worker'[p] = worker[p] \/ (p = o /\ BeginThread(o) /\ worker'[p] = "created")
         /\ ~EnterDestructor(o) => vptr' = vptr
<1> USE DEF OwnerTypeOK
<1>1. OwnerStep(o)
  BY DEF OwnerStep
<1>2. CASE BeginThread(o)
  BY <1>1, <1>2 DEF BeginThread
<1>3. CASE EnterDestructor(o)
  BY <1>1, <1>3 DEF EnterDestructor
<1>4. CASE ~BeginThread(o) /\ ~EnterDestructor(o)
  <2>1. UNCHANGED <<worker, vptr>>
    BY <1>4 DEF EnterStart, AssignHandle, EndStart, StopThread, DestructorStop, DestructorReturn
  <2>2. QED BY <1>1, <1>4, <2>1
<1>5. QED BY <1>2, <1>3, <1>4

\* BeginThread puts its object at a position that holds no permit.
LEMMA CallerKeepsInFlight ==
  ASSUME TypedInv, NEW o \in Owners,
         \/ EnterStart(o) \/ BeginThread(o) \/ AssignHandle(o)
         \/ \E seen \in Handles : EndStart(o, seen)
         \/ StopThread(o) \/ EnterDestructor(o) \/ DestructorStop(o) \/ DestructorReturn(o)
  PROVE  InFlight' = InFlight
<1>1. \A p \in Owners : worker'[p] = worker[p] \/ (p = o /\ BeginThread(o) /\ worker'[p] = "created")
  BY CallerLeavesWorkers DEF TypedInv
<1>2. BeginThread(o) => worker[o] \notin LiveAt
  BY DEF BeginThread, TypedInv, OwnerInv, StartInv, Live
<1>3. QED BY <1>1, <1>2 DEF InFlight, LiveAt

LEMMA AddKeepsInv ==
  ASSUME Inv, AddThread
  PROVE  Inv'
<1> USE LoadThreadsAssumption
<1>1. count + 1 \in Owners /\ EnterStart(count + 1)
  BY DEF AddThread, Inv, MainType
<1>2. TypedInv' /\ InFlight' = InFlight
  BY <1>1, OperationsPreserve, CallerKeepsInFlight DEF OwnerStep, Inv
<1>3. MainType' /\ MainInv'
  BY <1>1 DEF AddThread, EnterStart, Inv, MainType, MainInv, NoAddInProgress
<1>4. PermitsConserved' /\ NoPermitLost'
  BY <1>2, InFlightFinite
  DEF AddThread, Inv, MainType, PermitsConserved, NoPermitLost
<1>5. QED BY <1>2, <1>3, <1>4 DEF Inv

LEMMA InStartKeepsInv ==
  ASSUME Inv, InStartThread
  PROVE  Inv'
<1> USE LoadThreadsAssumption
<1>1. PICK o \in Owners : BeginThread(o) \/ AssignHandle(o) \/ \E seen \in Handles : EndStart(o, seen)
  BY DEF InStartThread
<1>2. TypedInv' /\ InFlight' = InFlight
  BY <1>1, OperationsPreserve, CallerKeepsInFlight DEF OwnerStep, Inv
<1>3. OwnerTypeOK /\ vptr' = vptr /\ UNCHANGED <<mainVars, permits>>
  BY <1>1 DEF Inv, TypedInv, BeginThread, AssignHandle, EndStart, InStartThread
<1>4. \A p \in Owners : p > count => worker'[p] = "none" /\ caller'[p] = "idle"
  <2>1. ~(o > count)
    BY <1>1 DEF BeginThread, AssignHandle, EndStart, Inv, MainInv
  <2>2. \A p \in Owners \ {o} : worker'[p] = worker[p] /\ caller'[p] = caller[p]
    BY <1>1, <1>3 DEF BeginThread, AssignHandle, EndStart, OwnerTypeOK
  <2>3. QED BY <2>1, <2>2 DEF Inv, MainInv
<1>5. QED
  BY <1>2, <1>3, <1>4
  DEF Inv, MainType, MainInv, PermitsConserved, NoPermitLost, mainVars

LEMMA PostKeepsInv ==
  ASSUME Inv, PostStart
  PROVE  Inv'
<1> USE LoadThreadsAssumption
<1>1. TypedInv' /\ InFlight' = InFlight
  BY DEF PostStart, ownerVars, Inv, TypedInv, OwnerTypeOK, OwnerInv, StartInv, HandleInv,
         Live, InFlight
<1>2. count <= MaxPermits => permits < MaxPermits
  BY InFlightFinite DEF PostStart, Inv, MainType, MainInv, PermitsConserved
<1>3. QED
  BY <1>1, <1>2, InFlightFinite
  DEF PostStart, Release, ownerVars, Inv, MainType, MainInv, PermitsConserved, NoPermitLost

\* The steps that move only the main thread's own variables.
LEMMA PlainKeepsInv ==
  ASSUME Inv, ConstructorEnds \/ LeaveInput \/ StopsDone \/ JoinsDone \/ DeletesDone
  PROVE  Inv'
<1> USE LoadThreadsAssumption
<1>1. UNCHANGED ownerVars /\ permits' = permits
  BY DEF ConstructorEnds, LeaveInput, StopsDone, JoinsDone, DeletesDone
<1>2. TypedInv' /\ InFlight' = InFlight
  BY <1>1 DEF ownerVars, Inv, TypedInv, OwnerTypeOK, OwnerInv, StartInv, HandleInv, Live, InFlight
<1>3. MainType' /\ MainInv'
  BY <1>1 DEF ConstructorEnds, LeaveInput, StopsDone, JoinsDone, DeletesDone,
              NoAddInProgress, ownerVars, Inv, MainType, MainInv
<1>4. count' = count /\ joined' = joined /\ posted' = posted
  BY DEF ConstructorEnds, LeaveInput, StopsDone, JoinsDone, DeletesDone
<1>5. QED BY <1>1, <1>2, <1>3, <1>4 DEF Inv, PermitsConserved, NoPermitLost

LEMMA JoinKeepsInv ==
  ASSUME Inv, JoinNext
  PROVE  Inv'
<1> USE LoadThreadsAssumption
<1>1. TypedInv' /\ InFlight' = InFlight
  BY DEF JoinNext, ownerVars, Inv, TypedInv, OwnerTypeOK, OwnerInv, StartInv, HandleInv,
         Live, InFlight
<1>2. QED
  BY <1>1, InFlightFinite
  DEF JoinNext, ownerVars, Inv, MainType, MainInv, PermitsConserved, NoPermitLost

\* One object told to stop, or one step of deleting it.
LEMMA CursorKeepsInv ==
  ASSUME Inv, StopNext \/ DeleteNext
  PROVE  Inv'
<1> USE LoadThreadsAssumption
<1>1. cursor \in Owners /\ cursor <= count
  BY DEF StopNext, DeleteNext, Inv, MainType
<1>2. \/ mpc \in {"stop", "delete"} /\ StopThread(cursor)
      \/ mpc = "delete" /\ (EnterDestructor(cursor) \/ DestructorStop(cursor) \/ DestructorReturn(cursor))
  BY DEF StopNext, DeleteNext
<1>3. TypedInv' /\ InFlight' = InFlight
  BY <1>1, <1>2, OperationsPreserve, CallerKeepsInFlight DEF OwnerStep, Inv
<1>4. /\ UNCHANGED <<mpc, count, posted, joined, permits, worker>>
      /\ cursor' \in {cursor, cursor + 1}
      /\ vptr' = vptr \/ mpc = "delete"
  BY DEF StopNext, DeleteNext, StopThread, EnterDestructor, DestructorStop, DestructorReturn
<1>5. \A p \in Owners : p > count => caller'[p] = caller[p]
  BY <1>1, <1>2
  DEF StopThread, EnterDestructor, DestructorStop, DestructorReturn, Inv, TypedInv, OwnerTypeOK, MainType
<1>6. MainType' /\ MainInv'
  BY <1>1, <1>2, <1>4, <1>5 DEF Inv, MainType, MainInv
<1>7. QED BY <1>3, <1>4, <1>6 DEF Inv, PermitsConserved, NoPermitLost

LEMMA FreshInv == Init => Inv
<1> SUFFICES ASSUME Init PROVE Inv
  OBVIOUS
<1> USE LoadThreadsAssumption
<1>1. InFlight = {}
  BY DEF Init, OwnerInit, InFlight
<1>2. Cardinality(InFlight) = 0
  BY <1>1, FS_EmptySet
<1>3. MainType /\ MainInv
  BY DEF Init, OwnerInit, MainType, MainInv
<1>4. QED BY <1>2, <1>3, OwnerInitInv DEF Init, Inv, PermitsConserved, NoPermitLost

\* The next collection starts as the first one did.
LEMMA LoopKeepsInv == NextLoop => Inv'
<1>1. NextLoop => Init'
  BY DEF NextLoop, Init, OwnerInit
<1>2. QED BY <1>1, FreshInv, PTL

LEMMA InvariantHolds == Spec => []Inv
<1>1. Inv /\ [Next]_vars => Inv'
  <2> SUFFICES ASSUME Inv, [Next]_vars PROVE Inv'
    OBVIOUS
  <2>1. CASE MainStep
    BY <2>1, AddKeepsInv, InStartKeepsInv, PostKeepsInv, PlainKeepsInv, JoinKeepsInv,
       CursorKeepsInv, LoopKeepsInv DEF MainStep, Shutdown
  <2>2. ASSUME NEW o \in Owners, WorkerStep(o) PROVE Inv'
    BY <2>2, WorkerKeepsInv
  <2>3. CASE UNCHANGED vars
    BY <2>3 DEF vars, ownerVars, mainVars, Inv, TypedInv, OwnerTypeOK, OwnerInv, StartInv,
                HandleInv, Live, MainType, MainInv, PermitsConserved, NoPermitLost, InFlight
  <2>4. QED BY <2>1, <2>2, <2>3 DEF Next
<1>2. QED BY FreshInv, <1>1, PTL DEF Spec

-----------------------------------------------------------------------------
(* The theorems.                                                           *)

\* Every variable keeps its type: cursors and counts stay in range and the
\* semaphore within its capacity.
THEOREM TypeCorrect == Spec => []TypeOK
<1>1. Inv => TypeOK
  BY DEF Inv, TypedInv, MainType, TypeOK
<1>2. QED BY InvariantHolds, <1>1, PTL

\* The workers and the destructor never hold or count more permits than
\* AddThread posted.
THEOREM PermitsAreConserved == Spec => []PermitsConserved
<1>1. Inv => PermitsConserved
  BY DEF Inv
<1>2. QED BY InvariantHolds, <1>1, PTL

\* Up to the semaphore's capacity of threads no permit is lost.
THEOREM NoPermitIsLost == Spec => []NoPermitLost
<1>1. Inv => NoPermitLost
  BY DEF Inv
<1>2. QED BY InvariantHolds, <1>1, PTL

\* Objects are deleted only when no worker is inside its activity, for every
\* number of threads, even beyond the capacity of the semaphore.
THEOREM JoinIsSafe == Spec => []JoinSafe
<1>1. Inv => JoinSafe
  BY JoinedMeansIdle DEF JoinSafe
<1>2. QED BY InvariantHolds, <1>1, PTL

\* No worker touches an object that has been freed.
THEOREM NeverUsedAfterFree == Spec => []NoUseAfterFree
<1>1. Inv => NoUseAfterFree
  BY DEF Inv, TypedInv, OwnerInv, HandleInv, NoUseAfterFree, NULL
<1>2. QED BY InvariantHolds, <1>1, PTL

\* The shutdown handshake implements WorkGate.
THEOREM GateImplemented == Spec => ImplementsGate
<1> DEFINE Open == mpc \notin {"delete", "closed"}
<1>1. Init => Gate!Init
  BY DEF Init, OwnerInit, InFlight, Gate!Init
<1>2. Inv /\ [Next]_vars => [Gate!Next]_<<InFlight, Open>>
  <2> SUFFICES ASSUME Inv, [Next]_vars PROVE [Gate!Next]_<<InFlight, Open>>
    OBVIOUS
  <2>0. OwnerTypeOK
    BY DEF Inv, TypedInv
  <2>1. ASSUME NEW o \in Owners, WorkerStep(o) PROVE [Gate!Next]_<<InFlight, Open>>
    <3>1. Open' = Open
      BY <2>0, <2>1, WorkersStay DEF mainVars
    <3>2. CASE TakePermit(o)
      <4>1. Open /\ o \notin InFlight
        BY <3>2, <2>0, JoinedMeansIdle DEF TakePermit, Advance, InFlight, Inv, MainType
      <4>2. Gate!Begin(o)
        BY <2>0, <3>1, <3>2, <4>1, TakeCounts DEF Gate!Begin
      <4>3. QED BY <4>2 DEF Gate!Next
    <3>3. CASE SignalDone(o)
      <4>1. Gate!End(o)
        BY <2>0, <3>1, <3>3, SignalCounts DEF Gate!End
      <4>2. QED BY <4>1 DEF Gate!Next
    <3>4. CASE QuietWorkerStep(o)
      BY <3>1, <3>4, QuietKeeps
    <3>5. QED BY <2>1, <3>2, <3>3, <3>4 DEF WorkerStep, QuietWorkerStep
  <2>2. CASE AddThread \/ InStartThread \/ StopNext \/ DeleteNext
    <3>1. PICK o \in Owners :
            \/ EnterStart(o) \/ BeginThread(o) \/ AssignHandle(o)
            \/ \E seen \in Handles : EndStart(o, seen)
            \/ StopThread(o) \/ EnterDestructor(o) \/ DestructorStop(o) \/ DestructorReturn(o)
      BY <2>2, LoadThreadsAssumption
      DEF AddThread, InStartThread, StopNext, DeleteNext, Inv, MainType
    <3>2. InFlight' = InFlight
      BY <3>1, CallerKeepsInFlight DEF Inv
    <3>3. mpc' = mpc
      BY <2>2 DEF AddThread, InStartThread, StopNext, DeleteNext, mainVars
    <3>4. QED BY <3>2, <3>3
  <2>3. CASE PostStart \/ ConstructorEnds \/ LeaveInput \/ StopsDone \/ JoinNext \/ DeletesDone
    BY <2>3 DEF PostStart, ConstructorEnds, LeaveInput, StopsDone, JoinNext, DeletesDone,
                ownerVars, InFlight
  <2>4. CASE JoinsDone
    <3>1. InFlight = {} /\ InFlight' = InFlight /\ Open' = FALSE
      BY <2>4, JoinedMeansIdle DEF JoinsDone, ownerVars, InFlight
    <3>2. Gate!Close
      BY <3>1 DEF Gate!Close
    <3>3. QED BY <3>2 DEF Gate!Next
  <2>5. CASE NextLoop
    <3>1. InFlight = {} /\ InFlight' = {} /\ ~Open /\ Open' = TRUE
      BY <2>5, JoinedMeansIdle DEF NextLoop, InFlight
    <3>2. Gate!Reopen
      BY <3>1 DEF Gate!Reopen
    <3>3. QED BY <3>2 DEF Gate!Next
  <2>6. CASE UNCHANGED vars
    BY <2>6 DEF vars, ownerVars, mainVars, InFlight
  <2>7. QED BY <2>1, <2>2, <2>3, <2>4, <2>5, <2>6 DEF Next, MainStep, Shutdown
<1>3. QED
  BY <1>1, <1>2, InvariantHolds, PTL DEF Spec, ImplementsGate, Gate!Spec
=============================================================================
