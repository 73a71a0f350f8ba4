------------------------- MODULE ThreadClientProofs -------------------------
(***************************************************************************)
(* The safety properties of ThreadClient for every set of objects.         *)
(***************************************************************************)
EXTENDS ThreadClient, ThreadOwnerProofs

LEMMA InvariantHolds == Spec => []TypedInv
<1>1. Init => TypedInv
  BY OwnerInitInv DEF Init
<1>2. TypedInv /\ [Next]_ownerVars => TypedInv'
  <2> SUFFICES ASSUME TypedInv, [Next]_ownerVars PROVE TypedInv'
    OBVIOUS
  <2>1. CASE Next
    <3>1. PICK o \in Owners : CallerStep(o) \/ WorkerStep(o)
      BY <2>1 DEF Next
    <3>2. OwnerStep(o)
      BY <3>1 DEF CallerStep, WorkerStep, EndThreadProc, OwnerStep
    <3>3. QED BY <3>2, OperationsPreserve
  <2>2. CASE UNCHANGED ownerVars
    BY <2>2 DEF ownerVars, TypedInv, OwnerTypeOK, OwnerInv, StartInv, HandleInv, Live
  <2>3. QED BY <2>1, <2>2
<1>3. QED BY <1>1, <1>2, PTL DEF Spec

\* Every variable keeps its type.
THEOREM TypeCorrect == Spec => []TypeOK
<1>1. TypedInv => TypeOK
  BY DEF TypedInv, TypeOK
<1>2. QED BY InvariantHolds, <1>1, PTL

\* StartThread always finds an object it may start in tsNotRunning.
THEOREM AlwaysRestartable == Spec => []Restartable
<1>1. TypedInv => Restartable
  BY DEF TypedInv, OwnerInv, HandleInv, Restartable
<1>2. QED BY InvariantHolds, <1>1, PTL

\* IsThreadRunning() never denies a worker outside StartThread.
THEOREM RunningAlwaysSeen == Spec => []RunningIsSeen
<1>1. TypedInv => RunningIsSeen
  BY DEF TypedInv, OwnerInv, HandleInv, RunningIsSeen, IsThreadRunning, NULL
<1>2. QED BY InvariantHolds, <1>1, PTL

-----------------------------------------------------------------------------
(* The refinement of ThreadGuard.                                          *)

Phase(o) == IF ~Live(o) /\ worker[o] # "purecall" THEN "none"
            ELSE IF Told(o) THEN "told" ELSE "run"

Phases == [o \in Owners |-> Phase(o)]
Freed == {o \in Owners : caller[o] = "freed"}

\* A step of o moves no other object's phase.
PhaseStep(o) ==
  \/ Phase(o) = "none" /\ Phase(o)' = "run" /\ caller[o] # "freed" /\ Freed' = Freed
  \/ Phase(o) = "run" /\ Phase(o)' = "told" /\ Freed' = Freed
  \/ Phase(o) = "told" /\ Phase(o)' = "none" /\ Freed' = Freed
  \/ Phase(o) = "none" /\ Phase(o)' = "none" /\ Freed' = Freed \cup {o}
  \/ Phase(o)' = Phase(o) /\ Freed' = Freed

LEMMA StepMoves ==
  ASSUME TypedInv, ~ProcessAborted, NEW o \in Owners, CallerStep(o) \/ WorkerStep(o)
  PROVE  PhaseStep(o) /\ \A p \in Owners \ {o} : Phase(p)' = Phase(p)
<1> USE BeginFailuresAssumption
<1> USE DEF PhaseStep, Phase, Freed, Told, Live, LiveAt, TypedInv, OwnerTypeOK, OwnerInv,
            StartInv, HandleInv, States, Handles, CallerAt, WorkerAt, NULL,
            CompareExchange, ProcessAborted
<1> DEFINE Goal == PhaseStep(o) /\ \A p \in Owners \ {o} : Phase(p)' = Phase(p)
<1>1. ASSUME EnterStart(o) PROVE Goal
  BY <1>1 DEF EnterStart, IsThreadRunning
<1>2. ASSUME BeginThread(o) PROVE Goal
  BY <1>2 DEF BeginThread
<1>3. ASSUME AssignHandle(o) PROVE Goal
  BY <1>3 DEF AssignHandle
<1>4. ASSUME NEW seen \in Handles, EndStart(o, seen) PROVE Goal
  BY <1>4 DEF EndStart
<1>5. ASSUME StopThread(o) PROVE Goal
  BY <1>5 DEF StopThread
<1>6. ASSUME EnterDestructor(o) PROVE Goal
  BY <1>6 DEF EnterDestructor
<1>7. ASSUME DestructorStop(o) PROVE Goal
  BY <1>7 DEF DestructorStop
<1>8. ASSUME DestructorReturn(o) PROVE Goal
  BY <1>8 DEF DestructorReturn, IsThreadRunning
<1>9. ASSUME CallThreadProc(o) PROVE Goal
  BY <1>9 DEF CallThreadProc
<1>10. ASSUME EndThreadProc(o) PROVE Goal
  BY <1>10 DEF EndThreadProc, LeaveThreadProc, Advance
<1>11. ASSUME ExchangeState(o) PROVE Goal
  BY <1>11 DEF ExchangeState
<1>12. ASSUME CallThreadTerminated(o, "clearing") PROVE Goal
  BY <1>12 DEF CallThreadTerminated
<1>13. ASSUME ClearHandle(o) PROVE Goal
  BY <1>13 DEF ClearHandle
<1>14. QED
  BY <1>1, <1>2, <1>3, <1>4, <1>5, <1>6, <1>7, <1>8, <1>9, <1>10, <1>11, <1>12, <1>13
  DEF CallerStep, WorkerStep

\* CThreadOwner implements ThreadGuard: one worker at a time, never set going
\* again once told to end, and gone before the object is freed.
THEOREM GuardImplemented == Spec => ImplementsGuard
<1>1. Init => Guard!Init
  BY DEF Init, OwnerInit, Guard!Init, Live, LiveAt
<1>2. TypedInv /\ [Next]_ownerVars => [Guard!Next]_<<Phases, Freed>>
  <2> SUFFICES ASSUME TypedInv, [Next]_ownerVars PROVE [Guard!Next]_<<Phases, Freed>>
    OBVIOUS
  <2>1. CASE Next
    <3>1. PICK o \in Owners : CallerStep(o) \/ WorkerStep(o)
      BY <2>1 DEF Next
    <3>2. PhaseStep(o) /\ \A p \in Owners \ {o} : Phase(p)' = Phase(p)
      BY <2>1, <3>1, StepMoves DEF Next
    <3>3. Phases' = [Phases EXCEPT ![o] = Phase(o)']
      BY <3>2 DEF Phases
    <3>4. CASE Phase(o)' = Phase(o) /\ Freed' = Freed
      BY <3>3, <3>4 DEF Phases
    <3>5. CASE Phase(o) = "none" /\ Phase(o)' = "run" /\ caller[o] # "freed" /\ Freed' = Freed
      <4>1. Guard!Begin(o)
        BY <3>3, <3>5 DEF Guard!Begin, Phases, Phase, Freed
      <4>2. QED BY <4>1 DEF Guard!Next
    <3>6. CASE Phase(o) = "run" /\ Phase(o)' = "told" /\ Freed' = Freed
      <4>1. Guard!Tell(o)
        BY <3>3, <3>6 DEF Guard!Tell, Phases, Phase, Freed
      <4>2. QED BY <4>1 DEF Guard!Next
    <3>7. CASE Phase(o) = "told" /\ Phase(o)' = "none" /\ Freed' = Freed
      <4>1. Guard!End(o)
        BY <3>3, <3>7 DEF Guard!End, Phases, Phase, Freed
      <4>2. QED BY <4>1 DEF Guard!Next
    <3>8. CASE Phase(o) = "none" /\ Phase(o)' = "none" /\ Freed' = Freed \cup {o}
      <4>1. Guard!Free(o)
        BY <3>3, <3>8 DEF Guard!Free, Phases, Phase, Freed
      <4>2. QED BY <4>1 DEF Guard!Next
    <3>9. QED BY <3>2, <3>4, <3>5, <3>6, <3>7, <3>8 DEF PhaseStep
  <2>2. CASE UNCHANGED ownerVars
    BY <2>2 DEF ownerVars, Phases, Phase, Freed, Told, Live
  <2>3. QED BY <2>1, <2>2
<1>3. QED
  BY <1>1, <1>2, InvariantHolds, PTL
  DEF Spec, ImplementsGuard, Guard!Spec, Phases, Phase, Freed

-----------------------------------------------------------------------------
(* HandleFaithful.                                                         *)

\* An object whose worker ends only when told: until StartThread has returned
\* nobody tells it, so the handle that is stored then still has its worker.
PatientInv(o) ==
  /\ caller[o] \in {"idle", "begin", "assign", "test"} =>
       vptr[o] = "derived" /\ worker[o] # "purecall"
  /\ caller[o] \in {"assign", "test"} /\ returned[o] = "thread" =>
       state[o] = "Running" /\ worker[o] \in {"created", "proc"}
  /\ caller[o] = "test" => handle[o] = returned[o]
  /\ caller[o] = "idle" /\ handle[o] = "thread" => Live(o)

PatientOwners == \A o \in Owners \ EarlyEnders : PatientInv(o)

\* A step of one object keeps its own PatientInv and does not touch another's.
LEMMA PatientStep ==
  ASSUME TypedInv, PatientOwners, NEW o \in Owners, CallerStep(o) \/ WorkerStep(o),
         NEW p \in Owners \ EarlyEnders
  PROVE  PatientInv(p)'
<1> USE BeginFailuresAssumption
<1> USE DEF PatientOwners, PatientInv, TypedInv, OwnerTypeOK, OwnerInv, StartInv, Live, LiveAt,
            States, Handles, CallerAt, WorkerAt, NULL, CompareExchange
<1>1. ASSUME EnterStart(o) PROVE PatientInv(p)'
  BY <1>1 DEF EnterStart
<1>2. ASSUME BeginThread(o) PROVE PatientInv(p)'
  BY <1>2 DEF BeginThread
<1>3. ASSUME AssignHandle(o) PROVE PatientInv(p)'
  BY <1>3 DEF AssignHandle
<1>4. ASSUME NEW seen \in Handles, EndStart(o, seen) PROVE PatientInv(p)'
  BY <1>4 DEF EndStart
<1>5. ASSUME StopThread(o) PROVE PatientInv(p)'
  BY <1>5 DEF StopThread
<1>6. ASSUME EnterDestructor(o) PROVE PatientInv(p)'
  BY <1>6 DEF EnterDestructor
<1>7. ASSUME DestructorStop(o) PROVE PatientInv(p)'
  BY <1>7 DEF DestructorStop
<1>8. ASSUME DestructorReturn(o) PROVE PatientInv(p)'
  BY <1>8 DEF DestructorReturn
<1>9. ASSUME CallThreadProc(o) PROVE PatientInv(p)'
  BY <1>9 DEF CallThreadProc
<1>10. ASSUME EndThreadProc(o) PROVE PatientInv(p)'
  BY <1>10 DEF EndThreadProc, LeaveThreadProc, Advance, ShouldContinueRunning
<1>11. ASSUME ExchangeState(o) PROVE PatientInv(p)'
  BY <1>11 DEF ExchangeState
<1>12. ASSUME CallThreadTerminated(o, "clearing") PROVE PatientInv(p)'
  BY <1>12 DEF CallThreadTerminated
<1>13. ASSUME ClearHandle(o) PROVE PatientInv(p)'
  BY <1>13 DEF ClearHandle
<1>14. QED
  BY <1>1, <1>2, <1>3, <1>4, <1>5, <1>6, <1>7, <1>8, <1>9, <1>10, <1>11, <1>12, <1>13
  DEF CallerStep, WorkerStep

\* IsThreadRunning() is true of an idle object only while its worker exists, or
\* for ever when _beginthread failed by a value other than NULL.
THEOREM HandleAlwaysFaithful == Spec => []HandleFaithful
<1>1. Init => PatientOwners
  BY DEF Init, OwnerInit, PatientOwners, PatientInv, NULL
<1>2. TypedInv /\ PatientOwners /\ [Next]_ownerVars => PatientOwners'
  <2> SUFFICES ASSUME TypedInv, PatientOwners, [Next]_ownerVars,
                      NEW p \in Owners \ EarlyEnders
               PROVE  PatientInv(p)'
    BY DEF PatientOwners
  <2>1. CASE Next
    BY <2>1, PatientStep DEF Next
  <2>2. CASE UNCHANGED ownerVars
    BY <2>2 DEF ownerVars, PatientOwners, PatientInv, Live
  <2>3. QED BY <2>1, <2>2
<1>3. TypedInv /\ PatientOwners => HandleFaithful
  BY DEF TypedInv, OwnerTypeOK, PatientOwners, PatientInv, HandleFaithful, IsThreadRunning,
         Handles, NULL
<1>4. QED BY <1>1, <1>2, <1>3, InvariantHolds, PTL DEF Spec
=============================================================================
