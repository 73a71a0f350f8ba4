-------------------------- MODULE ThreadOwnerProofs --------------------------
(***************************************************************************)
(* Every operation of CThreadOwner preserves the types and OwnerInv,       *)
(* whoever calls it.  The clients' proofs cite OperationsPreserve.         *)
(***************************************************************************)
EXTENDS ThreadOwner, TLAPS

TypedInv == OwnerTypeOK /\ OwnerInv

\* An operation of o leaves the other objects alone, so that only o's part of
\* the invariant has to be looked at.
LocalStep(o) ==
  /\ StartInv(o)' /\ HandleInv(o)'
  /\ \A p \in Owners \ {o} :
       /\ state'[p] = state[p] /\ handle'[p] = handle[p]
       /\ returned'[p] = returned[p] /\ caller'[p] = caller[p]
       /\ worker'[p] = worker[p]

LEMMA Localised ==
  ASSUME TypedInv, OwnerTypeOK', NEW o \in Owners, LocalStep(o)
  PROVE  TypedInv'
<1> USE DEF LocalStep
<1>1. ASSUME NEW p \in Owners, p # o PROVE StartInv(p)' /\ HandleInv(p)'
  BY <1>1 DEF TypedInv, OwnerInv, StartInv, HandleInv, Live
<1>2. QED BY <1>1 DEF TypedInv, OwnerInv

\* The operations that change one object as a step of its caller or worker.
OwnerStep(o) ==
  \/ EnterStart(o) \/ BeginThread(o) \/ AssignHandle(o)
  \/ \E seen \in Handles : EndStart(o, seen)
  \/ StopThread(o) \/ EnterDestructor(o) \/ DestructorStop(o) \/ DestructorReturn(o)
  \/ CallThreadProc(o) \/ ExchangeState(o) \/ ClearHandle(o)
  \/ CallThreadTerminated(o, "clearing") \/ CallThreadTerminated(o, "signal")
  \/ Advance(o, "proc", "working")
  \/ LeaveThreadProc(o, "proc") \/ LeaveThreadProc(o, "working")
  \/ Advance(o, "signal", "clearing")

LEMMA OwnerInitInv == OwnerInit => TypedInv
  BY DEF OwnerInit, TypedInv, OwnerTypeOK, OwnerInv, StartInv, HandleInv, Live,
         LiveAt, WorkerAt, States, Handles, CallerAt, NULL

LEMMA OperationsType ==
  ASSUME TypedInv, NEW o \in Owners, OwnerStep(o)
  PROVE  OwnerTypeOK'
<1> USE BeginFailuresAssumption
<1> USE DEF OwnerTypeOK, TypedInv, States, Handles, CallerAt, LiveAt, WorkerAt, NULL,
            CompareExchange
<1>1. CASE EnterStart(o)
  BY <1>1 DEF EnterStart
<1>2. CASE BeginThread(o)
  BY <1>2 DEF BeginThread
<1>3. CASE AssignHandle(o)
  BY <1>3 DEF AssignHandle
<1>4. ASSUME NEW seen \in Handles, EndStart(o, seen) PROVE OwnerTypeOK'
  BY <1>4 DEF EndStart
<1>5. CASE StopThread(o)
  BY <1>5 DEF StopThread
<1>6. CASE EnterDestructor(o)
  BY <1>6 DEF EnterDestructor
<1>7. CASE DestructorStop(o)
  BY <1>7 DEF DestructorStop
<1>8. CASE DestructorReturn(o)
  BY <1>8 DEF DestructorReturn
<1>9. CASE CallThreadProc(o)
  BY <1>9 DEF CallThreadProc
<1>10. CASE ExchangeState(o)
  BY <1>10 DEF ExchangeState
<1>11. CASE ClearHandle(o)
  BY <1>11 DEF ClearHandle
<1>12. ASSUME NEW k \in {"clearing", "signal"}, CallThreadTerminated(o, k) PROVE OwnerTypeOK'
  BY <1>12 DEF CallThreadTerminated
<1>13. ASSUME NEW k, NEW j \in {"working", "ended", "clearing"}, Advance(o, k, j) PROVE OwnerTypeOK'
  BY <1>13 DEF Advance
<1>14. QED BY <1>1, <1>2, <1>3, <1>4, <1>5, <1>6, <1>7, <1>8, <1>9, <1>10, <1>11, <1>12, <1>13 DEF OwnerStep, LeaveThreadProc

\* THE lemma the clients use.
LEMMA OperationsPreserve ==
  ASSUME TypedInv, NEW o \in Owners, OwnerStep(o)
  PROVE  TypedInv'
<1> USE BeginFailuresAssumption
<1>0. OwnerTypeOK' BY OperationsType
<1> USE DEF LocalStep, OwnerTypeOK, TypedInv, OwnerInv, StartInv, HandleInv, Live, LiveAt,
            WorkerAt, States, Handles, CallerAt, NULL, CompareExchange, IsThreadRunning
<1>1. ASSUME EnterStart(o) PROVE LocalStep(o)
  BY <1>1 DEF EnterStart
<1>2. ASSUME BeginThread(o) PROVE LocalStep(o)
  BY <1>2 DEF BeginThread
<1>3. ASSUME AssignHandle(o) PROVE LocalStep(o)
  BY <1>3 DEF AssignHandle
<1>4. ASSUME NEW seen \in Handles, EndStart(o, seen) PROVE LocalStep(o)
  BY <1>4 DEF EndStart
<1>5. ASSUME StopThread(o) PROVE LocalStep(o)
  BY <1>5 DEF StopThread
<1>6. ASSUME EnterDestructor(o) PROVE LocalStep(o)
  BY <1>6 DEF EnterDestructor
<1>7. ASSUME DestructorStop(o) PROVE LocalStep(o)
  BY <1>7 DEF DestructorStop
<1>8. ASSUME DestructorReturn(o) PROVE LocalStep(o)
  BY <1>8 DEF DestructorReturn
<1>9. ASSUME CallThreadProc(o) PROVE LocalStep(o)
  BY <1>9 DEF CallThreadProc
<1>10. ASSUME ExchangeState(o) PROVE LocalStep(o)
  BY <1>10 DEF ExchangeState
<1>11. ASSUME ClearHandle(o) PROVE LocalStep(o)
  BY <1>11 DEF ClearHandle
<1>12. ASSUME NEW k \in {"clearing", "signal"}, CallThreadTerminated(o, k) PROVE LocalStep(o)
  BY <1>12 DEF CallThreadTerminated
<1>13. ASSUME Advance(o, "proc", "working") PROVE LocalStep(o)
  BY <1>13 DEF Advance
<1>14. ASSUME NEW k \in {"proc", "working"}, Advance(o, k, "ended") PROVE LocalStep(o)
  BY <1>14 DEF Advance
<1>15. ASSUME Advance(o, "signal", "clearing") PROVE LocalStep(o)
  BY <1>15 DEF Advance
<1> HIDE DEF LocalStep, OwnerTypeOK, TypedInv, OwnerInv, StartInv, HandleInv, Live, LiveAt,
            WorkerAt, States, Handles, CallerAt, NULL, CompareExchange, IsThreadRunning
<1>16. LocalStep(o)
  BY <1>1, <1>2, <1>3, <1>4, <1>5, <1>6, <1>7, <1>8, <1>9,
     <1>10, <1>11, <1>12, <1>13, <1>14, <1>15 DEF OwnerStep, LeaveThreadProc
<1>17. QED BY <1>0, <1>16, Localised
=============================================================================
