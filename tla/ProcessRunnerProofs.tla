------------------------ MODULE ProcessRunnerProofs ------------------------
(***************************************************************************)
(* What RunProcess leaves behind when it returns, and when it terminates   *)
(* the child, for every width of the clock, every wait time and interval,  *)
(* every size of the pipe and every child.                                 *)
(***************************************************************************)
EXTENDS ProcessRunner, TLAPS

\* The clock wraps, so the sum of the waits never exceeds what really passed.
ClockInv == /\ cumulative \in Nat /\ cumulative < Word
            /\ elapsed \in Nat /\ elapsed <= INFINITE /\ cumulative <= elapsed
            /\ interval \in 0 .. INFINITE /\ waitTime \in 0 .. INFINITE

\* There is no child before CreateProcess, and one that had to be waited for
\* has ended when the waiting is over, if the wait did not fail.
ChildInv ==
  /\ pc = "create" => child = "none" /\ pipe = 0
  /\ pc \in {"flush", "returned", "gone"} /\ waitTime # 0 /\ "wait" \notin failed => child \in {"none", "exited"}

\* The constructor switches redirection off when there is nothing to wait for.
RedirectWaits == redirect => waitTime # 0

\* With an even interval an infinite wait never comes to its end: the sum
\* stays even, wrapped or not, and INFINITE is odd.
EvenSum == waitTime = INFINITE /\ interval % 2 = 0 => cumulative % 2 = 0

\* Nothing has been summed up before the first wait.
SumFromZero == pc = "create" => cumulative = 0

Inv == ClockInv /\ ChildInv /\ RedirectWaits /\ EvenSum /\ SumFromZero /\ KilledAtLimit /\ OutputComplete

\* What remains of a number when it wraps is no more than the number.
LEMMA Remainder == ASSUME NEW a \in Nat, NEW b \in Nat \ {0}
                   PROVE  a % b \in Nat /\ a % b < b /\ a % b <= a
OBVIOUS

LEMMA InvInit == Init => Inv
<1> SUFFICES ASSUME Init PROVE Inv
  OBVIOUS
<1>1. ClockInv
  BY ProcessRunnerAssumption DEF Init, ClockInv, INFINITE
<1>2. ChildInv /\ KilledAtLimit /\ OutputComplete
  BY DEF Init, ChildInv, KilledAtLimit, OutputComplete
<1>3. RedirectWaits
  BY Zenon DEF Init, RedirectWaits
<1>4. EvenSum /\ SumFromZero
  BY DEF Init, EvenSum, SumFromZero
<1>5. QED BY <1>1, <1>2, <1>3, <1>4 DEF Inv

\* One timeout of the wait: the sum wraps, the time that passed does not.
LEMMA TimeoutClock == ClockInv /\ WaitTimeout => ClockInv' /\ elapsed' >= elapsed
<1> SUFFICES ASSUME ClockInv, WaitTimeout PROVE ClockInv' /\ elapsed' >= elapsed
  OBVIOUS
<1>1. /\ (cumulative + interval) % Word \in Nat
      /\ (cumulative + interval) % Word < Word
      /\ (cumulative + interval) % Word <= cumulative + interval
  <2>1. cumulative + interval \in Nat
    BY DEF ClockInv
  <2>2. QED BY <2>1, Remainder, ProcessRunnerAssumption
<1>2. UNCHANGED <<interval, waitTime>>
  BY DEF WaitTimeout, config
<1> DEFINE c == (cumulative + interval) % Word
<1>3. cumulative' = c /\ elapsed' = IF elapsed + interval < INFINITE THEN elapsed + interval ELSE INFINITE
  BY DEF WaitTimeout
<1>4. Word \in Nat \ {0}
  BY ProcessRunnerAssumption
<1> HIDE DEF c
<1>5. c \in Nat /\ c < Word /\ c <= cumulative + interval
  BY <1>1 DEF c
<1>6. QED BY <1>2, <1>3, <1>4, <1>5 DEF ClockInv, INFINITE

LEMMA ClockStep == ClockInv /\ [Next]_vars => ClockInv'
<1> SUFFICES ASSUME ClockInv, [Next]_vars PROVE ClockInv'
  OBVIOUS
<1>1. CASE WaitTimeout
  BY <1>1, TimeoutClock
<1>2. CASE CreateSucceeds
  BY <1>2 DEF CreateSucceeds, ClockInv, config
<1>3. CASE UNCHANGED <<config, interval, cumulative, elapsed>>
  BY <1>3 DEF ClockInv, config
<1>4. QED
  BY <1>1, <1>2, <1>3 DEF Next, Runner, vars, CreateFails, WaitSignalled, WaitFails, ReadPipe, DrainDone,
     FlushDone, FlushGivesUp, Terminate, Destroy, ChildWrites, ChildEnds, ChildDies

\* Nothing changes what the constructor was given.
LEMMA ConfigStays == [Next]_vars => UNCHANGED <<redirect, waitTime>>
BY DEF Next, Runner, vars, config, CreateFails, CreateSucceeds, WaitSignalled, WaitFails, WaitTimeout, ReadPipe,
   DrainDone, FlushDone, FlushGivesUp, Terminate, Destroy, ChildWrites, ChildEnds, ChildDies

LEMMA ChildStep == ChildInv /\ [Next]_vars => ChildInv'
<1> SUFFICES ASSUME ChildInv, [Next]_vars PROVE ChildInv'
  OBVIOUS
<1> USE DEF ChildInv
<1>0. UNCHANGED waitTime
  BY ConfigStays
<1>1. CASE CreateFails \/ CreateSucceeds \/ WaitSignalled \/ WaitFails
  BY <1>0, <1>1 DEF CreateFails, CreateSucceeds, WaitSignalled, WaitFails
<1>2. CASE WaitTimeout \/ DrainDone
  BY <1>0, <1>2 DEF WaitTimeout, DrainDone
<1>3. CASE ReadPipe \/ FlushDone \/ FlushGivesUp \/ Destroy
  BY <1>0, <1>3 DEF ReadPipe, FlushDone, FlushGivesUp, Destroy
<1>4. CASE Terminate \/ ChildEnds \/ ChildDies
  BY <1>0, <1>4 DEF Terminate, ChildEnds, ChildDies
<1>5. CASE ChildWrites
  BY <1>0, <1>5 DEF ChildWrites
<1>6. CASE UNCHANGED vars
  BY <1>0, <1>6 DEF vars
<1>7. QED BY <1>1, <1>2, <1>3, <1>4, <1>5, <1>6 DEF Next, Runner

\* A call that has failed stays failed.
LEMMA FailedGrows == [Next]_vars => failed \subseteq failed'
BY DEF Next, Runner, vars, CreateFails, CreateSucceeds, WaitSignalled, WaitFails, WaitTimeout, ReadPipe,
   DrainDone, FlushDone, FlushGivesUp, Terminate, Destroy, ChildWrites, ChildEnds, ChildDies

LEMMA SumStep == SumFromZero /\ [Next]_vars => SumFromZero'
BY DEF SumFromZero, Next, Runner, vars, CreateFails, CreateSucceeds, WaitSignalled, WaitFails, WaitTimeout,
   ReadPipe, DrainDone, FlushDone, FlushGivesUp, Terminate, Destroy, ChildWrites, ChildEnds, ChildDies

\* An even sum that wraps at an even number stays even.
LEMMA EvenWrap ==
  ASSUME NEW a \in Nat, NEW d \in Nat, NEW b \in Nat \ {0},
         a < b, d < b, a % 2 = 0, d % 2 = 0, b % 2 = 0
  PROVE  ((a + d) % b) % 2 = 0
<1>1. (a + d) % b \in {a + d, a + d - b}
  OBVIOUS
<1>2. QED BY <1>1

LEMMA EvenStep == ClockInv /\ SumFromZero /\ EvenSum /\ [Next]_vars => EvenSum' /\ ClockInv'
<1> SUFFICES ASSUME ClockInv, SumFromZero, EvenSum, [Next]_vars PROVE EvenSum'
  BY ClockStep
<1>0. UNCHANGED waitTime
  BY ConfigStays
<1>1. CASE WaitTimeout
  <2> SUFFICES ASSUME waitTime = INFINITE, interval % 2 = 0 PROVE cumulative' % 2 = 0
    BY <1>0, <1>1 DEF WaitTimeout, EvenSum
  <2>1. /\ cumulative \in Nat /\ cumulative < Word /\ interval \in Nat
        /\ interval < Word
    BY ProcessRunnerAssumption DEF ClockInv, INFINITE
  <2>2. cumulative % 2 = 0 /\ Word \in Nat \ {0} /\ Word % 2 = 0
    BY ProcessRunnerAssumption DEF EvenSum
  <2>3. ((cumulative + interval) % Word) % 2 = 0
    BY <2>1, <2>2, EvenWrap
  <2>4. QED BY <1>1, <2>3 DEF WaitTimeout
<1>2. CASE CreateSucceeds
  BY <1>0, <1>2 DEF CreateSucceeds, SumFromZero, EvenSum
<1>3. CASE UNCHANGED <<config, interval, cumulative>>
  BY <1>3 DEF EvenSum, config
<1>4. QED
  BY <1>1, <1>2, <1>3 DEF Next, Runner, vars, CreateFails, WaitSignalled, WaitFails, ReadPipe, DrainDone,
     FlushDone, FlushGivesUp, Terminate, Destroy, ChildWrites, ChildEnds, ChildDies

LEMMA KilledStep ==
  ClockInv /\ ChildInv /\ SumFromZero /\ EvenSum /\ KilledAtLimit /\ [Next]_vars => KilledAtLimit'
<1> SUFFICES ASSUME ClockInv, ChildInv, SumFromZero, EvenSum, KilledAtLimit, [Next]_vars PROVE KilledAtLimit'
  OBVIOUS
<1> USE DEF KilledAtLimit
<1>0. UNCHANGED waitTime
  BY ConfigStays
<1>1. CASE WaitTimeout
  <2>1. elapsed' >= elapsed /\ cumulative' <= elapsed' /\ ClockInv'
    BY <1>1, TimeoutClock DEF ClockInv
  <2>2. child' = "killed" => child = "killed" \/ cumulative' >= waitTime
    BY <1>1 DEF WaitTimeout, ShouldTerminate
  <2>3. pc = "wait"
    BY <1>1 DEF WaitTimeout
  <2>4. waitTime = INFINITE /\ cumulative' >= waitTime => interval % 2 = 1
    <3> SUFFICES ASSUME waitTime = INFINITE, cumulative' >= waitTime, interval % 2 = 0 PROVE FALSE
      BY DEF ClockInv
    <3>1. cumulative' = Word - 1 /\ Word \in Nat \ {0} /\ Word % 2 = 0
      BY <2>1, ProcessRunnerAssumption DEF ClockInv, INFINITE
    <3>2. cumulative' % 2 = 0
      BY <1>0, <1>1, EvenStep DEF EvenSum, WaitTimeout
    <3>3. QED BY <3>1, <3>2
  <2>5. UNCHANGED interval
    BY <1>1 DEF WaitTimeout
  <2>6. QED BY <1>0, <2>1, <2>2, <2>3, <2>4, <2>5 DEF ClockInv
<1>2. CASE CreateFails \/ CreateSucceeds \/ WaitSignalled \/ WaitFails
  BY <1>0, <1>2 DEF CreateFails, CreateSucceeds, WaitSignalled, WaitFails
<1>3. CASE ReadPipe \/ DrainDone \/ FlushDone \/ FlushGivesUp \/ Destroy
  BY <1>0, <1>3 DEF ReadPipe, DrainDone, FlushDone, FlushGivesUp, Destroy
<1>4. CASE Terminate \/ ChildEnds \/ ChildDies \/ ChildWrites
  BY <1>0, <1>4 DEF Terminate, ChildEnds, ChildDies, ChildWrites
<1>5. CASE UNCHANGED vars
  BY <1>0, <1>5 DEF vars
<1>6. QED BY <1>1, <1>2, <1>3, <1>4, <1>5 DEF Next, Runner

\* A child that could still write is not there any more when the last flush
\* begins, so what that flush leaves behind stays empty.
LEMMA OutputStep == ChildInv /\ RedirectWaits /\ OutputComplete /\ [Next]_vars => OutputComplete'
<1> SUFFICES ASSUME ChildInv, RedirectWaits, OutputComplete, [Next]_vars,
                    pc' \in {"returned", "gone"}, redirect', (failed \cap {"wait", "flush"} = {})'
             PROVE  pipe' = 0
  BY DEF OutputComplete
<1>0. redirect /\ waitTime # 0
  BY ConfigStays, Zenon DEF RedirectWaits
<1>a. failed \cap {"wait", "flush"} = {} /\ "wait" \notin failed /\ "flush" \notin failed'
  BY FailedGrows
<1>1. pc \in {"returned", "gone"} => pipe = 0
  BY <1>0, <1>a DEF OutputComplete
<1>2. CASE CreateFails
  BY <1>2 DEF CreateFails, ChildInv
<1>3. CASE FlushDone
  BY <1>0, <1>3, Zenon DEF FlushDone
<1>4. CASE ChildWrites
  BY <1>0, <1>a, <1>4 DEF ChildWrites, ChildInv
<1>5. CASE CreateSucceeds \/ WaitSignalled \/ WaitFails \/ DrainDone
  BY <1>5 DEF CreateSucceeds, WaitSignalled, WaitFails, DrainDone
<1>6. CASE WaitTimeout
  BY <1>6 DEF WaitTimeout
<1>7. CASE ReadPipe
  BY <1>7 DEF ReadPipe
<1>8. CASE Terminate \/ Destroy \/ ChildEnds \/ ChildDies
  BY <1>1, <1>8 DEF Terminate, Destroy, ChildEnds, ChildDies
<1>9. CASE UNCHANGED vars
  BY <1>1, <1>9 DEF vars
<1>10. CASE FlushGivesUp
  BY <1>a, <1>10 DEF FlushGivesUp
<1>11. QED
  BY <1>10, <1>2, <1>3, <1>4, <1>5, <1>6, <1>7, <1>8, <1>9 DEF Next, Runner

LEMMA InvariantHolds == Spec => []Inv
<1>1. Inv /\ [Next]_vars => Inv'
  <2> SUFFICES ASSUME Inv, [Next]_vars PROVE Inv'
    OBVIOUS
  <2>1. RedirectWaits'
    BY ConfigStays, Zenon DEF Inv, RedirectWaits
  <2>2. QED BY <2>1, ClockStep, ChildStep, SumStep, EvenStep, KilledStep, OutputStep DEF Inv
<1>2. QED BY InvInit, <1>1, PTL DEF Spec

-----------------------------------------------------------------------------
LEMMA PipeStep ==
  ASSUME pipe \in 0 .. Capacity, budget \in 0 .. Output, [Next]_vars
  PROVE  (pipe \in 0 .. Capacity /\ budget \in 0 .. Output)'
<1> USE ProcessRunnerAssumption
<1>1. CASE ReadPipe
  BY <1>1 DEF ReadPipe
<1>2. CASE ChildWrites
  BY <1>2 DEF ChildWrites
<1>3. CASE UNCHANGED <<pipe, budget>>
  BY <1>3
<1>4. QED
  BY <1>1, <1>2, <1>3 DEF Next, Runner, vars, CreateFails, CreateSucceeds, WaitSignalled, WaitFails, WaitTimeout,
     DrainDone, FlushDone, FlushGivesUp, Terminate, Destroy, ChildEnds, ChildDies

PlaceOK == /\ pc \in {"create", "wait", "drain", "flush", "returned", "gone"}
           /\ child \in {"none", "running", "killed", "exited"}

LEMMA PlaceStep == PlaceOK /\ [Next]_vars => PlaceOK'
<1> SUFFICES ASSUME PlaceOK, [Next]_vars PROVE PlaceOK'
  OBVIOUS
<1> USE DEF PlaceOK
<1>1. CASE Runner
  BY <1>1 DEF Runner, CreateFails, CreateSucceeds, WaitSignalled, WaitFails, WaitTimeout, ReadPipe, DrainDone,
     FlushDone, FlushGivesUp
<1>2. CASE Terminate \/ Destroy \/ ChildWrites \/ ChildEnds \/ ChildDies
  BY <1>2 DEF Terminate, Destroy, ChildWrites, ChildEnds, ChildDies
<1>3. CASE UNCHANGED vars
  BY <1>3 DEF vars
<1>4. QED BY <1>1, <1>2, <1>3 DEF Next

FailedOK == failed \subseteq {"wait", "drain", "flush"}

LEMMA FailedStep == FailedOK /\ [Next]_vars => FailedOK'
BY DEF FailedOK, Next, Runner, vars, CreateFails, CreateSucceeds, WaitSignalled, WaitFails, WaitTimeout,
   ReadPipe, DrainDone, FlushDone, FlushGivesUp, Terminate, Destroy, ChildWrites, ChildEnds, ChildDies

SwitchOK == redirect \in BOOLEAN /\ handles \in BOOLEAN

LEMMA SwitchStep == SwitchOK /\ [Next]_vars => SwitchOK'
<1> SUFFICES ASSUME SwitchOK, [Next]_vars PROVE SwitchOK'
  OBVIOUS
<1>1. redirect' \in BOOLEAN
  BY ConfigStays, Zenon DEF SwitchOK
<1>2. handles' = handles \/ handles' \in BOOLEAN
  BY Zenon DEF Next, Runner, vars, CreateFails, CreateSucceeds, WaitSignalled, WaitFails, WaitTimeout, ReadPipe,
     DrainDone, FlushDone, FlushGivesUp, Terminate, Destroy, ChildWrites, ChildEnds, ChildDies
<1>3. QED BY <1>1, <1>2, Zenon DEF SwitchOK

IntervalOK == waitTime \in WaitTimes /\ interval \in 0 .. INFINITE

LEMMA IntervalStep == IntervalOK /\ [Next]_vars => IntervalOK'
<1> SUFFICES ASSUME IntervalOK, [Next]_vars PROVE IntervalOK'
  OBVIOUS
<1>1. waitTime \in 0 .. INFINITE
  BY ProcessRunnerAssumption DEF IntervalOK
<1>2. interval' \in {interval, waitTime}
  BY DEF Next, Runner, vars, CreateFails, CreateSucceeds, WaitSignalled, WaitFails, WaitTimeout, ReadPipe,
     DrainDone, FlushDone, FlushGivesUp, Terminate, Destroy, ChildWrites, ChildEnds, ChildDies
<1>3. QED BY <1>1, <1>2, ConfigStays DEF IntervalOK

\* TypeOK: the sum of the waits stays a ULONG, the pipe is never over-full and
\* every other variable keeps its type.
THEOREM TypeCorrect == Spec => []TypeOK
<1> DEFINE Parts == IntervalOK /\ FailedOK /\ PlaceOK /\ SwitchOK /\ pipe \in 0 .. Capacity /\ budget \in 0 .. Output
<1>1. Init => Parts
  <2> SUFFICES ASSUME Init PROVE Parts
    OBVIOUS
  <2>1. IntervalOK /\ FailedOK /\ PlaceOK /\ pipe \in 0 .. Capacity /\ budget \in 0 .. Output
    BY ProcessRunnerAssumption DEF Init, IntervalOK, FailedOK, PlaceOK
  <2>2. SwitchOK
    BY Zenon DEF Init, SwitchOK
  <2>3. QED BY <2>1, <2>2
<1>2. Parts /\ [Next]_vars => Parts'
  BY IntervalStep, FailedStep, PlaceStep, SwitchStep, PipeStep
<1>3. Inv /\ Parts => TypeOK
  <2> SUFFICES ASSUME Inv, Parts PROVE TypeOK
    OBVIOUS
  <2>1. cumulative \in 0 .. INFINITE /\ elapsed \in 0 .. INFINITE
    BY ProcessRunnerAssumption DEF Inv, ClockInv, INFINITE
  <2>2. QED BY <2>1, Zenon DEF TypeOK, IntervalOK, FailedOK, PlaceOK, SwitchOK
<1>4. QED BY <1>1, <1>2, <1>3, InvariantHolds, PTL DEF Spec

\* OutputComplete: CProcessRunner::RunProcess returns with the pipe of a
\* redirected child empty, whatever the child wrote and whenever it wrote it,
\* unless the wait or the last flush failed (utils.h:258-261).
THEOREM OutputAlwaysComplete == Spec => []OutputComplete
<1>1. Inv => OutputComplete
  BY DEF Inv
<1>2. QED BY <1>1, InvariantHolds, PTL

\* KilledAtLimit: a child that RunProcess has terminated had at least its
\* m_WaitTime, although m_CumulativeWait may wrap on the way; one that is to be
\* waited for without end is terminated only under an odd interval, which alone
\* can bring the sum to INFINITE (utils.h:251-255).
THEOREM NeverKilledEarly == Spec => []KilledAtLimit
<1>1. Inv => KilledAtLimit
  BY DEF Inv
<1>2. QED BY <1>1, InvariantHolds, PTL

\* ReturnsAfterChild: RunProcess with a wait time does not leave its child
\* running behind it, terminated or not, unless the wait failed
\* (utils.h:249-261).
THEOREM AlwaysReturnsAfterChild == Spec => []ReturnsAfterChild
<1>1. Inv => ReturnsAfterChild
  BY DEF Inv, ChildInv, ReturnsAfterChild
<1>2. QED BY <1>1, InvariantHolds, PTL
=============================================================================
