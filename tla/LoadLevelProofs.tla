-------------------------- MODULE LoadLevelProofs --------------------------
(***************************************************************************)
(* The destructor's reset of m_Loops bounds what a worker does before its  *)
(* next poll, for every width of the word, every number of reads and       *)
(* whatever the user has set the word to.                                  *)
(***************************************************************************)
EXTENDS LoadLevel, TLAPS

\* Once the destructor has lowered the word nobody raises it again.
LoweredStays == leaving # "no" => loops = 1

\* A worker that does not sleep has no sleep left, and one that sleeps has a
\* read to make.
Sleeps == /\ pc # "sleep" => left = 0
          /\ pc = "sleep" => i < Rounds

Inv == LoweredStays /\ Sleeps /\ i \in Nat

LEMMA Remainder == ASSUME NEW a \in Nat, NEW b \in Nat \ {0}
                   PROVE  a % b \in 0 .. b - 1 /\ a % b <= a
OBVIOUS

LEMMA Sizes == Busy \in Nat \ {0} /\ Word \in Nat \ {0, 1} /\ Rounds \in 0 .. Word - 1
BY LoadLevelAssumption DEF Word, Words

LEMMA InvariantHolds == Spec => []Inv
<1> USE DEF Inv, LoweredStays, Sleeps
<1>1. Init => Inv
  BY DEF Init
<1>2. Inv /\ [Next]_vars => Inv'
  <2> SUFFICES ASSUME Inv, [Next]_vars PROVE Inv'
    OBVIOUS
  <2>1. CASE ToggleBusyLoop \/ Increment \/ Decrement
    BY <2>1 DEF ToggleBusyLoop, Increment, Decrement
  <2>2. CASE Lower \/ Stop
    BY <2>2 DEF Lower, Stop
  <2>3. CASE WorkerStep
    BY <2>3 DEF WorkerStep, Poll, Hash, HashesDone, Open, SingleSleep, SleepTick, Read, VerifyDone
  <2>4. CASE UNCHANGED vars
    BY <2>4 DEF vars
  <2>5. QED BY <2>1, <2>2, <2>3, <2>4 DEF Next
<1>3. QED BY <1>1, <1>2, PTL DEF Spec

\* At most one more hash is made before the worker polls again, and no sleep
\* of more than a millisecond begins.
THEOREM StopAlwaysPrompt == Spec => StopIsPrompt
<1> DEFINE Prompt == leaving # "no" => /\ pc = "hash" /\ i > 0 => i' \in {0, i}
                                       /\ pc = "round" => left' <= 1
<1>1. Inv /\ [Next]_vars => [Prompt]_vars
  <2> SUFFICES ASSUME Inv, Next, leaving # "no"
               PROVE  /\ pc = "hash" /\ i > 0 => i' \in {0, i}
                      /\ pc = "round" => left' <= 1
    OBVIOUS
  <2>0. loops = 1 /\ i \in Nat /\ (pc # "sleep" => left = 0)
    BY DEF Inv, LoweredStays, Sleeps
  <2>1. CASE Poll \/ Hash \/ HashesDone
    BY <2>0, <2>1 DEF Poll, Hash, HashesDone
  <2>2. CASE SingleSleep
    <3>1. loops % Busy <= 1
      BY <2>0, Sizes, Remainder
    <3>2. QED BY <2>2, <3>1 DEF SingleSleep
  <2>3. CASE Open \/ SleepTick \/ Read \/ VerifyDone
    BY <2>0, <2>3 DEF Open, SleepTick, Read, VerifyDone
  <2>4. CASE ~WorkerStep
    BY <2>0, <2>4 DEF Next, ToggleBusyLoop, Increment, Decrement, Lower, Stop
  <2>5. QED BY <2>1, <2>2, <2>3, <2>4 DEF WorkerStep
<1>2. QED BY <1>1, InvariantHolds, PTL DEF Spec, StopIsPrompt

-----------------------------------------------------------------------------
\* The word and the cpu worker's counter stay words, and no sleep is longer
\* than the word without its busy bit allows.
THEOREM TypeCorrect == Spec => []TypeOK
<1>0. Busy \in Nat \ {0} /\ Word \in Nat \ {0, 1} /\ Rounds \in 0 .. Word - 1
  BY Sizes
<1> USE DEF TypeOK, Words
<1>1. Init => TypeOK
  BY <1>0 DEF Init
<1>2. TypeOK /\ Inv /\ [Next]_vars => TypeOK'
  <2> SUFFICES ASSUME TypeOK, Inv, [Next]_vars PROVE TypeOK'
    OBVIOUS
  <2>0. loops \in Nat /\ loops % Busy \in 0 .. Busy - 1
    BY <1>0, Remainder
  <2>1. CASE ToggleBusyLoop
    <3>1. (loops + Busy) % Word \in 0 .. Word - 1
      BY <1>0, <2>0, Remainder
    <3>2. QED BY <2>1, <3>1 DEF ToggleBusyLoop
  <2>2. CASE Increment
    <3>1. (loops + 1) % Word \in 0 .. Word - 1
      BY <1>0, <2>0, Remainder
    <3>2. QED BY <2>2, <3>1 DEF Increment
  <2>3. CASE Decrement
    BY <1>0, <2>3 DEF Decrement
  <2>4. CASE Lower \/ Stop
    BY <1>0, <2>4 DEF Lower, Stop
  <2>5. CASE Poll
    BY <1>0, <2>5 DEF Poll
  <2>6. CASE Hash \/ HashesDone
    BY <1>0, <2>6 DEF Hash, HashesDone
  <2>7. CASE Open \/ VerifyDone
    BY <2>7 DEF Open, VerifyDone
  <2>8. CASE SingleSleep \/ SleepTick
    BY <1>0, <2>0, <2>8 DEF SingleSleep, SleepTick
  <2>9. CASE Read
    BY <1>0, <2>9 DEF Read, Inv, Sleeps
  <2>10. CASE UNCHANGED vars
    BY <2>10 DEF vars
  <2>11. QED
    BY <2>1, <2>2, <2>3, <2>4, <2>5, <2>6, <2>7, <2>8, <2>9, <2>10 DEF Next, WorkerStep
<1>3. QED BY <1>1, <1>2, InvariantHolds, PTL DEF Spec
=============================================================================
