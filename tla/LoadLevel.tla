----------------------------- MODULE LoadLevel -----------------------------
(***************************************************************************)
(* m_Loops of CThreadCollection (Threads.cpp): an unsigned word that the   *)
(* keyboard changes and every worker reads while it works.  A "cpu" worker *)
(* takes it for the number of hashes between two sleeps, an "rfile" worker *)
(* for the milliseconds to sleep before each of the reads of a round.      *)
(***************************************************************************)
EXTENDS Naturals

CONSTANTS
  Width,  \* bits of a ULONG
  Rounds  \* reads between two polls of an rfile worker: nRounds, 64 in the code

Busy == 2 ^ (Width - 1)   \* 0x80000000
Word == 2 * Busy
Words == 0 .. Word - 1

\* That a power of two is no less than 1 is said for the provers, who know
\* nothing of ^.
ASSUME LoadLevelAssumption ==
  /\ Width \in Nat \ {0} /\ Busy \in Nat \ {0}
  /\ Rounds \in Words

VARIABLES
  activity, \* "cpu" or "rfile"
  loops,    \* m_Loops
  leaving,  \* where the main thread is: "no", "lowered", "stopped"
  pc,       \* the worker: "poll", "hash", "open", "round", "sleep" or "done"
  i,        \* the cpu worker's hashes, or the rfile worker's reads
  left      \* milliseconds the rfile worker's Sleep still has to run

vars == <<activity, loops, leaving, pc, i, left>>

Init ==
  /\ activity \in {"cpu", "rfile"}
  /\ loops = 1 /\ leaving = "no" /\ pc = "poll" /\ i = 0 /\ left = 0

-----------------------------------------------------------------------------
(* The main thread.                                                        *)

\* ToggleBusyLoop: m_Loops ^= 0x80000000.
ToggleBusyLoop ==
  /\ leaving = "no"
  /\ loops' = (loops + Busy) % Word
  /\ UNCHANGED <<activity, leaving, pc, i, left>>

Increment ==
  /\ leaving = "no"
  /\ loops' = (loops + 1) % Word
  /\ UNCHANGED <<activity, leaving, pc, i, left>>

Decrement ==
  /\ leaving = "no" /\ loops # 0
  /\ loops' = loops - 1
  /\ UNCHANGED <<activity, leaving, pc, i, left>>

\* A variant that leaves the word as the user set it.
LowerForgotten == leaving = "no" /\ leaving' = "lowered" /\ UNCHANGED <<activity, loops, pc, i, left>>

\* ~CThreadCollection: m_Loops = 1, then StopThread().
Lower == leaving = "no" /\ leaving' = "lowered" /\ loops' = 1 /\ UNCHANGED <<activity, pc, i, left>>
Stop == leaving = "lowered" /\ leaving' = "stopped" /\ UNCHANGED <<activity, loops, pc, i, left>>

-----------------------------------------------------------------------------
(* The worker: CLoadingThreadCpu and CFileReadThread.                       *)

\* while (ShouldContinueRunning()), and for rfile && Verify(...).
Poll ==
  /\ pc = "poll"
  /\ pc' = IF leaving = "stopped" THEN "done" ELSE IF activity = "cpu" THEN "hash" ELSE "open"
  /\ i' = 0
  /\ UNCHANGED <<activity, loops, leaving, left>>

\* for (ULONG i = 0; i < m_Loops; ++i) HashData(...): the word is read anew
\* before each hash.
Hash ==
  /\ pc = "hash" /\ i < loops
  /\ i' = i + 1
  /\ UNCHANGED <<activity, loops, leaving, pc, left>>

HashesDone ==
  /\ pc = "hash" /\ i >= loops
  /\ pc' = "poll"
  /\ UNCHANGED <<activity, loops, leaving, i, left>>

\* Verify: the worker ends when the file does not open.
Open ==
  /\ pc = "open"
  /\ pc' \in {"round", "done"}
  /\ UNCHANGED <<activity, loops, leaving, i, left>>

\* SingleSleep: Sleep(m_Wait & ~0x80000000), the word read anew each round.
SingleSleep ==
  /\ pc = "round" /\ i < Rounds
  /\ left' = loops % Busy /\ pc' = "sleep"
  /\ UNCHANGED <<activity, loops, leaving, i>>

SleepTick == pc = "sleep" /\ left > 0 /\ left' = left - 1 /\ UNCHANGED <<activity, loops, leaving, pc, i>>

\* The read after the sleep; the worker ends at a word that is not as written.
Read ==
  /\ pc = "sleep" /\ left = 0
  /\ \/ pc' = "round" /\ i' = i + 1
     \/ pc' = "done" /\ i' = i
  /\ UNCHANGED <<activity, loops, leaving, left>>

\* A variant whose caller is while (Verify(...)): the file is read again
\* without a poll.
VerifyAgain ==
  /\ pc = "round" /\ i = Rounds
  /\ pc' = "open" /\ i' = 0
  /\ UNCHANGED <<activity, loops, leaving, left>>

\* return true
VerifyDone ==
  /\ pc = "round" /\ i = Rounds
  /\ pc' = "poll"
  /\ UNCHANGED <<activity, loops, leaving, i, left>>

WorkerStep == Poll \/ Hash \/ HashesDone \/ Open \/ SingleSleep \/ SleepTick \/ Read \/ VerifyDone

Next == ToggleBusyLoop \/ Increment \/ Decrement \/ Lower \/ Stop \/ WorkerStep

Spec == Init /\ [][Next]_vars

\* The worker runs and the destructor, once entered, goes on.
FairSpec == Spec /\ WF_vars(WorkerStep) /\ WF_vars(Stop)

-----------------------------------------------------------------------------
\* Type invariant.
TypeOK ==
  /\ loops \in Words /\ i \in Words /\ left \in 0 .. Busy - 1
  /\ leaving \in {"no", "lowered", "stopped"}
  /\ pc \in {"poll", "hash", "open", "round", "sleep", "done"}

\* Once the destructor has lowered the word, a cpu worker makes at most one
\* more hash before it polls again, and no sleep that an rfile worker begins
\* is longer than one millisecond, however high the load was.
StopIsPrompt ==
  [][leaving # "no" => /\ pc = "hash" /\ i > 0 => i' \in {0, i}
                       /\ pc = "round" => left' <= 1]_vars

\* The worker always comes to its next poll, and so ends when told to.
WorkerEnds == leaving = "stopped" ~> pc = "done"

\* "d(ec)" (Threads.cpp:301): a decrement never lengthens the wait of an
\* rfile worker.
DecShortensWait == [][Decrement => loops' % Busy <= loops % Busy]_vars
=============================================================================
