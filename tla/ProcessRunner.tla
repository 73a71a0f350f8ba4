--------------------------- MODULE ProcessRunner ---------------------------
(***************************************************************************)
(* CProcessRunner and CPipe (utils.h): one RunProcess call, the child it   *)
(* creates and the pipe the child writes to.  Standard output and standard *)
(* error have a pipe each, read one after the other in the same way; one   *)
(* of them is modelled.                                                    *)
(***************************************************************************)
EXTENDS Naturals

CONSTANTS
  Width,      \* bits of a ULONG; INFINITE is its largest value
  WaitTimes,  \* what the constructor may be given
  Intervals,  \* what SetIntermediateWait may be given, 0 if it is not called
  Capacity,   \* bytes the pipe holds
  Chunk,      \* sizeof(buffer) of Flush
  Output,     \* bytes the child writes before it stops writing
  Endless     \* the child never stops writing

Word == 2 ^ Width
INFINITE == Word - 1

\* That a power of two is no less than 1, and even, is said for the provers,
\* who know nothing of ^.
ASSUME ProcessRunnerAssumption ==
  /\ Word \in Nat \ {0} /\ Word % 2 = 0
  /\ Width \in Nat \ {0} /\ Capacity \in Nat \ {0} /\ Chunk \in Nat \ {0} /\ Output \in Nat
  /\ WaitTimes \subseteq 0 .. INFINITE /\ Intervals \subseteq 0 .. INFINITE
  /\ Endless \in BOOLEAN

VARIABLES
  redirect, waitTime, interval,  \* m_Redirect, m_WaitTime, m_IntermediateWait
  cumulative,                    \* m_CumulativeWait
  pc,      \* "create", "wait", "drain" (Flush inside the loop), "flush", "returned", "gone"
  child,   \* "none", "running", "killed" (its end is only a matter of time), "exited"
  handles, \* pi holds open handles
  pipe,    \* bytes in the pipe
  budget,  \* bytes the child still has to write
  elapsed, \* history: how long the process has been waited for, as far as INFINITE
  failed   \* history: the calls that failed: "wait", "drain" (inside the loop), "flush"

config == <<redirect, waitTime>>
vars == <<config, interval, cumulative, pc, child, handles, pipe, budget, elapsed, failed>>

\* WaitTime = 0 switches redirection off in the constructor.
Init ==
  /\ waitTime \in WaitTimes /\ interval \in Intervals
  /\ redirect \in (IF waitTime = 0 THEN {FALSE} ELSE BOOLEAN)
  /\ cumulative = 0 /\ pc = "create" /\ child = "none" /\ handles = FALSE
  /\ pipe = 0 /\ budget = Output /\ elapsed = 0 /\ failed = {}

-----------------------------------------------------------------------------
(* RunProcess.                                                             *)

\* CreateProcess fails: there is nothing to wait for and nothing to flush.
CreateFails ==
  /\ pc = "create"
  /\ pc' = "returned"
  /\ UNCHANGED <<config, interval, cumulative, child, handles, pipe, budget, elapsed, failed>>

\* CreateProcess, CloseWrite, ResumeThread and the choice of the interval.
CreateSucceeds ==
  /\ pc = "create"
  /\ child' = "running" /\ handles' = TRUE
  /\ interval' = IF interval = 0 \/ interval > waitTime THEN waitTime ELSE interval
  /\ pc' = IF waitTime = 0 THEN "flush" ELSE "wait"
  /\ UNCHANGED <<config, cumulative, pipe, budget, elapsed, failed>>

\* WaitForSingleObject finds the child ended.
WaitSignalled ==
  /\ pc = "wait" /\ child = "exited"
  /\ pc' = "flush"
  /\ UNCHANGED <<config, interval, cumulative, child, handles, pipe, budget, elapsed, failed>>

\* WAIT_FAILED ends the loop as well.
WaitFails ==
  /\ pc = "wait"
  /\ pc' = "flush" /\ failed' = failed \cup {"wait"}
  /\ UNCHANGED <<config, interval, cumulative, child, handles, pipe, budget, elapsed>>

\* Variants: one interval too soon; only when the time is met exactly.
ShouldTerminateSoon(c) == c + interval >= waitTime
ShouldTerminateExactly(c) == c = waitTime

ShouldTerminate(c) == c >= waitTime

\* Variants: no flush on the way; no wait after the termination.
TimeoutNoFlush ==
  /\ pc = "wait" /\ child # "exited" /\ interval # INFINITE
  /\ cumulative' = (cumulative + interval) % Word
  /\ elapsed' = IF elapsed + interval < INFINITE THEN elapsed + interval ELSE INFINITE
  /\ child' = IF ShouldTerminate(cumulative') THEN "killed" ELSE child
  /\ UNCHANGED <<config, interval, handles, pipe, budget, pc, failed>>

TimeoutNoWait ==
  /\ pc = "wait" /\ child # "exited" /\ interval # INFINITE
  /\ cumulative' = (cumulative + interval) % Word
  /\ elapsed' = IF elapsed + interval < INFINITE THEN elapsed + interval ELSE INFINITE
  /\ IF ShouldTerminate(cumulative')
       THEN child' = "killed" /\ pc' = "flush"
       ELSE pc' = (IF redirect THEN "drain" ELSE "wait") /\ UNCHANGED child
  /\ UNCHANGED <<config, interval, handles, pipe, budget, failed>>

\* WAIT_TIMEOUT.  An infinite wait has none.
WaitTimeout ==
  /\ pc = "wait" /\ child # "exited" /\ interval # INFINITE
  /\ cumulative' = (cumulative + interval) % Word
  /\ elapsed' = IF elapsed + interval < INFINITE THEN elapsed + interval ELSE INFINITE
  /\ IF ShouldTerminate(cumulative')
       THEN child' = "killed" /\ UNCHANGED pc
       ELSE pc' = (IF redirect THEN "drain" ELSE "wait") /\ UNCHANGED child
  /\ UNCHANGED <<config, interval, handles, pipe, budget, failed>>

\* One turn of the loop of Flush: as much as there is, up to the buffer.
ReadPipe ==
  /\ pc = "drain" \/ (pc = "flush" /\ redirect)
  /\ pipe > 0
  /\ pipe' = IF pipe > Chunk THEN pipe - Chunk ELSE 0
  /\ UNCHANGED <<config, interval, cumulative, pc, child, handles, budget, elapsed, failed>>

DrainDone ==
  /\ pc = "drain" /\ pipe = 0
  /\ pc' = "wait"
  /\ UNCHANGED <<config, interval, cumulative, child, handles, pipe, budget, elapsed, failed>>

\* A variant that reads one buffer of what is there.
FlushOnce ==
  /\ pc = "flush"
  /\ pipe' = IF pipe > Chunk THEN pipe - Chunk ELSE 0
  /\ pc' = "returned"
  /\ handles' = (waitTime = 0)
  /\ UNCHANGED <<config, interval, cumulative, child, budget, elapsed, failed>>

\* The exit code is taken; Clean() closes the handles unless WaitTime is 0.
FlushDone ==
  /\ pc = "flush" /\ (redirect => pipe = 0)
  /\ pc' = "returned"
  /\ handles' = (waitTime = 0)
  /\ UNCHANGED <<config, interval, cumulative, child, pipe, budget, elapsed, failed>>

\* Flush breaks off at a PeekNamedPipe or a ReadFile that fails or gets
\* nothing, and leaves in the pipe what there is.
FlushGivesUp ==
  /\ redirect /\ pipe > 0
  /\ \/ pc = "drain" /\ pc' = "wait" /\ UNCHANGED handles
     \/ pc = "flush" /\ pc' = "returned" /\ handles' = (waitTime = 0)
  /\ failed' = failed \cup {pc}
  /\ UNCHANGED <<config, interval, cumulative, child, pipe, budget, elapsed>>

-----------------------------------------------------------------------------
(* The owner of the runner, once RunProcess has returned.                  *)

\* Terminate() does nothing without a handle.
Terminate ==
  /\ pc = "returned" /\ handles /\ child = "running"
  /\ child' = "killed"
  /\ UNCHANGED <<config, interval, cumulative, pc, handles, pipe, budget, elapsed, failed>>

\* ~CProcessRunner
Destroy ==
  /\ pc = "returned"
  /\ pc' = "gone" /\ handles' = FALSE
  /\ UNCHANGED <<config, interval, cumulative, child, pipe, budget, elapsed, failed>>

-----------------------------------------------------------------------------
(* The child.  Without redirection it writes elsewhere.                    *)

ChildWrites ==
  /\ child = "running" /\ redirect
  /\ budget > 0 /\ pipe < Capacity
  /\ pipe' = pipe + 1
  /\ budget' = IF Endless THEN budget ELSE budget - 1
  /\ UNCHANGED <<config, interval, cumulative, pc, child, handles, elapsed, failed>>

\* It ends on its own once it has written its output.
ChildEnds ==
  /\ child = "running" /\ (redirect /\ ~Endless => budget = 0)
  /\ child' = "exited"
  /\ UNCHANGED <<config, interval, cumulative, pc, handles, pipe, budget, elapsed, failed>>

ChildDies ==
  /\ child = "killed"
  /\ child' = "exited"
  /\ UNCHANGED <<config, interval, cumulative, pc, handles, pipe, budget, elapsed, failed>>

-----------------------------------------------------------------------------
Runner ==
  \/ CreateFails \/ CreateSucceeds \/ WaitSignalled \/ WaitFails \/ WaitTimeout
  \/ ReadPipe \/ DrainDone \/ FlushDone \/ FlushGivesUp

Next == Runner \/ Terminate \/ Destroy \/ ChildWrites \/ ChildEnds \/ ChildDies

Spec == Init /\ [][Next]_vars

\* The runner goes on, and the system ends a process that is terminated.  The
\* child may hang.
FairSpec == Spec /\ WF_vars(Runner) /\ WF_vars(ChildDies)

-----------------------------------------------------------------------------
\* Type invariant.
TypeOK ==
  /\ waitTime \in WaitTimes /\ interval \in 0 .. INFINITE /\ redirect \in BOOLEAN
  /\ cumulative \in 0 .. INFINITE /\ elapsed \in 0 .. INFINITE
  /\ pc \in {"create", "wait", "drain", "flush", "returned", "gone"}
  /\ child \in {"none", "running", "killed", "exited"} /\ handles \in BOOLEAN
  /\ pipe \in 0 .. Capacity /\ budget \in 0 .. Output
  /\ failed \subseteq {"wait", "drain", "flush"}

\* All that the child wrote has been collected when RunProcess returns, unless
\* the wait or the last Flush failed.  What a Flush inside the loop left behind
\* is made up for.
OutputComplete ==
  pc \in {"returned", "gone"} /\ redirect /\ failed \cap {"wait", "flush"} = {} => pipe = 0

\* RunProcess terminates the child only after it has waited as long as it was
\* asked to.  A wait without end is cut short only by an odd interval, whose
\* sum meets INFINITE before it wraps or after (utils.h:251).
KilledAtLimit ==
  pc \in {"wait", "drain", "flush"} /\ child = "killed" =>
    /\ elapsed >= waitTime
    /\ waitTime = INFINITE => interval % 2 = 1

\* RunProcess comes back with the child ended, unless it was asked not to wait
\* or the wait failed.
ReturnsAfterChild ==
  pc \in {"returned", "gone"} /\ waitTime # 0 /\ "wait" \notin failed => child \in {"none", "exited"}

\* The sum of the waits comes to the limit before it wraps.
LimitMet == interval = waitTime \/ waitTime + interval <= Word

\* utils.h:191-192: "WaitTime < INFINITE gives a possibility to do some action
\* when the process is running and decide when to kill it": a finite wait ends,
\* even if the child does not, unless the wait itself fails.  A limit less than
\* an interval below the end of the clock is left out: the sum may wrap past it
\* each time round.
TimeLimitEnforced ==
  pc = "wait" /\ waitTime # INFINITE /\ LimitMet ~> pc = "returned" \/ "wait" \in failed

\* A child that has filled the pipe is not left stuck until its time is over:
\* with an interval still to go the pipe is emptied first, if no call fails.
PipeDrained ==
  redirect /\ pc = "wait" /\ pipe = Capacity /\ elapsed + interval < waitTime
    ~> (pipe < Capacity /\ elapsed < waitTime) \/ failed # {}
=============================================================================
