-------------------------- MODULE KeyboardMonitor --------------------------
(***************************************************************************)
(* The "input kbd" command (Input.cpp): MonitorKeys owns one CThreadProc   *)
(* whose worker samples the keyboard.  One key stands for the 256, which   *)
(* the worker treats alike and one by one.                                 *)
(***************************************************************************)
EXTENDS ThreadOwner, Naturals

CONSTANT FlushReads  \* the reads that precede the loop: 10

ASSUME KeyboardAssumption == FlushReads \in Nat \ {0} /\ \E o \in Owners : Owners = {o}

Monitor == CHOOSE o \in Owners : TRUE   \* the object t of MonitorKeys

VARIABLES
  main,  \* where MonitorKeys is
  down,  \* the key is held down
  since, \* the key went down since the last GetAsyncKeyState
  reads, \* flushing reads made so far
  prev,  \* prev[] of KbdProcess
  line   \* the last line printed for the key

keyVars == <<down, since>>
kbdVars == <<reads, prev, line>>
vars == <<ownerVars, main, keyVars, kbdVars>>

Init ==
  /\ OwnerInit
  /\ main = "start"
  /\ down \in BOOLEAN /\ since \in BOOLEAN
  /\ reads = 0 /\ prev = FALSE /\ line = "none"

-----------------------------------------------------------------------------
(* The user.                                                               *)

Press == ~down /\ down' = TRUE /\ since' = TRUE /\ UNCHANGED <<ownerVars, main, kbdVars>>
Lift == down /\ down' = FALSE /\ UNCHANGED <<since, ownerVars, main, kbdVars>>

\* _getch() returns '\r'; any other character leaves the loop where it is.
Enter ==
  /\ main = "keys"
  /\ main' = "stop"
  /\ UNCHANGED <<ownerVars, keyVars, kbdVars>>

-----------------------------------------------------------------------------
(* MonitorKeys.                                                            *)

StartMonitor ==
  /\ main = "start"
  /\ \/ EnterStart(Monitor) \/ BeginThread(Monitor) \/ AssignHandle(Monitor)
  /\ UNCHANGED <<main, keyVars, kbdVars>>

\* A monitor that did not start is destroyed at once: return 1.
Started ==
  /\ main = "start"
  /\ \E seen \in Handles : EndStart(Monitor, seen) /\ main' = IF seen = NULL THEN "leave" ELSE "keys"
  /\ UNCHANGED <<keyVars, kbdVars>>

StopMonitor ==
  /\ main = "stop"
  /\ StopThread(Monitor)
  /\ main' = "leave"
  /\ UNCHANGED <<keyVars, kbdVars>>

\* ~CThreadProc.
LeaveMonitor ==
  /\ main = "leave"
  /\ \/ EnterDestructor(Monitor) \/ DestructorStop(Monitor) \/ DestructorReturn(Monitor)
  /\ main' = IF caller'[Monitor] = "freed" THEN "done" ELSE "leave"
  /\ UNCHANGED <<keyVars, kbdVars>>

MainStep == StartMonitor \/ Started \/ StopMonitor \/ LeaveMonitor

-----------------------------------------------------------------------------
(* KbdProcess.                                                             *)

\* A variant that looks only at the state of the key, not at its history.
SampleState == down

\* (val & 0x8000) || val: held down now, or pressed since the last call.
Sample == down \/ since

\* GetState(prev), ten times.
FlushKeys ==
  /\ worker[Monitor] = "proc" /\ reads < FlushReads
  /\ prev' = Sample /\ since' = FALSE
  /\ reads' = reads + 1
  /\ UNCHANGED <<ownerVars, main, down, line>>

EnterLoop ==
  /\ reads = FlushReads
  /\ ShouldContinueRunning(Monitor)
  /\ Advance(Monitor, "proc", "working")
  /\ UNCHANGED <<main, keyVars, kbdVars>>

\* A variant without the memcpy.
ReportNoCopy ==
  /\ Advance(Monitor, "working", "proc")
  /\ line' = IF Sample = prev THEN line ELSE IF Sample THEN "pressed" ELSE "unpressed"
  /\ since' = FALSE
  /\ UNCHANGED <<main, down, reads, prev>>

\* GetState(current), Compare(prev, current), memcpy.
Report ==
  /\ Advance(Monitor, "working", "proc")
  /\ line' = IF Sample = prev THEN line ELSE IF Sample THEN "pressed" ELSE "unpressed"
  /\ prev' = Sample /\ since' = FALSE
  /\ UNCHANGED <<main, down, reads>>

LeaveLoop ==
  /\ reads = FlushReads
  /\ ~ShouldContinueRunning(Monitor)
  /\ LeaveThreadProc(Monitor, "proc")
  /\ UNCHANGED <<main, keyVars, kbdVars>>

WorkerStep ==
  \/ FlushKeys \/ EnterLoop \/ Report \/ LeaveLoop
  \/ /\ \/ CallThreadProc(Monitor) \/ ExchangeState(Monitor)
        \/ CallThreadTerminated(Monitor, "clearing") \/ ClearHandle(Monitor)
     /\ UNCHANGED <<main, keyVars, kbdVars>>

-----------------------------------------------------------------------------
Next == ~ProcessAborted /\ (Press \/ Lift \/ Enter \/ MainStep \/ WorkerStep)

Spec == Init /\ [][Next]_vars

\* Both threads are scheduled; the user may do nothing.
FairSpec ==
  /\ Spec
  /\ WF_vars(~ProcessAborted /\ MainStep)
  /\ WF_vars(~ProcessAborted /\ WorkerStep)

-----------------------------------------------------------------------------
\* Type invariant.
TypeOK ==
  /\ OwnerTypeOK
  /\ main \in {"start", "keys", "stop", "leave", "done"}
  /\ down \in BOOLEAN /\ since \in BOOLEAN /\ prev \in BOOLEAN
  /\ reads \in 0 .. FlushReads
  /\ line \in {"none", "pressed", "unpressed"}

\* The worker samples in its loop and nobody has told it to stop.
Watching == reads = FlushReads /\ worker[Monitor] \in {"proc", "working"} /\ state[Monitor] = "Running"

\* A press is reported however short it is: the worker need not find the key
\* down.
TapReported ==
  Watching /\ since /\ ~prev ~> line = "pressed" \/ ~Watching

\* The key reported as pressed is reported as released, unless it is pressed
\* again first or the monitor is stopped.
ReleaseReported ==
  Watching /\ line = "pressed" /\ ~down ~> line = "unpressed" \/ down \/ ~Watching

\* After ENTER the command returns, and only after its worker has ended.  A
\* worker that has not made its first virtual call by then is left out: if the
\* destructor overtakes it too, it calls a pure function.
MonitorReturns == main = "stop" /\ worker[Monitor] # "created" ~> main = "done" /\ ~Live(Monitor)
=============================================================================
