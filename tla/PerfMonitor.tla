---------------------------- MODULE PerfMonitor ----------------------------
(***************************************************************************)
(* The "perf" command (PerfCounters.cpp): PerfCounter polls a performance  *)
(* counter and runs an action when the value has reached a limit in enough *)
(* consecutive measurements.  The counter's provider may fail at any time. *)
(***************************************************************************)
EXTENDS Integers

CONSTANTS CounterValues,   \* what the counter may show
          MaxCount         \* bound on -count

ASSUME PerfAssumption == CounterValues \subseteq Nat /\ MaxCount \in Nat \ {0}

\* Is there -loop, is there -wait, -count or 1 without it, @2 or -1 without it.
PerfConfigs == [loops : BOOLEAN, wait : BOOLEAN, count : 1 .. MaxCount, limit : CounterValues \cup {-1}]

VARIABLES
  perf,         \* the configuration
  perfAt,       \* "add", "first", "poll" or "exit"
  val, consecutive,
  did,          \* what the last step did: "act" or "nothing"
  streak        \* history: the successful measurements of at least the limit
                \* that came one after another up to now, as far as -count

perfVars == <<perf, perfAt, val, consecutive, did, streak>>

PerfInit ==
  /\ perf \in PerfConfigs
  /\ perfAt = "add"
  /\ val = 0 /\ consecutive = 0
  /\ did = "nothing" /\ streak = 0

\* q.Add(Parameters[0])
AddCounter ==
  /\ perfAt = "add"
  /\ perfAt' \in {"first", "exit"}
  /\ UNCHANGED <<perf, val, consecutive, did, streak>>

\* while (!q.PollQ()): until the first collection succeeds, with -wait.
FirstPoll(ok) ==
  /\ perfAt = "first"
  /\ perfAt' = IF ok THEN "poll" ELSE IF perf.wait THEN "first" ELSE "exit"
  /\ UNCHANGED <<perf, val, consecutive, did, streak>>

\* _kbhit()
KeyHit ==
  /\ perfAt = "poll"
  /\ perfAt' = "exit" /\ did' = "nothing"
  /\ UNCHANGED <<perf, val, consecutive, streak>>

-----------------------------------------------------------------------------
(* One turn of the loop: q.Poll(&val, 1) ends with a value or fails, in     *)
(* which case val keeps the value of an earlier turn.                       *)

High(v) == perf.limit >= 0 /\ v >= perf.limit

\* What the measurements say, whatever the code makes of them.
Measured(ok, v) ==
  streak' = IF ok /\ High(v) THEN (IF streak < perf.count THEN streak + 1 ELSE perf.count) ELSE 0

\* Variants of the counting: one too many; the count forgotten at each turn.
CountOneMore(v) ==
  LET n == consecutive + 1 IN
  /\ did' = IF High(v) /\ n > perf.count THEN "act" ELSE "nothing"
  /\ consecutive' = IF High(v) /\ n <= perf.count THEN n ELSE 0
  /\ perfAt' = IF did' = "act" /\ ~perf.loops THEN "exit" ELSE "poll"

CountForgotten(v) ==
  /\ did' = IF High(v) /\ 1 >= perf.count THEN "act" ELSE "nothing"
  /\ consecutive' = 0
  /\ perfAt' = IF did' = "act" /\ ~perf.loops THEN "exit" ELSE "poll"

\* The action, RunAction(Parameters), leaves no trace in the monitor but for
\* the end of the loop.
Count(v) ==
  LET n == consecutive + 1 IN
  /\ did' = IF High(v) /\ n >= perf.count THEN "act" ELSE "nothing"
  /\ consecutive' = IF High(v) /\ n < perf.count THEN n ELSE 0
  /\ perfAt' = IF did' = "act" /\ ~perf.loops THEN "exit" ELSE "poll"

PollCounter(v) ==
  /\ perfAt = "poll"
  /\ val' = v
  /\ Count(v)
  /\ Measured(TRUE, v)
  /\ UNCHANGED perf

\* With -loop the failure is passed over and the old value is judged again.
FailedPoll ==
  /\ perfAt = "poll"
  /\ IF perf.loops THEN Count(val)
             ELSE perfAt' = "exit" /\ did' = "nothing" /\ UNCHANGED consecutive
  /\ Measured(FALSE, val)
  /\ UNCHANGED <<perf, val>>

Turn == FailedPoll \/ \E v \in CounterValues : PollCounter(v)

PerfNext ==
  \/ AddCounter
  \/ \E ok \in BOOLEAN : FirstPoll(ok)
  \/ KeyHit
  \/ Turn

PerfSpec == PerfInit /\ [][PerfNext]_perfVars

-----------------------------------------------------------------------------

\* PerfCounter: without -loop the action runs at once when, and only when, the
\* last -count measurements succeeded and were all at or above the limit.
ActsOnTime == [][~perf.loops /\ perfAt = "poll" => (did' = "act" <=> streak' = perf.count)]_perfVars

\* PerfCounter: with -loop a counter that stays high for good makes the action
\* run again and again, as long as nobody hits a key.
KeepsActing == perf.loops /\ <>[](perfAt = "poll" /\ High(val)) => []<>(did = "act")
=============================================================================
