------------------------------- MODULE Commands -------------------------------
(***************************************************************************)
(* The commands that run in the main thread alone, and the command line    *)
(* that leads to them: RunSubcommand (DumpWork.cpp) hands the process over *)
(* to one handler, and from then on every step is that command's.  What    *)
(* the other commands keep is never touched.                               *)
(***************************************************************************)
EXTENDS TextParser, PatchBin, Runaway, FeatureBits, Devices, MemoryMap, PerfMonitor, CommandLine

VARIABLE running   \* what the process is at

vars == <<running, parserVars, patchVars, runVars, bitsVars, pnpVars, memoryVars, perfVars, lineVars>>

\* The state of the commands that are not run.
NoParser  == /\ ini = [start |-> FALSE, end |-> FALSE, given |-> {}]
             /\ text = <<>> /\ lines = <<>> /\ printed = <<>>
             /\ started = FALSE /\ included = FALSE /\ parsing = "idle"
NoPatch   == /\ original = <<>> /\ file = <<>> /\ request = <<>> /\ fbuf = <<>>
             /\ offset = 0 /\ offsetFound = 0 /\ nResults = 0 /\ res = 1 /\ patching = "idle"
NoRunaway == /\ reports = <<>> /\ late = 0 /\ delay = 0 /\ unread = {} /\ mode = 0
             /\ arrays = <<>> /\ result = 0 /\ diff = {} /\ stage = 0
NoBits    == /\ query = <<>> /\ words = <<>> /\ named = <<>> /\ shown = <<>> /\ bitsAt = "idle"
NoPnp     == /\ machine = <<>> /\ drivers = <<>> /\ matched = <<>> /\ nextDevice = 1 /\ nextDriver = 1
             /\ found = 0 /\ bad = {} /\ selected = 0 /\ installed = 0 /\ pnp = "idle"
NoMemory  == /\ job = [op |-> "none"] /\ section = FALSE /\ buffer = FALSE /\ chunk = 0 /\ views = 0
             /\ left = 0 /\ done = 0 /\ mapped = 0 /\ memoryAt = "idle"
NoPerf    == /\ perf = [loops |-> FALSE, wait |-> FALSE, count |-> 1, limit |-> -1] /\ val = 0
             /\ consecutive = 0 /\ did = "nothing" /\ streak = 0 /\ perfAt = "idle"
NoLine    == /\ argv = <<>> /\ unseen = <<>> /\ switches = <<>> /\ config = <<>> /\ params = <<>>
             /\ handler = "none" /\ token = "none" /\ entry = 0 /\ nested = FALSE
             /\ command = Nothing /\ at = "idle"

Either(name, init, idle) == IF running = name THEN init ELSE idle

Init == /\ running \in {"main", "parse-text", "patch", "cr", "virtio, bits", "pnp", "memory", "perf"}
        /\ Either("main", LineInit, NoLine)
        /\ Either("parse-text", ParserInit, NoParser)
        /\ Either("patch", PatchInit, NoPatch)
        /\ Either("cr", RunawayInit, NoRunaway)
        /\ Either("virtio, bits", BitsInit, NoBits)
        /\ Either("pnp", DevicesInit, NoPnp)
        /\ Either("memory", MemoryInit, NoMemory)
        /\ Either("perf", PerfInit, NoPerf)

ParserStep  == ParserNext  /\ UNCHANGED <<running, patchVars, runVars, bitsVars, pnpVars, memoryVars, perfVars, lineVars>>
PatchStep   == PatchNext   /\ UNCHANGED <<running, parserVars, runVars, bitsVars, pnpVars, memoryVars, perfVars, lineVars>>
RunawayStep == RunawayNext /\ UNCHANGED <<running, parserVars, patchVars, bitsVars, pnpVars, memoryVars, perfVars, lineVars>>
BitsStep    == BitsNext    /\ UNCHANGED <<running, parserVars, patchVars, runVars, pnpVars, memoryVars, perfVars, lineVars>>
DevicesStep == DevicesNext /\ UNCHANGED <<running, parserVars, patchVars, runVars, bitsVars, memoryVars, perfVars, lineVars>>
MemoryStep  == MemoryNext  /\ UNCHANGED <<running, parserVars, patchVars, runVars, bitsVars, pnpVars, perfVars, lineVars>>
PerfStep    == PerfNext    /\ UNCHANGED <<running, parserVars, patchVars, runVars, bitsVars, pnpVars, memoryVars, lineVars>>
LineStep    == LineNext    /\ UNCHANGED <<running, parserVars, patchVars, runVars, bitsVars, pnpVars, memoryVars, perfVars>>

Next == \/ running = "main" /\ LineStep
        \/ running = "parse-text" /\ ParserStep
        \/ running = "patch" /\ PatchStep
        \/ running = "cr" /\ RunawayStep
        \/ running = "virtio, bits" /\ BitsStep
        \/ running = "pnp" /\ DevicesStep
        \/ running = "memory" /\ MemoryStep
        \/ running = "perf" /\ PerfStep

\* A command is one thread that calls the system and is answered.
Spec == Init /\ [][Next]_vars /\ WF_vars(Next)

-----------------------------------------------------------------------------

\* RunSubcommand and its handlers return: every command comes to an end, a
\* command line however many commands it nests, a search however often its
\* pattern occurs, a count of loops that starts at zero or is counted down
\* past it, and whatever the system refuses on the way.  Only the perf command
\* goes on until a key is hit.
CommandEnds ==
  <>(\/ at \in {"usage", "failed", "done"}
     \/ parsing \in {"not loaded", "not found", "done"}
     \/ patching \in {"done", "crashed"}
     \/ stage \in {4, 5}
     \/ bitsAt \in {"done", "failed", "crashed"}
     \/ pnp \in {"not a single device", "no suitable driver", "several drivers", "installed", "not installed"}
     \/ memoryAt = "end"
     \/ running = "perf")
=============================================================================
