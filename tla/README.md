# DumpWork in TLA+

DumpWork is a Windows console program with some twenty commands for people who
work with drivers and dumps: it loads a machine with worker threads, watches
performance counters and keys, runs child processes, cuts up logs, patches
binaries and compares a debugger's thread reports.  This directory holds TLA+
models of the commands that keep state, the TLC configurations that check them
on small instances, and TLAPS proofs of what matters most about the concurrent
ones.  `PROJECT.json` maps every definition to the lines it translates.

    tlc -config LoadThreads.cfg LoadThreads     # one run
    tlapm LoadThreadsProofs.tla                 # one module of proofs

Contents: [inventory](#inventory), [how the parts interact](#how-the-parts-interact),
[modules](#the-modules), [runs](#the-runs), [fairness](#fairness),
[proofs](#the-proofs), [where the code differs from its word](#where-the-code-differs-from-its-word),
[not modelled](#what-is-not-modelled), [plan](#plan).

## Inventory

For each component: the state it keeps, what changes it, what is hard about it,
and what makes it correct.

| Component | Source | State | Operations |
| --- | --- | --- | --- |
| Worker ownership | `utils.h` `CThreadOwner` | `m_State`, `m_ThreadHandle`, the virtual table pointer while the object is destroyed | `StartThread`, `StopThread`, destructor, `_ThreadProc`, `ThreadTerminated` |
| Load generator | `Threads.cpp` `CThreadCollection`, `CLoadingThread` and five activities | the array of objects, one semaphore, the destructor's loops | construction, `AddThread`, `ProcessInput`, destructor; `Wait`, work, `Signal` of each worker |
| Load level | `Threads.cpp` `m_Loops` | one word shared with all workers without a lock | keys i, d, b; reset in the destructor; the reads of the cpu and rfile workers |
| Keyboard monitor | `Input.cpp` | `prev[]`, the system's history bit per key | `MonitorKeys`, the worker's sampling loop |
| Performance monitor | `PerfCounters.cpp` | `val`, `consecutive` | add, first poll, poll, action |
| Child processes | `utils.h` `CProcessRunner`, `CPipe` | handles, `m_CumulativeWait`, the pipes | `RunProcess`, `Flush`, `Terminate`, destructor |
| Text parser | `ParseText.cpp` | two flags and a pending block | ini look-up, one turn per `fgets` |
| Binary patcher | `PatchBin.cpp` | the image, three counters | load, search, patch, write back |
| Thread reports | `Runaway.cpp` | two growing arrays | `Load`, `Compare`, `Diff` |
| Command line | `DumpWork.cpp`, `Engine.h`, `Time.cpp` | the shrinking parameter array, the switches | `main`, `ProcessCommand`, nested `!` commands |
| File tests | `Files.cpp` | the file, each process's handle with its access and sharing, the stream's buffer | `hold`, `write`, `verify`, `verify-*`, `read-*` |
| Feature words | `virtio.cpp`, `bits.cpp` | the word, cleared bit by bit as it is named | tables, conversion, fields |
| Memory stress | `memory.cpp`, `utils.h` `CMemoryMappedFile` | the section and its views | `pte`, `pte2`, `pte3` |
| Devices | `Pnp.cpp` | devices that matched, drivers made unselectable | `install`; `enum` and `pci` print |
| kd, cpu, hv | `kd.cpp`, `Cpu.cpp`, `hv.cpp` | none | one child process; printing |

What is hard, and what correctness means there:

* **Worker ownership.**  Caller and worker share two fields without a lock; the
  worker may finish before `StartThread` has stored its handle; the destructor of
  the base class runs when the derived part is already gone.  Correct: at most one
  worker per object, a stop is never undone, the object outlives its worker, the
  object can be started again.
* **Load generator.**  One semaphore is both the start permit and the notice of
  having finished, with a maximum (4096) beyond which a post is lost in silence.
  Correct: permits are neither made up nor lost, no object is deleted from under
  an activity, shutdown completes.
* **Load level.**  The bound of a loop, or the length of a sleep, changes while a
  worker is inside; a toggled top bit shares the word with a counter.  Correct:
  a stop takes effect at once however high the load was.
* **Keyboard monitor.**  Keys are pressed and released between samples, and ENTER
  arrives at any moment of the worker's loop.  Correct: no press is missed, every
  reported press is followed by its release, the command returns with its worker
  gone.
* **Performance monitor.**  A poll may fail at any turn.  Correct: the action runs
  exactly after the asked-for number of consecutive high measurements.
* **Child processes.**  The child fills a pipe that the parent empties only
  between waits; the child's own end races the time limit; the sum of the waits
  is a word that wraps.  Correct: complete output, no termination before the
  limit, termination at a limit that the sum meets, no child left behind.
* **Text parser.**  Whether a block is wanted is known after its first lines.
  Correct: wanted blocks come out whole and once, nothing else comes out.
* **Binary patcher.**  The place patched must be the one asked for, and a failure
  on the way must not damage or misreport.
* **Thread reports.**  Lines come sorted by time, not by thread; threads die, are
  born and are renumbered; times wrap.  Correct: the later report is recognised
  and every thread accounted for.
* **File tests.**  Several processes use one file at a time, each in small steps;
  what they may do to each other depends on sharing flags only the system looks
  at; a writer empties the file under another; a stream's last units reach the file
  in `fclose`, which nobody checks.  Correct: a verdict is about the file as it is,
  what is held does not change, writers agree.
* **Feature words.**  Tables are walked in turn and may have a bit twice, numbers of 64 bits meet a signed conversion,
  and the layout of bit fields is only documented beside them.  Correct: every bit
  is named once, every field shows its own bits.
* **Memory stress, devices.**  Every call may fail, and most results are only
  logged.  Correct: views are given back, and a driver is installed on purpose.
* **Command line.**  Switches stand anywhere, table entries are tried in turn and
  consume parameters, commands nest.  Correct: what runs is what was named.

Every place where this can go wrong is listed under `hazards` in `PROJECT.json`,
at its line, with the properties that watch it.

## How the parts interact

`main` collects switches into a global configuration and hands the parameters to
a handler; `time !cmd` calls the same search again (`CommandLine`).  The handler of
`threads` makes a `CThreadCollection` per `-loop` turn; its objects derive from
`CLoadingThread`, which derives from `CThreadOwner`.  The collection calls
`StartThread`, `StopThread` and the destructor; the worker calls back through
virtual functions and posts to the collection's semaphore.  `input kbd` owns one
`CThreadOwner` and no semaphore.  The `run` activity and `kd` use `CProcessRunner`.
The other commands run in the main thread alone.  `files` meets other processes of
the same program at the test file (`TestFile`); the rest are composed in `Commands`,
where `RunSubcommand` hands the process to one of them.

So `ThreadOwner` is written once, as operations without a client, and three
modules add the code that calls it:

    ThreadOwner --- ThreadClient --- refines ThreadGuard
               \--- LoadThreads ---- refines WorkGate
               \--- KeyboardMonitor
    TextParser, PatchBin, Runaway, FeatureBits, Devices,
      MemoryMap, PerfMonitor, CommandLine --- Commands
    Ascending is used by FeatureBits and CommandLine
    LoadLevel, ProcessRunner, TestFile stand alone

## The modules

**ThreadOwner** (`utils.h`).  A step is one read or write of a shared field by the
caller or the worker.  `caller[o]` says where the calling thread is inside
`StartThread` or the destructor, `worker[o]` where the worker is inside
`_ThreadProc`.  `_beginthread` is a step after which the worker may run to its end
before the caller stores the handle; it may also fail, by NULL as the code expects
or by -1 as the C runtime documents.  The second `IsThreadRunning()` of
`StartThread` reads a plain field another thread may be writing, so it yields
either the value just stored or the one in memory.  `vptr[o]` turns to "base" when
the derived part is destroyed: a worker that makes its first virtual call after
that meets a pure function and the process is aborted.  `OwnerInv` is the inductive
invariant all clients share.

**ThreadClient** is the most general client: it starts, stops and deletes in any
order.  **ThreadGuard** is the abstract promise (a worker runs, is told, ends; an
object is freed only without a worker), refined with `thread` computed from
`worker` and `state`.

**LoadThreads** (`Threads.cpp`).  `mpc` is the main thread's place in the
constructor, `ProcessInput` and the destructor's three loops.  Workers take a
permit (`TakePermit`), work, and post one (`SignalDone`) from their
`ThreadTerminated`.  `Release` drops a post at the maximum, as `ReleaseSemaphore`
does with nobody looking.  `EarlyReturn` lets an activity end before it is told to,
as wfile and rfile do when their file fails.  **WorkGate** is the abstract promise:
work begins only while the collection is open, and it closes only when no one is
at work.

**LoadLevel** (`Threads.cpp`).  The word, the keys that change it, the destructor's
reset to 1 and its stop, against one worker that is of the cpu or of the rfile
kind.  The cpu worker reads the word before each hash.  The rfile worker opens its
file and makes `Rounds` reads (64 in the code) between two polls, each after a sleep
whose length it reads from the word anew; it ends early when the file does not open or
does not hold what was written.

**KeyboardMonitor** (`Input.cpp`).  The user presses and lifts one key, which stands
for the 256 that are treated alike.  `since` is the history bit that
`GetAsyncKeyState` clears.

**PerfMonitor** (`PerfCounters.cpp`).  `perf` is the configuration, `perfAt` the place in
the command.  `FailedPoll` keeps `val` from an earlier turn and, with `-loop`, counts
it.  `streak` is a history variable: what the measurements say, whatever the code makes
of them.

**ProcessRunner** (`utils.h`).  One `RunProcess` call: create, wait, drain, flush,
return.  One pipe stands for the two, which are read one after the other alike; a
byte written and a byte read stand for the text.  The wait may fail (`WaitFails`), which
ends the loop like the child's end does, and so may a call of `Flush`, which then leaves
in the pipe what there is (`FlushGivesUp`).  Two history variables: `elapsed` is the time
waited for, which does not wrap but stays at INFINITE once it is there, and `failed` has
the calls that failed.  The child writes, ends, hangs, or is killed.

**TextParser** (`ParseText.cpp`).  A line is what the code asks about it: which
marker it holds and which filters it matches.  The file grows as it is read, so
every file up to the bound is covered.  What filters a marker line matches, and
blank lines, make no difference to the code and are left out.

**PatchBin** (`PatchBin.cpp`).  Files are sequences of bytes, requests two patterns
and a target chunk.  A write may fail after any number of bytes.  An empty pattern
overruns both buffers (`Overrun`): the process is lost, or goes on with any patterns.
`Places` says, without the search, where the pattern is; `Seen` leaves out a place at the
very end of the file, where `Find` does not look; `Expected` is the place that was meant,
counted among `Seen`.

**Runaway** (`Runaway.cpp`).  The initial state is a process at two moments:
threads die, any number of new ones is born, the others age and use time in between, and
are renumbered by the debugger; a new thread may have the identifier of a dead one.
`Load` may fail to open its file, which ends the command (`OpenFails`); otherwise it runs
line by line, a section's lines in any order.  Times
are words of `Width` bits; `Store`, `FindById`, `Compare` and `Diff` are the code's,
on its arrays with its early ends.  `Pairs` is the loop both of them have: over the
rows of one array, with the row `FindById` finds in the other.

**TestFile** (`Files.cpp`).  Any number of processes, each with one `files`
subcommand, on one file of units, unit i of a good file being i.  A process is
`at` its beginning, writing, reading, holding or closing; between two of its calls
the others may do anything the sharing modes allow, and any of them may be killed.
`Access` and `Deny` are what each subcommand asks for (`fopen` denies nothing,
`CFileReader` through WinApi everything), `Allowed` is the system's comparison both
ways.  A writer's units wait in its stream (`pending`) until there is no room or
the stream is closed, and a full disk takes only some of them.

**FeatureBits** (`virtio.cpp`, `bits.cpp`).  A word is a set of bit numbers.  The
tables and the widths of the fields are the code's; `ParseTable` names and clears;
`Taken` is `strtoll`, which saturates.  **Ascending** has the elements of a finite set of
numbers in order: the rows of a table that a loop acts on, and the places of the words
on a command line.

**Devices** (`Pnp.cpp`).  Devices and drivers are what the code asks about them:
whether the identifier or the string occurs, whether details can be queried and
the driver marked.  An enumeration may end early, as it does when a call fails.
`SetupDiInstallDevice` is called after a failed selection, too: the system then installs
nothing or one of the drivers left to it.

**MemoryMap** (`memory.cpp`, `utils.h`).  Sections and views as counts; the system
refuses what it likes and has `Space` for views.  `done` counts iterations.

**Commands** (`DumpWork.cpp`).  `running` is the command the process was started
with, or "main" for the command line itself; `Next` is that command's next step,
and the state of the others stays idle.  The components keep their own
specifications (`ParserSpec`, `PatchSpec`, `RunawaySpec`, `BitsSpec`, `DevicesSpec`,
`MemorySpec`, `PerfSpec`, `LineSpec`), so that each can also be checked and used alone.

**CommandLine** (`DumpWork.cpp`, `Engine.h`, `Time.cpp`).  An argument is a word or a
switch.  Three handlers stand for all: one whose table ends in an entry for
anything (`time`), one with a plain table (`input`), one without a table (`cr`).
The `!` of a nested command strips one character and searches the handlers again;
`nested` says that a command is searched from there, where a word without a handler is a
failure and not a reason to print the usage.

Variants of definitions that stand before them in the modules, commented "a
variant" or "a bug", are plausible mistakes that the properties were tried on:
each property fails when its variant takes the definition's place.

## The runs

Type invariants, `PermitsConserved` and `JoinSafe` are proved for all
instances (below) and appear in no run; adding them to a configuration checks them.
States are distinct states of the complete search.  All passing runs are
exhaustive within the bounds.  Deadlock is not checked because every command
really comes to an end.

| Run | Bounds | States | What it shows |
| --- | --- | ---: | --- |
| `ThreadClient` | 2 objects, one of which may end early, both failures of `_beginthread` | 5 119 | The object can be restarted, a live worker is never denied, a handle is true of a worker except in the two known cases, a told worker ends, the destructor returns when somebody is left to clear the handle; `ThreadGuard` is implemented |
| `LoadThreads` | up to 3 threads, a semaphore of 2, early ends, failing starts, `-loop` | 15 732 | No permit is lost below the maximum; no use after free; shutdown completes for workers that were at work; `WorkGate` is implemented |
| `LoadThreadsFinished` | 2 threads | violation | see below |
| `LoadLevel` | 4-bit word, both kinds of worker, 3 reads between polls | 1 189 | At most one hash between the reset and the next poll, and no sleep begun after it is longer than 1 ms; the worker ends even when the word carried in or out of its busy bit |
| `KeyboardMonitor` | 1 object, 2 flushing reads | 523 | Short taps are reported, then their release; after ENTER the command returns without its worker |
| `ProcessRunner` | 3-bit clock, all wait times with all intervals, pipe of 2, output of 3, failing waits and reads | 39 331 | If the wait and the last flush succeed the output is complete; unless the wait fails no child is left behind; none is killed early; a finite limit is kept where the sum of the waits meets it before it wraps; a full pipe is emptied |
| `ProcessRunnerEndless` | same, a child that never stops writing | violation | see below |
| `TestFile` | 2 processes, a file of up to 2 units, `-count` 0 to 2, blocks 0 to 2, 2 loops, a stream of 1 unit | 1 696 573 | Verdicts through WinApi are true when given, writers that finish agree, held and exclusively read files stay as they are |
| `TestFileShared` | same, `verify-api`, `verify-crt` and `hold` | violation | see below |
| `FeatureBitsHigh` | numbers of up to two bits, bit 0 to 64 | violation | see below |
| `PatchBinAtEnd` | files up to 4 bytes, patterns up to 2 | violation | see below |
| `Commands` | see the next table | 687 321 | The properties of the eight components in it; and every command ends (`CommandEnds`) |

`Commands` covers all inputs of each component within its bounds:

| Component | Bounds | Its states | Properties |
| --- | --- | ---: | --- |
| `CommandLine` | lines up to 4 arguments out of 13 | 268 586 | `RunsWhatWasNamed`, `SwitchesWorkAnywhere` |
| `TextParser` | files up to 5 lines, 2 filters, every ini file | 74 680 | `PrintedOnPurpose`, `NothingLost`, `BlocksWhole`: printed lines have a reason, come in order and as often as they should, matches are not lost while reading, wanted blocks come out whole |
| `PatchBin` | files up to 5 bytes of 2 values, patterns of 0 to 2, chunks up to 3 | 48 292 | `OnlyThePlaceChanges`, `ReportedTruly` |
| `Runaway` | 2 identifiers, 3-bit times, arrays that start with 1 entry, a "hundred" of 5 | 211 380 | `LoadedFaithfully`, `LaterRecognized`, `EveryThreadReported` |
| `FeatureBits` | numbers of up to two bits, bit 0 to 64, a rest behind those of up to one | 33 985 | `NamedOnce`, `ShownAsCommented` |
| `Devices` | 2 devices, 2 drivers | 48 203 | `InstalledOnPurpose` |
| `MemoryMap` | 3-bit counts, up to 3 MB and 3 iterations, 2 chunks per MB, 7 MB of addresses | 1 313 | `ViewsReturned` |
| `PerfMonitor` | 3 values, `-count` up to 3, with and without `-loop` and `-wait` | 882 | `ActsOnTime`, `KeepsActing`: without `-loop` the action is on time, with `-loop` it keeps coming |

Why the bounds are enough:

* *Objects* do not share state in `ThreadOwner`; two show independence.  In
  `LoadThreads` they meet at the semaphore: three threads over a semaphore of two
  reach the lost post, the permit taken by the destructor instead of a worker, and
  two workers in flight at the join.
* *LoadLevel*: four bits hold the busy bit, a carry into and out of it, a wrap, and
  loops of several hashes; three reads are a first, a middle and a last one.
  *ProcessRunner*: every wait time meets every interval, so three bits hold 0, INFINITE
  (7), intervals that divide a limit and that do not, an interval above the limit, a sum
  that wraps, one that never meets its limit (a limit of 5 with an interval of 4), and an
  infinite wait with intervals that meet INFINITE and that do not.  A pipe of two with
  three bytes to write makes the child block.
* *TextParser*: five lines hold a block, what follows it, and the start of the next,
  with a filter hit in any of them; two filters hold a gap in the numbering, and
  the difference between the first and any.
* *PatchBin*: five bytes hold three places of a pattern, overlapping and not, with or
  without one at the end; a pattern may be empty.
* *Runaway*: two identifiers hold a survivor, a dead thread and one or two newborn, under
  identifiers of their own or of the dead; threads have up to one tick of user and of
  kernel time at the earlier report and use up to one more of each; an age of 6
  and a delay of 3 wrap in three bits; an array of one entry has to grow.
* *Runaway*'s "hundred" of 5 makes one tick of activity a percentage that fits and two
  one that overflows.
* *TestFile*: two processes hold a writer under a verifier, two writers, a holder
  against either; two units hold a block that divides the file and one that reaches
  beyond it, and a stream of one unit is full between two writes.  A third process
  adds no pair.  *FeatureBits*: no step relates three bits; bit 63 is the last, bit 64
  one too many; what follows a number does not depend on how many bits it has.  *Devices*: two hold none, one and several, the wrong one before and
  behind the right one.  *MemoryMap*: two views of 3 MB fit, a third does not; 0 and 3
  iterations hold the wrap of the count and the pass too many.
* *CommandLine*: four arguments hold two nested `time !...` and a command, or a
  command and its parameters with a switch between.

## Fairness

Only what schedules itself is fair.  Windows runs every runnable thread in the
end, so each worker's steps are weakly fair, and so are the caller's steps inside
`StartThread` and the destructor (both are straight code or polling loops).
Nothing obliges the user: pressing keys, leaving `ProcessInput`, calling
`StartThread`, hitting a key in `perf` have no fairness.  Nor has the child
process, which may hang; only its death after `TerminateProcess` is fair.  A
performance counter may fail for ever: `KeepsActing` says under which measurements
the action comes again.  `Commands` is one thread that is only assumed to go on
when it can: its system calls are answered, by a success or a failure, and the polls
of `perf` are among them.  `TestFile`
has safety properties only, and needs none.  No property needs strong fairness: a waiter for
the semaphore competes only at shutdown, where what it may lose is a finding and
not an assumption.

## The proofs

The theorems hold for every value of the constants that satisfies the named
assumptions.  These only say what a constant is (a set of objects, a number, a
width), that `Owners` of `LoadThreads` is numbered, and, for the provers, that a
power of two is positive and twice the one before.  Every invariant and every action
property that a run checks is a theorem here, and both refinements are.

* **ThreadOwnerProofs** shows once that every operation keeps `OwnerInv`, whoever
  calls it.  The strengthening is needed because `RunningIsSeen` says nothing about
  the moments inside `StartThread`: `StartInv` adds that `m_State` is tsRunning, or
  tsNotRunning if the worker already ended, and what the handle was given;
  `HandleInv` that outside the handle covers the worker's whole life.  An operation
  changes one object, so a lemma reduces the invariant to that object.
* **ThreadClientProofs**: `TypeOK`, `Restartable`, `RunningIsSeen`, `HandleFaithful`, and the
  refinement of `ThreadGuard`, for every set of objects.  `HandleFaithful` needs
  `PatientInv`, about objects whose worker ends only when told: until `StartThread` has
  returned nobody can tell it, so the handle stored there still has its worker.
* **LoadThreadsProofs**: the counting argument.  `permits + |InFlight| + joined` is
  at most, and below the semaphore's maximum equal to, the number posted; `MainInv`
  ties `mpc`, `count`, `posted`, `joined` and the cursor together.  When the
  destructor has counted as many as were posted nothing is left in the semaphore or
  in flight, whence `JoinSafe`, and with `OwnerInv` `NoUseAfterFree` and the
  refinement of `WorkGate`, for every number of threads and every maximum.
* **LoadLevelProofs**: `StopIsPrompt`, from `leaving # "no" => loops = 1` (nobody
  raises the word after the destructor lowered it), and `TypeOK`: the word and the
  workers' counters stay words, for any number of reads between two polls that is one,
  and no sleep exceeds half the word's range.
* **ProcessRunnerProofs**: `OutputComplete`, `KilledAtLimit`, `ReturnsAfterChild` and
  `TypeOK`, whichever calls fail.  `ClockInv` says that a wrapped sum never exceeds the
  time that passed and, for an even interval, stays even (`EvenSum`), so that it never is
  INFINITE;
  `ChildInv` that a child that had to be waited for has ended when flushing begins;
  so what the last flush empties stays empty, which also needs that redirection
  implies a wait (`RedirectWaits`, the constructor's doing).

* **TestFileProofs**, for any number of processes, commands and any file.  The file
  itself is not in the first invariant: `Agree` says that, of any two processes,
  neither does what the other denies, because each had to be allowed by all that were
  there when it opened; `OpenInv` that a process has the file open exactly from
  opening to closing, in the way its command asks; `WriteInv` that only writers have
  something in their stream.  A writer needs reading and writing (`WritersDoBoth`),
  whoever is sealed denies one of them (`SealedDenies`), so no writer is there
  (`NoWriter`), whence `HeldStill`.  `VerdictTrue` builds on it: while a process reads
  through WinApi the file stands still, so `VerifyInv` can say that it has read a number of
  whole blocks and that all units in them are as they should be; how many there have to
  be at the end is a matter of division (`BlockCount`).  `WritersAgree` is about the
  writer that emptied the file last: `WritersInv` says that, unless a writer failed or
  none has begun, there is one whose units are right in the file up to those still in
  its stream, whatever the others wrote.

* **CommandsProofs**, for `Commands` and so for each command in it.  Each has an
  invariant of its own that only the command's own steps can disturb
  (`OneCommandSteps`), and `IInv` is their conjunction.
  * `ViewsReturned`: `ViewsInv` says place by place what is mapped and whose it is,
    `CountInv` that iterations made and to come add up to those asked for, zero and the
    wrap of `loops--` included.
  * `InstalledOnPurpose`: `EnumeratedInv` ties the counts of drivers and devices and the
    set of bad drivers to what was enumerated and queried so far, by cardinality.  What
    was missed - not enumerated, not queried, not marked - the property leaves open,
    because the code does; where nothing was, it speaks of the whole machine.
  * `ActsOnTime`: `PerfInv` says that without `-loop` the code's count is the streak of
    real measurements.
  * `NothingLost`: `KeptInv` is the property from before the file is opened.
    `PrintedOnPurpose`, `BlocksWhole`: while the parser reads, the pending lines are the
    open block from its start to the last line read, behind everything printed
    (`PendingInv`); so what `fgets` and the flush of a block add is an interval
    of the file, which lies in the output in one piece (`WholeInv`) and as often as
    `PrintedInv` says.  The properties alone do not survive a step: they do not say what
    is pending, nor that all of it comes after what is printed.
  * `OnlyThePlaceChanges`, `ReportedTruly`: `SearchInv` says that what was found are
    all places below `offset`, by cardinality, and that `offsetFound` is the last of
    them; all of `Seen`, that is, since a place at the end is not looked at; `ImageInv` that the file and the image are as they were until the place is
    known.
  * `SwitchesWorkAnywhere`, about switches that are well formed (what becomes of `-count:3x`
    is left open): `SwitchInv` follows each switch through the three places
    where it can be (not looked at, collected, in `config`), and `PlaceInv` says when
    there is a parameter to take: a table takes one word at most, since its entries have
    different tokens (`Tables`).
  * `RunsWhatWasNamed`: `NamingInv` says place by place that the parameters are the end of
    the line (`Behind`) and what the word before them is: as long as they are collected,
    the words of the arguments seen so far (`AheadInv`); before a search, a word that names
    the first of them, which need not be that word where commands nest
    (`DispatchInv`); in a table, the handler's name, or a token that was taken off by an entry
    the rest did not suit (`TableInv`, `Kept` and `Lost`).
  * `LoadedFaithfully`, `LaterRecognized`, `EveryThreadReported`: `LoadInv` says of every
    entry of both arrays what the lines read so far make of it, wherever the array was
    extended.  At the end an array has its report's threads in their rows, so that
    `FindById` finds a thread where it is and nowhere else, and a difference of two words, taken
    as a signed number, is the real one when that is below half the range
    (`SignedDifference`).
  * `NamedOnce`: `BitsInv` has the bits named so far, by section and number, and those still
    set; a table names each bit at its first row of it, and there are as many such rows as
    bits (`FirstRowsAre`).  `ShownAsCommented`: where fields begin is the only function
    with the recurrence of the widths (`StartsAre`), and the comments beside the
    fields are such a function (`CapsSums`, `EcapsSums`).

Both `LaterRecognized` and `EveryThreadReported` speak of reports between which no
identifier was used again (`NoIdReused`) and less than half the range of the clock
passed; they fail otherwise.  The theorem about the second has a hypothesis besides,
`MaxBusy < 2^(Width - 1)`: a thread cannot work for longer than the delay, but the model adds
to its user and kernel times without a look at how much time passed.

Only model-checked: all liveness, since fairness and ENABLED are outside TLAPS -
`StopIsObeyed`, `DestructorEnds`, `ShutdownCompletes`, `TapReported`, `ReleaseReported`,
`MonitorReturns`, `WorkerEnds`, `KeepsActing`, `TimeLimitEnforced`, `PipeDrained`,
`CommandEnds`.  What a recursive operator of the libraries computes (a fold, SelectSeq) is out
of reach as well, since the induction theorems take an operator as a parameter.
So the modules say with sets what a loop over a table selects (`Ascending`), sums are
a function with a recurrence (`Starts`), and an induction over numbers is an argument about
the least one for which something fails (`LeastOf`, `MinOfSome`).

## Where the code differs from its word

Five runs end in the violation of something the source says:

* `LoadThreadsFinished`: behind the destructor's loop of waits stands, as a LOG that is
  commented out, "All threads finished" (`Threads.cpp:281`), but its `Wait()` may have taken a start permit in place of a
  worker's last post.  A worker that never got its permit is still waiting while
  the objects are deleted.  `NoUseAfterFree` holds all the same: `~CThreadOwner`
  keeps polling, for ever if the worker never gets a permit.
* `ProcessRunnerEndless`: a finite `WaitTime` is said to give a possibility to decide
  when to kill the process (`utils.h:191`), but `Flush` stays in its loop as long as
  the child writes and the time is not looked at again.
* `TestFileShared`: the comment in `CFileReader::Open` (`Files.cpp:27`) wants several
  processes to read the same file, but the flag below it is `shareExclusive`: the
  second reader through WinApi is turned away.
* `FeatureBitsHigh`: `bits iommu` takes 64-bit registers (`bits.cpp:19`) and converts
  them by `strtoll`: with bit 63 set every other bit comes out as set and that one as
  clear.  `virtio.cpp:212` has the same call.
* `PatchBinAtEnd`: the bound of `Find`, `i < Size - Pattern.len` (`PatchBin.cpp:29`),
  leaves out the last place where the pattern fits: of a file that ends in it the
  command says "Source pattern not found" (`PatchBin.cpp:111`).

What modelling showed besides.  The first is stated in its module, but in no run's
list; adding it to `LoadLevel.cfg` reproduces it.

* `DecShortensWait` (LoadLevel): with the busy bit set and the counter at 0, `d`
  borrows from the busy bit, and an rfile worker then sleeps for 24 days.
* `PerfCounters.cpp`: with `-loop` a failed poll counts the old value once more as a
  "consecutive measurement".
* `PatchBin.cpp`: a place at the very end does not count when the pattern has to
  be unique either.  A target chunk is ignored if the pattern occurs once.  The result of
  `fwrite` is only logged, and success reported.  An empty pattern makes `ReadBuf` write
  beyond its buffers, since `sscanf` returns EOF and not 0.
* `CProcessRunner`: the sum of the waits is compared after it wrapped.  An infinite wait
  is cut short by an odd interval, whose sum meets INFINITE exactly in the end; a finite
  limit less than an interval below INFINITE may be wrapped over for ever.
* `CThreadOwner`: when a worker ends before `StartThread` stores its handle, the
  handle is stale for good and the destructor never returns; the same after
  `_beginthread` returned -1.  A worker overtaken by the destructor before its
  first virtual call calls a pure function.  The destructor is not virtual.
* `ParseText.cpp`: the last wanted block is dropped at the end of the file; an end
  marker that closes nothing is printed when the block before it was wanted
  (`bBlockIncluded` is not reset there); a line outside all blocks is printed once
  per filter it matches.
* `Files.cpp`: a file that fails a verification, or is too short, is logged and
  the command returns 0 all the same; "Written file" is logged before `fclose`, which
  may fail; `hold` with rw denies only reading, since the modes are no bits; `verify`
  opens for writing what it only reads; without a block size that is a number the
  `verify-` commands read through the C runtime, exclusive or not.
* `virtio.cpp`: EVENT_IDX (29) is not in the common table and is shown as unknown; the
  network table has HASH_TUNNEL (51) twice, and only the clearing of named bits hides it.  `bits.cpp` asks
  for two parameters and uses a third.
* `memory.cpp`: `pte3` makes one pass more than it is asked for and reports.  The mem
  activity of `threads` (`Threads.cpp:48`) maps nothing (`MapAll` is false), so its
  `Poke` touches no page.
* `Pnp.cpp`: an enumeration that fails counts as one that has ended, a driver that
  could not be marked may be installed in place of the one asked for, the
  installation is attempted even if selecting a driver failed; `install` always returns 1.
* `Runaway.cpp`: a thread that got the identifier of a dead one is taken for it, so the
  later report may not be recognised and a birth and a death are reported as activity;
  processor percentages overflow after 11.9 hours; `crd`
  calls `cr` and never `CompareDir`, and asks for two parameters where its help and
  `CollectRunaway.cmd` give one.
* Command line: a table entry whose parameters do not suit reports that and falls
  through with its token gone, so `time perf x` then runs `x`; `-count:3x` is
  reported as unrecognised and takes effect.

## What is not modelled

* `hv.cpp`, `Cpu.cpp`: registers of the processor are printed; nothing is kept or
  decided.  `kd.cpp` is one call of `CProcessRunner`.
* The `cache-` subcommands of `files`, `memory info`, `pnp enum` and `pci`, `input mouse`:
  single questions to the system whose answers are printed.
* `CPrivilege`, `CProcessToken`, `GetNumber` and string helpers of `utils.h`.
* In the modelled parts: hashing and file contents of the five activities, a second
  `RunProcess` on one object (never made), the standard input pipe, `RunAction`'s
  command line, usage texts, all formatting and logging.

## Plan

Done, in this order: `ThreadOwner`, `ThreadClient` and `ThreadGuard` with proofs;
`LoadThreads` and `WorkGate` with proofs; `KeyboardMonitor`; `LoadLevel` with proofs;
`ProcessRunner` with proofs; `PerfMonitor`, `TextParser`, `PatchBin`, `Runaway`, `CommandLine`;
`TestFile` with proofs; `FeatureBits`, `Devices`, `MemoryMap`; `Commands`, which composes
the commands of the main thread, with proofs, first of what they change, then of what
they say.

Next:

1. Proofs about `KeyboardMonitor`: `OwnerInv` for its client, and from it that the worker
   is gone when the command has returned.
2. The collection with the load level: the word shared by the workers of
   `LoadThreads`, so that promptness and shutdown meet in one state.
3. The working files of the wfile and rfile activities.
