------------------------------ MODULE CommandLine -----------------------------
(***************************************************************************)
(* main, the command tables of Engine.h and the nested commands of         *)
(* "time !..." (DumpWork.cpp, Engine.h, Time.cpp).  One step is one turn   *)
(* of a loop: an argument, a switch, a handler, an entry of a table.       *)
(***************************************************************************)
EXTENDS Integers, Sequences, SequencesExt, Ascending

CONSTANT MaxArgs  \* bound on the number of arguments

ASSUME CommandLineAssumption == MaxArgs \in Nat

\* Arguments that begin with '-' or '/'.
Switches == {"-help", "-wait", "-count:3", "-count:3x"}

Words == {"time", "input", "cr", "perf", "mm", "kbd", "!time", "!cr", "x"}

\* What is behind the '!' of a word that has one.
Nested == [w \in {"!time", "!cr"} |-> IF w = "!time" THEN "time" ELSE "cr"]

Entry(token, proc, min, more, all) ==
  [token |-> token, proc |-> proc, min |-> min, more |-> more, all |-> all]

\* Three of the handlers: with a table that ends in an entry for anything,
\* with a plain table and with none.
Handlers ==
  [time  |-> [min |-> 1, table |-> << Entry("perf", "ReportPerfCounter", 0, FALSE, FALSE),
                                      Entry("wait", "DoWait", 1, TRUE, FALSE),
                                      Entry("mm", "BeginEnd", 1, FALSE, FALSE),
                                      Entry("anything", "Measure", 1, TRUE, TRUE) >>],
   input |-> [min |-> 1, table |-> << Entry("kbd", "MonitorKeys", 0, FALSE, FALSE),
                                      Entry("mouse", "MonitorMouse", 0, FALSE, FALSE) >>],
   cr    |-> [min |-> 2, table |-> << >>]]

VARIABLES argv,      \* the arguments, as they were given
          unseen,    \* arguments main has not looked at yet
          switches,  \* the array config of main
          config,    \* tConfiguration
          params,    \* the array of parameters, as it shrinks
          handler,   \* the handler that was found
          token,     \* the first parameter, as ProcessCommand found it
          entry,     \* the entry of its table to be looked at
          nested,    \* does RunSubcommand look for the handler, and not main?
          command,   \* what was run in the end, with which parameters
          at         \* where the program is

lineVars == <<argv, unseen, switches, config, params, handler, token, entry, nested, command, at>>

Nothing == [proc |-> "none", params |-> << >>]

LineInit == /\ argv \in BoundedSeq(Switches \cup Words, MaxArgs)
            /\ unseen = argv /\ switches = << >> /\ params = << >>
            /\ config = [help |-> FALSE, wait |-> FALSE, count |-> 0]
            /\ handler = "none" /\ token = "none" /\ entry = 0 /\ nested = FALSE
            /\ command = Nothing /\ at = "arguments"

\* A bug: switches are only looked for in front of the command.
ReadArgumentInFront ==
  /\ at = "arguments" /\ unseen # << >>
  /\ unseen' = Tail(unseen)
  /\ IF Head(unseen) \in Switches /\ params = << >>
       THEN switches' = Append(switches, Head(unseen)) /\ UNCHANGED params
       ELSE params' = Append(params, Head(unseen)) /\ UNCHANGED switches
  /\ UNCHANGED <<argv, config, handler, token, entry, nested, command, at>>

ReadArgument ==
  /\ at = "arguments" /\ unseen # << >>
  /\ unseen' = Tail(unseen)
  /\ \/ /\ Head(unseen) \in Switches
        /\ switches' = Append(switches, Head(unseen)) /\ UNCHANGED params
     \/ /\ Head(unseen) \in Words
        /\ params' = Append(params, Head(unseen)) /\ UNCHANGED switches
  /\ UNCHANGED <<argv, config, handler, token, entry, nested, command, at>>

\* ProcessConfig; FindValue assigns the number before it finds that there is
\* more behind it.
ReadSwitch ==
  /\ at = "arguments" /\ unseen = << >> /\ switches # << >>
  /\ switches' = Tail(switches)
  /\ config' = CASE Head(switches) = "-help" -> [config EXCEPT !.help = TRUE]
                 [] Head(switches) = "-wait" -> [config EXCEPT !.wait = TRUE]
                 [] OTHER                   -> [config EXCEPT !.count = 3]
  /\ UNCHANGED <<argv, unseen, params, handler, token, entry, nested, command, at>>

Switched ==
  /\ at = "arguments" /\ unseen = << >> /\ switches = << >>
  /\ at' = IF params = << >> THEN "usage" ELSE "dispatch"
  /\ UNCHANGED <<argv, unseen, switches, config, params, handler, token, entry, nested, command>>

-----------------------------------------------------------------------------

Run(proc, ps) == command' = [proc |-> proc, params |-> ps] /\ at' = "done"

\* The loop over the handlers of main and of RunSubcommand, which only differ
\* in what they do when no handler has the name.
Dispatch ==
  /\ at = "dispatch"
  /\ LET h == Head(params)  ps == Tail(params) IN
     \/ /\ h \notin DOMAIN Handlers
        /\ at' = IF nested THEN "failed" ELSE "usage"
        /\ UNCHANGED <<params, handler, token, entry, command>>
     \/ /\ h \in DOMAIN Handlers /\ config.help
        /\ at' = "usage"
        /\ UNCHANGED <<params, handler, token, entry, command>>
     \/ /\ h \in DOMAIN Handlers /\ ~config.help
        /\ params' = ps /\ handler' = h
        /\ \/ /\ Len(ps) < Handlers[h].min
              /\ at' = "usage" /\ UNCHANGED <<token, entry, command>>
           \/ /\ Len(ps) >= Handlers[h].min /\ Handlers[h].table = << >>
              /\ Run(h, ps) /\ UNCHANGED <<token, entry>>
           \/ /\ Len(ps) >= Handlers[h].min /\ Handlers[h].table # << >>
              /\ token' = Head(ps) /\ entry' = 1
              /\ at' = "table" /\ UNCHANGED command
  /\ UNCHANGED <<argv, unseen, switches, config, nested>>

\* A bug: too many parameters are accepted.
AcceptsMore(e, ps) == Len(ps) >= e.min

Accepts(e, ps) == Len(ps) = e.min \/ (e.more /\ Len(ps) >= e.min)

\* A bug: the loop that copies the parameters starts with the word itself.
MeasureFromZero(ps) ==
  \/ /\ Head(ps) \in DOMAIN Nested
     /\ params' = <<Nested[Head(ps)]>> \o ps
     /\ nested' = TRUE /\ at' = "dispatch" /\ UNCHANGED command
  \/ /\ Head(ps) \notin DOMAIN Nested
     /\ Run("system", ps) /\ params' = ps /\ UNCHANGED nested

\* A word with a '!' is a command of the program itself, anything else goes
\* to system().
Measure(ps) ==
  \/ /\ Head(ps) \in DOMAIN Nested
     /\ params' = <<Nested[Head(ps)]>> \o Tail(ps)
     /\ nested' = TRUE /\ at' = "dispatch" /\ UNCHANGED command
  \/ /\ Head(ps) \notin DOMAIN Nested
     /\ Run("system", ps) /\ params' = ps /\ UNCHANGED nested

Table == Handlers[handler].table

\* One turn of the loop of ProcessCommand.  An entry whose number of
\* parameters is wrong has already taken its token away when the next one is
\* looked at.
TryEntry ==
  /\ at = "table" /\ entry <= Len(Table)
  /\ LET e == Table[entry]
         matches == e.all \/ token = e.token
         ps == IF matches /\ ~e.all THEN Tail(params) ELSE params
     IN \/ /\ matches /\ Accepts(e, ps)
           /\ \/ e.proc = "Measure" /\ Measure(ps)
              \/ e.proc # "Measure" /\ Run(e.proc, ps) /\ params' = ps /\ UNCHANGED nested
           /\ UNCHANGED entry
        \/ /\ ~(matches /\ Accepts(e, ps))
           /\ params' = ps /\ entry' = entry + 1
           /\ UNCHANGED <<at, nested, command>>
  /\ UNCHANGED <<argv, unseen, switches, config, handler, token>>

NoEntryLeft ==
  /\ at = "table" /\ entry > Len(Table)
  /\ at' = "usage"
  /\ UNCHANGED <<argv, unseen, switches, config, params, handler, token, entry, nested, command>>

LineNext == ReadArgument \/ ReadSwitch \/ Switched \/ Dispatch \/ TryEntry \/ NoEntryLeft

LineSpec == LineInit /\ [][LineNext]_lineVars

-----------------------------------------------------------------------------

\* The command line without its switches.
Line == LET places == Ascending({i \in DOMAIN argv : argv[i] \in Words})
        IN [k \in DOMAIN places |-> argv[places[k]]]

\* The words before the parameters of what was run; an exclamation mark is
\* only looked at, and so only allowed, behind "time".
Before(k) == Line[Len(Line) - Len(command.params) - k]
Names(word, h) == word = h \/ (word \in DOMAIN Nested /\ Nested[word] = h)

\* What is run is what the words before its parameters name, all words behind
\* them are its parameters, in order, and their number suits it.  What
\* system() runs may have lost one word: that of an entry the parameters did
\* not suit.
RunsWhatWasNamed ==
  at = "done" =>
    /\ IsSuffix(command.params, Line)
    /\ \/ command.proc = "cr" /\ Names(Before(0), "cr") /\ Len(command.params) >= 2
       \/ /\ command.proc = "system" /\ command.params # << >>
          /\ \/ Names(Before(0), "time")
             \/ Before(0) \in {"perf", "mm"} /\ Names(Before(1), "time")
       \/ \E h \in DOMAIN Handlers : \E i \in DOMAIN Handlers[h].table :
            LET e == Handlers[h].table[i] IN
            /\ command.proc = e.proc /\ Before(0) = e.token /\ Names(Before(1), h)
            /\ Len(command.params) = e.min \/ (e.more /\ Len(command.params) > e.min)

\* A switch works wherever it stands on the line, for a nested command too,
\* and none is left among the parameters.  What a count that is not a number
\* does is left open: the program says that it is invalid, and not recognized.
SwitchesWorkAnywhere ==
  at = "done" =>
    /\ ~config.help /\ "-help" \notin ToSet(argv)
    /\ config.wait = ("-wait" \in ToSet(argv))
    /\ "-count:3x" \notin ToSet(argv) => config.count = IF "-count:3" \in ToSet(argv) THEN 3 ELSE 0
    /\ ToSet(command.params) \cap Switches = {}
=============================================================================
