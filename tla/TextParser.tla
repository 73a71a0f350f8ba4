------------------------------ MODULE TextParser ------------------------------
(***************************************************************************)
(* The parse-text command (ParseText.cpp): a file is cut into blocks by    *)
(* start and end patterns, and a block is printed when one of its lines    *)
(* matches a filter.  One step is one fgets.  A line is a record that says *)
(* which marker pattern it holds and which filters it matches; the text of *)
(* the file is what has been read so far, so the file can be any.          *)
(***************************************************************************)
EXTENDS Integers, Sequences, FiniteSets, SequencesExt

CONSTANTS MaxLines,    \* bound on the length of the file
          NumFilters   \* filters Filter1 .. FilterN the ini file may give

ASSUME TextParserAssumption == MaxLines \in Nat /\ NumFilters \in Nat

FilterNumbers == 1..NumFilters

\* A line that holds both patterns is a start.  What else a marker line
\* matches is left out: the code never looks for filters in it.
TextLines == [marker : {"start", "end"}, hits : {{}}] \cup
             [marker : {"none"}, hits : SUBSET FilterNumbers]

\* What the ini file gives: the two patterns, and some of the filters.
Inis == [start : BOOLEAN, end : BOOLEAN, given : SUBSET FilterNumbers]

VARIABLES ini,       \* the ini file
          text,      \* the lines read so far
          started,   \* bBlockStarted
          included,  \* bBlockIncluded
          lines,     \* the pending block: numbers of lines
          printed,   \* what went to the output: numbers of lines
          parsing    \* where Parse is: "ini", "reading" or how it returned

parserVars == <<ini, text, started, included, lines, printed, parsing>>

\* Filters are looked up as Filter1, Filter2, ... up to the first that misses.
Filters == {i \in ini.given : 1..i \subseteq ini.given}

\* A bug: only the first filter is looked for.
HitsFirstFilter(line) == line.hits \cap Filters \cap {1}

Hits(line) == line.hits \cap Filters

IsStart(line) == line.marker = "start"
IsEnd(line)   == line.marker = "end" /\ ini.end

-----------------------------------------------------------------------------

ParserInit == /\ ini \in Inis
              /\ text = <<>> /\ lines = <<>> /\ printed = <<>>
              /\ started = FALSE /\ included = FALSE
              /\ parsing = "ini"

Open == /\ parsing = "ini"
        /\ \/ (~ini.start \/ Filters = {}) /\ parsing' = "not loaded"
           \/ ini.start /\ Filters # {} /\ parsing' \in {"reading", "not found"}
        /\ UNCHANGED <<ini, text, started, included, lines, printed>>

Fgets(line) == /\ parsing = "reading" /\ Len(text) < MaxLines
               /\ text' = Append(text, line)
               /\ UNCHANGED <<ini, parsing>>

Current == Len(text) + 1

\* The output after a Flush of pending; every Flush leaves it empty.
Flush(pending, print) == IF print THEN printed \o pending ELSE printed

\* A bug: the flag of the block before is not reset.
StartLineNoReset(line) == /\ IsStart(line)
                          /\ printed' = Flush(lines, included)
                          /\ lines' = <<Current>>
                          /\ started' = TRUE /\ UNCHANGED included

StartLine(line) == /\ IsStart(line)
                   /\ printed' = Flush(lines, included)
                   /\ lines' = <<Current>>
                   /\ started' = TRUE /\ included' = FALSE

\* A bug: the block is flushed before its end marker is added.
EndLineFlushFirst(line) == /\ IsEnd(line)
                           /\ printed' = Flush(lines, included)
                           /\ lines' = <<Current>>
                           /\ started' = FALSE
                           /\ UNCHANGED included

EndLine(line) == /\ IsEnd(line)
                 /\ printed' = Flush(Append(lines, Current), included)
                 /\ lines' = <<>>
                 /\ started' = FALSE
                 /\ UNCHANGED included

\* In a block the first filter that matches is enough; out of a block every
\* filter that matches prints the line.
TextLine(line) ==
  /\ ~IsStart(line) /\ ~IsEnd(line)
  /\ \/ /\ started
        /\ included' = (included \/ Hits(line) # {})
        /\ lines' = Append(lines, Current)
        /\ UNCHANGED printed
     \/ /\ ~started
        /\ printed' = printed \o [i \in 1..Cardinality(Hits(line)) |-> Current]
        /\ UNCHANGED <<included, lines>>
  /\ UNCHANGED started

\* The pending block is dropped: Parse returns without a Flush.
Eof == /\ parsing = "reading"
       /\ parsing' = "done"
       /\ lines' = <<>>
       /\ UNCHANGED <<ini, text, started, included, printed>>

ReadLine == \E line \in TextLines : /\ Fgets(line)
                                    /\ StartLine(line) \/ EndLine(line) \/ TextLine(line)

ParserNext == Open \/ ReadLine \/ Eof

ParserSpec == ParserInit /\ [][ParserNext]_parserVars

-----------------------------------------------------------------------------
(* What a block is, said without the parser's own state.                   *)

IsText(n) == ~IsStart(text[n]) /\ ~IsEnd(text[n])

\* The block line n lies in, as the number of its first line; {} outside.
BlockOf(n) == {s \in 1..n : /\ IsStart(text[s])
                            /\ \A k \in (s + 1)..n : ~IsStart(text[k])
                            /\ \A k \in s..(n - 1) : ~IsEnd(text[k])}

Members(s) == {n \in s..Len(text) : s \in BlockOf(n)}

Matches(n) == IsText(n) /\ text[n].hits \cap Filters # {}

Wanted(s) == \E n \in Members(s) : Matches(n)

\* A block is over when the parser has read its end or the next start.
Complete(s) == \E k \in (s + 1)..Len(text) : ~IsText(k)

\* No line is printed that nobody asked for: each one matches a filter
\* outside all blocks or lies in a block some line of which matches.  Only an
\* end marker that closes no block may be printed with the block before it
\* (bBlockIncluded is not reset there).  Lines come out in the file's order; a
\* line that comes out again lies outside all blocks, and does so once for
\* every filter it matches.
PrintedOnPurpose ==
  \A i \in DOMAIN printed : LET n == printed[i] IN
    /\ \/ BlockOf(n) = {} /\ (Matches(n) \/ ~IsText(n))
       \/ \E s \in BlockOf(n) : Wanted(s)
    /\ \A j \in 1..(i - 1) : printed[j] <= n
    /\ Cardinality({j \in DOMAIN printed : printed[j] = n}) =
         IF BlockOf(n) = {} /\ IsText(n) THEN Cardinality(text[n].hits \cap Filters) ELSE 1

\* A line between the markers that matches a filter is printed or is still in
\* a pending block that will be, as long as the parser reads.
NothingLost ==
  parsing = "reading" =>
    \A n \in DOMAIN text : Matches(n) =>
      \/ n \in ToSet(printed)
      \/ started /\ included /\ n \in ToSet(lines)

\* A block that is wanted comes out whole once it is over: all of its lines
\* from its start to its end, in the file's order, in one piece and only once.
BlocksWhole ==
  \A s \in DOMAIN text : IsStart(text[s]) /\ Wanted(s) /\ Complete(s) =>
    LET last == CHOOSE n \in Members(s) : \A m \in Members(s) : m <= n
        here == {i \in DOMAIN printed : printed[i] \in s..last}
    IN \E first \in DOMAIN printed : 
         /\ here = first..(first + last - s)
         /\ \A i \in here : printed[i] = s + i - first

=============================================================================
