------------------------------ MODULE TestFile --------------------------------
(***************************************************************************)
(* The files command (Files.cpp): several DumpWork processes write,        *)
(* verify, read and hold one test file.  The file is a sequence of units   *)
(* (8 bytes each), unit i of a good file being i.  A process opens the     *)
(* file with an access and with what it denies to others; between two of   *)
(* its calls the others may do anything that is not denied.  A block is    *)
(* compared in the step that reads it: the buffer is the process's own.    *)
(***************************************************************************)
EXTENDS Integers, Sequences, FiniteSets, FiniteSetsExt, TLC

CONSTANTS Processes,
          Ops,           \* subcommands that may be given
          UnitsPerMB,    \* 131072 in the code
          Counts,        \* values of -count (MB, 0 when not given)
          Blocks,        \* block sizes, in units (0: the argument is no number)
          MaxLoops,      \* bound on the loops over the file
          StreamBuffer   \* units in the buffer of a C stream

ASSUME TestFileAssumption == /\ UnitsPerMB \in Nat /\ Counts \subseteq Nat /\ Blocks \subseteq Nat
                             /\ MaxLoops \in Nat \ {0} /\ StreamBuffer \in Nat \ {0}

Writers   == {"write"}
Verifiers == {"verify-crt", "verify-api"}
Readers   == {"read-crt", "read-uc", "read-mmf"}
WinApi    == {"verify-api", "read-uc", "read-mmf"}

\* A command line.  verify-api stands for verify-uc too, which differs in how
\* the system reads; of hold's letters c adds nothing; loops is the product of
\* the loops asked for, where 0 is 1.
Commands == [op : Ops \cap {"hold"}, letters : SUBSET {"r", "w", "n"}] \cup
            [op : Ops \cap {"write", "verify"}, count : Counts] \cup
            [op : Ops \cap (Verifiers \cup Readers), count : Counts, block : Blocks, loops : 1..MaxLoops]

VARIABLES exists, file,   \* the test file and its units
          command,        \* each process's command
          at,             \* where the process is
          handle,         \* how it has the file open
          pos,            \* units it has written or read
          pending,        \* of these, units still in the writer's stream
          turn,           \* loops it has finished
          verdict         \* what it last said of the file

fileVars == <<exists, file, command, at, handle, pos, pending, turn, verdict>>

NotOpen == [access |-> {}, deny |-> {}]

Bad == -1   \* a unit that is never right

Units(p) == command[p].count * UnitsPerMB

\* verify, and the other verifications when the block size is no number,
\* read unit by unit, once.
ByUnits(p) == command[p].op = "verify" \/ (command[p].op \in Verifiers /\ command[p].block = 0)

Size(p) == IF ByUnits(p) THEN 1 ELSE command[p].block

\* JustReadTestFile reads whole blocks only, a mapping nothing.
Length(p) == CASE command[p].op = "read-mmf" -> 0
               [] command[p].op \in Readers  -> (Units(p) \div Size(p)) * Size(p)
               [] OTHER                      -> Units(p)

Turns(p) == IF ByUnits(p) \/ command[p].op \in {"hold", "write"} THEN 1 ELSE command[p].loops

Right(n) == \A i \in 1..n : i <= Len(file) /\ file[i] = i - 1

\* The file after units at .. at + n - 1 have been written: what lies between
\* its end and at reads as zero.
Written(from, n) ==
  [i \in 1..Max({Len(file), IF n = 0 THEN 0 ELSE from + n}) |->
     IF i - 1 \in from..(from + n - 1) THEN i - 1 ELSE IF i <= Len(file) THEN file[i] ELSE 0]

-----------------------------------------------------------------------------

Init == /\ command \in [Processes -> Commands]
        /\ exists \in BOOLEAN
        /\ file \in UNION {{f \in [1..n -> {Bad} \cup 0..n] : \A i \in 1..n : f[i] \in {Bad, i - 1}} :
                             n \in 0..Max(Counts) * UnitsPerMB}
        /\ exists \/ file = <<>>
        /\ at = [p \in Processes |-> "begin"]
        /\ handle = [p \in Processes |-> NotOpen]
        /\ pos = [p \in Processes |-> 0] /\ pending = [p \in Processes |-> 0]
        /\ turn = [p \in Processes |-> 0] /\ verdict = [p \in Processes |-> "none"]

-----------------------------------------------------------------------------
(* Opening.  The system compares access and denial both ways.               *)

Allowed(p, access, deny) ==
  \A q \in Processes \ {p} : /\ access \cap handle[q].deny = {}
                             /\ handle[q].access \cap deny = {}

\* A bug: w denies nothing.
HoldDenyNoWrite(letters) == IF letters \in {{"n"}, {"w"}} THEN {}
                            ELSE IF "r" \in letters /\ "n" \notin letters THEN {"read"}
                            ELSE {"read", "write"}

\* The sharing bits of CFile: compat 0 and exclusive 0x10 deny all, so do
\* combinations that are no mode; r is 0x30, w 0x20, n 0x40.
HoldDeny(letters) == IF letters = {"n"} THEN {}
                     ELSE IF letters = {"w"} THEN {"write"}
                     ELSE IF "r" \in letters /\ "n" \notin letters THEN {"read"}
                     ELSE {"read", "write"}

Access(p) == IF command[p].op \in Writers \/ ByUnits(p) THEN {"read", "write"} ELSE {"read"}

\* A bug: readers deny nothing.
DenyNothing(p) == IF command[p].op = "hold" THEN HoldDeny(command[p].letters) ELSE {}

Deny(p) == IF command[p].op = "hold" THEN HoldDeny(command[p].letters)
           ELSE IF command[p].op \in WinApi /\ ~ByUnits(p) THEN {"read", "write"}
           ELSE {}

\* -count is mandatory but for reading, the block size for reading only.
Usage(p) == CASE command[p].op = "hold"      -> FALSE
              [] command[p].op \in Readers -> command[p].block = 0
              [] OTHER                       -> command[p].count = 0

Refuse(p) == /\ at[p] = "begin" /\ Usage(p)
             /\ at' = [at EXCEPT ![p] = "end"]
             /\ UNCHANGED <<exists, file, command, handle, pos, pending, turn, verdict>>

\* The next loop, or the end of the command.
NextTurn(p) == /\ turn' = [turn EXCEPT ![p] = @ + 1]
               /\ at' = [at EXCEPT ![p] = IF turn'[p] = Turns(p) THEN "end" ELSE "begin"]

AtOpen(p) == at[p] = "begin" /\ ~Usage(p)

\* The file is absent, or somebody has it open in a way that forbids it.
CannotOpen(p) == /\ AtOpen(p)
                 /\ \/ command[p].op \notin Writers /\ ~exists
                    \/ exists /\ ~Allowed(p, Access(p), Deny(p))
                 /\ verdict' = [verdict EXCEPT ![p] = "not opened"]
                 /\ NextTurn(p)
                 /\ UNCHANGED <<exists, file, command, handle, pos, pending>>

\* fopen "w+b" empties the file; the others need it to be there.
Open(p) == /\ AtOpen(p)
           /\ Allowed(p, Access(p), Deny(p))
           /\ IF command[p].op \in Writers THEN exists' = TRUE /\ file' = <<>>
                                           ELSE exists /\ UNCHANGED <<exists, file>>
           /\ handle' = [handle EXCEPT ![p] = [access |-> Access(p), deny |-> Deny(p)]]
           /\ pos' = [pos EXCEPT ![p] = 0]
           /\ verdict' = [verdict EXCEPT ![p] = "none"]
           /\ at' = [at EXCEPT ![p] = IF command[p].op = "hold" THEN "holding"
                                     ELSE IF command[p].op \in Writers THEN "writing"
                                     ELSE "reading"]
           /\ UNCHANGED <<command, pending, turn>>

\* PrepareAndCall: a '%' in the name makes each loop read a file of its own,
\* of which the test file may be one.
ReadOtherFile(p) == /\ AtOpen(p) /\ command[p].op \in Readers
                    /\ NextTurn(p)
                    /\ UNCHANGED <<exists, file, command, handle, pos, pending, verdict>>

-----------------------------------------------------------------------------
(* Writing, through a stream: the buffer goes to the file when there is no  *)
(* room for the next unit, and in fclose.                                   *)

\* The pending units go to the file, or the disk is full and some of them do.
Flushed(p) == file' = Written(pos[p] - pending[p], pending[p])
FlushFails(p) == \E n \in 0..(pending[p] - 1) : file' = Written(pos[p] - pending[p], n)

Fwrite(p) == /\ at[p] = "writing" /\ pos[p] < Units(p)
             /\ \/ /\ pending[p] < StreamBuffer
                   /\ pending' = [pending EXCEPT ![p] = @ + 1]
                   /\ pos' = [pos EXCEPT ![p] = @ + 1]
                   /\ UNCHANGED <<file, at, verdict>>
                \/ /\ pending[p] = StreamBuffer
                   /\ Flushed(p)
                   /\ pending' = [pending EXCEPT ![p] = 1]
                   /\ pos' = [pos EXCEPT ![p] = @ + 1]
                   /\ UNCHANGED <<at, verdict>>
                \/ /\ pending[p] = StreamBuffer
                   /\ FlushFails(p)
                   /\ pending' = [pending EXCEPT ![p] = 0]
                   /\ verdict' = [verdict EXCEPT ![p] = "error"]
                   /\ at' = [at EXCEPT ![p] = "closing"]
                   /\ UNCHANGED pos
             /\ UNCHANGED <<exists, command, handle, turn>>

\* "Written file" is said before fclose.
AllWritten(p) == /\ at[p] = "writing" /\ pos[p] = Units(p)
                 /\ verdict' = [verdict EXCEPT ![p] = "written"]
                 /\ at' = [at EXCEPT ![p] = "closing"]
                 /\ UNCHANGED <<exists, file, command, handle, pos, pending, turn>>

\* A bug: fclose is forgotten, and with it what is pending.
CloseUnflushed(p) == /\ at[p] = "closing"
                     /\ UNCHANGED file
                     /\ pending' = [pending EXCEPT ![p] = 0]
                     /\ handle' = [handle EXCEPT ![p] = NotOpen]
                     /\ NextTurn(p)
                     /\ UNCHANGED <<exists, command, pos, verdict>>

\* fclose, or the destructor of a reader.  Nobody looks whether it succeeds:
\* "cut off" stands for a file said to be written that is not.
Close(p) == /\ at[p] = "closing"
            /\ \/ /\ IF pending[p] = 0 THEN UNCHANGED file ELSE Flushed(p)
                  /\ UNCHANGED verdict
               \/ FlushFails(p) /\ verdict' = [verdict EXCEPT ![p] = "cut off"]
            /\ pending' = [pending EXCEPT ![p] = 0]
            /\ handle' = [handle EXCEPT ![p] = NotOpen]
            /\ NextTurn(p)
            /\ UNCHANGED <<exists, command, pos>>

-----------------------------------------------------------------------------
(* Reading.                                                                 *)

Say(p, what) == /\ verdict' = [verdict EXCEPT ![p] = what]
                /\ at' = [at EXCEPT ![p] = "closing"]
                /\ UNCHANGED pos

\* A bug: only the first unit of a block is compared.
ComparedFirst(p) == IF command[p].op \in Readers \/ pos[p] >= Length(p) THEN {} ELSE {pos[p]}

\* Of a block read at pos, the units that are compared.
Compared(p) == IF command[p].op \in Readers THEN {} ELSE pos[p]..(Min({pos[p] + Size(p), Length(p)}) - 1)

ReadBlock(p) ==
  /\ at[p] = "reading" /\ pos[p] < Length(p)
  /\ IF Len(file) < pos[p] + Size(p) \/ \E i \in Compared(p) : file[i + 1] # i
       THEN Say(p, "error")
       ELSE /\ pos' = [pos EXCEPT ![p] = @ + Size(p)]
            /\ UNCHANGED <<at, verdict>>
  /\ UNCHANGED <<exists, file, command, handle, pending, turn>>

\* A mapping cannot be larger than the file, nor be of an empty one.
AllRead(p) == /\ at[p] = "reading" /\ pos[p] >= Length(p)
              /\ \/ command[p].op = "read-mmf" /\ Say(p, "error")
                 \/ /\ command[p].op = "read-mmf" => file # <<>> /\ Units(p) <= Len(file)
                    /\ Say(p, "clean")
              /\ UNCHANGED <<exists, file, command, handle, pending, turn>>

-----------------------------------------------------------------------------

\* ENTER ends the holding.
Release(p) == /\ at[p] = "holding"
              /\ handle' = [handle EXCEPT ![p] = NotOpen]
              /\ NextTurn(p)
              /\ UNCHANGED <<exists, file, command, pos, pending, verdict>>

\* The process is killed, or CFile throws an exception, which nobody catches
\* (an uncached read whose size is not one of whole sectors).
Die(p) == /\ at[p] # "end" /\ handle[p] # NotOpen
          /\ at' = [at EXCEPT ![p] = "end"]
          /\ handle' = [handle EXCEPT ![p] = NotOpen]
          /\ pending' = [pending EXCEPT ![p] = 0]
          /\ verdict' = [verdict EXCEPT ![p] = "died"]
          /\ UNCHANGED <<exists, file, command, pos, turn>>

Step(p) == \/ Refuse(p) \/ CannotOpen(p) \/ Open(p) \/ ReadOtherFile(p)
           \/ Fwrite(p) \/ AllWritten(p) \/ Close(p)
           \/ ReadBlock(p) \/ AllRead(p)
           \/ Release(p) \/ Die(p)

Next == \E p \in Processes : Step(p)

Spec == Init /\ [][Next]_fileVars

Symmetry == Permutations(Processes)

-----------------------------------------------------------------------------
(* Properties.                                                              *)

\* VerifyTestFile through WinApi: while others come and go between its reads,
\* the verdict is about the file as it is when it is given.  No error means
\* that all units are right; an error means that one is not, or that the last
\* block is not whole.
VerdictTrue ==
  \A p \in Processes :
    at[p] = "closing" /\ command[p].op \in WinApi \cap Verifiers /\ ~ByUnits(p) =>
      LET blocks == (Units(p) + Size(p) - 1) \div Size(p) IN
      (verdict[p] = "clean") <=> Right(Units(p)) /\ Len(file) >= blocks * Size(p)

\* WriteTestFile by several processes at once, each of which empties the file
\* under the others: when all that began have said "Written file" and could
\* close it, what all of them wrote is right.
WritersAgree ==
  LET writers == {p \in Processes : command[p].op \in Writers /\ ~Usage(p)} IN
  (writers # {} /\ \A p \in writers : at[p] = "end" /\ verdict[p] = "written") =>
     Right(Min({Units(p) : p \in writers}))

\* HoldFile, and every reader through WinApi: from opening to closing, no step
\* changes the file - not the steps of a writer that opened it before either.
\* Only hold with n alone lets others write.
HeldStill == [][\A p \in Processes :
                  /\ at[p] \in {"holding", "reading"} /\ at'[p] # "end"
                  /\ \/ command[p].op = "hold" /\ command[p].letters # {"n"}
                     \/ command[p].op \in WinApi /\ ~ByUnits(p)
                  => UNCHANGED <<exists, file>>]_fileVars

\* The comment in CFileReader::Open, "allow multiple threads/processes to read
\* the same file": a reader is turned away only by one that writes or that
\* holds the file.
ReadersShare == [][\A p \in Processes : CannotOpen(p) /\ exists /\ command[p].op \in Verifiers /\ ~ByUnits(p) =>
                     \E q \in Processes \ {p} : "write" \in handle[q].access \/ at[q] = "holding"]_fileVars
=============================================================================
