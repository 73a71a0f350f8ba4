---------------------------- MODULE TestFileProofs ----------------------------
(***************************************************************************)
(* The properties of TestFile, for any number of processes, files of any   *)
(* length and any sharing: what has the file open agrees on it, two by     *)
(* two, since each had to be allowed by all that were there before; so     *)
(* what a process verifies stays as it was read, and the last writer that  *)
(* emptied the file sees its own units right, whoever else writes.         *)
(***************************************************************************)
EXTENDS TestFile, WellFoundedInduction, TLAPS

Places == {"begin", "holding", "writing", "reading", "closing", "end"}

Modes == SUBSET {"read", "write"}

\* Types of the variables that matter to who may do what.
TypeOK == /\ command \in [Processes -> Commands]
          /\ at \in [Processes -> Places]
          /\ handle \in [Processes -> [access : Modes, deny : Modes]]
          /\ pending \in [Processes -> Nat]

\* A process has the file open from opening to closing, as its command does.
OpenInv(p) ==
  /\ at[p] \in {"begin", "end"} => handle[p] = NotOpen
  /\ at[p] \notin {"begin", "end"} => handle[p] = [access |-> Access(p), deny |-> Deny(p)]

\* Only a process that has the file open for writing has something to write.
WriteInv(p) ==
  /\ at[p] = "writing" => command[p].op \in Writers
  /\ pending[p] # 0 => command[p].op \in Writers /\ at[p] \in {"writing", "closing"}

\* Nobody does what another one who has the file open denies.
Agree(p, q) == handle[p].access \cap handle[q].deny = {}

IInv == /\ TypeOK
        /\ \A p \in Processes : OpenInv(p) /\ WriteInv(p)
        /\ \A p, q \in Processes : p # q => Agree(p, q)

-----------------------------------------------------------------------------

\* Whatever the command, what it does and denies is reading, writing or both.
LEMMA AccessIsMode == ASSUME NEW p \in Processes
                      PROVE  Access(p) \in Modes /\ Deny(p) \in Modes
BY DEF Access, Deny, HoldDeny, Modes

\* Who opens the file to write it also asks to read it.
LEMMA WritersDoBoth == ASSUME NEW p \in Processes, command[p].op \in Writers
                       PROVE  Access(p) = {"read", "write"}
BY DEF Access

\* The processes HeldStill is about.
Sealed(p) == \/ command[p].op = "hold" /\ command[p].letters # {"n"}
             \/ command[p].op \in WinApi /\ ~ByUnits(p)

\* What they deny is something that a writer needs.
LEMMA SealedDenies == ASSUME NEW p \in Processes, Sealed(p)
                      PROVE  Deny(p) \cap {"read", "write"} # {}
<1>1. CASE command[p].op = "hold"
  BY <1>1 DEF Sealed, Deny, HoldDeny, WinApi
<1>2. CASE command[p].op # "hold"
  BY <1>2 DEF Sealed, Deny
<1>. QED  BY <1>1, <1>2

\* What a command asks for does not change while it runs.
LEMMA SameRequest == ASSUME UNCHANGED command, NEW p \in Processes
                     PROVE  Access(p)' = Access(p) /\ Deny(p)' = Deny(p)
BY DEF Access, Deny, ByUnits

\* A step after which p has nothing open, and which leaves the others' places,
\* handles and streams alone, keeps the invariant.
LEMMA ClosingKeeps ==
  ASSUME IInv, UNCHANGED command, NEW p \in Processes, NEW place \in {"begin", "end"},
         at' = [at EXCEPT ![p] = place],
         handle' = [handle EXCEPT ![p] = NotOpen],
         pending' = [pending EXCEPT ![p] = 0]
  PROVE  IInv'
<1>1. TypeOK'
  <2>1. NotOpen \in [access : Modes, deny : Modes]
    BY DEF NotOpen, Modes
  <2>. QED  BY <2>1 DEF IInv, TypeOK, Places
<1>2. ASSUME NEW q \in Processes  PROVE OpenInv(q)'
  <2>1. Access(q)' = Access(q) /\ Deny(q)' = Deny(q)
    BY SameRequest
  <2>2. CASE q = p
    BY <2>2 DEF IInv, TypeOK, OpenInv
  <2>3. CASE q # p
    <3>1. at'[q] = at[q] /\ handle'[q] = handle[q]
      BY <2>3 DEF IInv, TypeOK
    <3>. QED  BY <3>1, <2>1 DEF IInv, OpenInv, NotOpen
  <2>. QED  BY <2>2, <2>3
<1>3. ASSUME NEW q \in Processes  PROVE WriteInv(q)'
  <2>1. CASE q = p
    BY <2>1 DEF IInv, TypeOK, WriteInv
  <2>2. CASE q # p
    BY <2>2 DEF IInv, TypeOK, WriteInv
  <2>. QED  BY <2>1, <2>2
<1>4. ASSUME NEW q \in Processes, NEW r \in Processes, q # r  PROVE Agree(q, r)'
  <2>1. handle'[q].access \subseteq handle[q].access /\ handle'[r].deny \subseteq handle[r].deny
    BY DEF IInv, TypeOK, NotOpen
  <2>2. Agree(q, r)
    BY <1>4 DEF IInv
  <2>. QED  BY <2>1, <2>2 DEF Agree
<1>. QED  BY <1>1, <1>2, <1>3, <1>4 DEF IInv

\* A step within one opening of the file, by which p gets no new right, keeps it.
LEMMA StayingKeeps ==
  ASSUME IInv, UNCHANGED <<command, handle>>, NEW p \in Processes,
         NEW place \in {"writing", "reading", "closing"}, NEW n \in Nat,
         at[p] \in {"writing", "reading"},
         place \in {at[p], "closing"},
         at' = [at EXCEPT ![p] = place],
         pending' = [pending EXCEPT ![p] = n],
         n # 0 => at[p] = "writing"
  PROVE  IInv'
<1>1. TypeOK'
  BY DEF IInv, TypeOK, Places
<1>2. ASSUME NEW q \in Processes  PROVE OpenInv(q)'
  <2>1. Access(q)' = Access(q) /\ Deny(q)' = Deny(q)
    BY SameRequest
  <2>2. CASE q = p
    BY <2>1, <2>2 DEF IInv, TypeOK, OpenInv
  <2>3. CASE q # p
    BY <2>1, <2>3 DEF IInv, TypeOK, OpenInv
  <2>. QED  BY <2>2, <2>3
<1>3. ASSUME NEW q \in Processes  PROVE WriteInv(q)'
  <2>1. CASE q = p
    BY <2>1 DEF IInv, TypeOK, WriteInv
  <2>2. CASE q # p
    BY <2>2 DEF IInv, TypeOK, WriteInv
  <2>. QED  BY <2>1, <2>2
<1>4. ASSUME NEW q \in Processes, NEW r \in Processes, q # r  PROVE Agree(q, r)'
  BY <1>4 DEF IInv, Agree
<1>. QED  BY <1>1, <1>2, <1>3, <1>4 DEF IInv

\* The next loop begins, or the command ends.
LEMMA TurnPlace ==
  ASSUME NEW p \in Processes, NextTurn(p)
  PROVE  \E place \in {"begin", "end"} : at' = [at EXCEPT ![p] = place]
BY DEF NextTurn

\* Who has the file closed has nothing to write.
LEMMA ClosedHasNothing ==
  ASSUME IInv, NEW p \in Processes, at[p] \notin {"writing", "closing"}
  PROVE  pending[p] = 0 /\ pending = [pending EXCEPT ![p] = 0]
BY DEF IInv, TypeOK, WriteInv

-----------------------------------------------------------------------------

\* All begin with the file closed.
LEMMA InitIInv == Init => IInv
BY DEF Init, IInv, TypeOK, OpenInv, WriteInv, Agree, NotOpen, Places, Modes

\* Opening: the system has compared with all that are there.
LEMMA OpenKeeps == ASSUME IInv, NEW p \in Processes, Open(p)  PROVE IInv'
<1>. DEFINE mine == [access |-> Access(p), deny |-> Deny(p)]
            place == IF command[p].op = "hold" THEN "holding"
                     ELSE IF command[p].op \in Writers THEN "writing" ELSE "reading"
<1>1. /\ UNCHANGED <<command, pending>>
      /\ handle' = [handle EXCEPT ![p] = mine]
      /\ at' = [at EXCEPT ![p] = place]
      /\ at[p] = "begin"
      /\ Allowed(p, Access(p), Deny(p))
  BY DEF Open, AtOpen
<1>2. mine \in [access : Modes, deny : Modes]
  BY AccessIsMode
<1>3. place \in {"holding", "writing", "reading"} /\ (place = "writing" => command[p].op \in Writers)
  BY DEF Writers
<1>. HIDE DEF mine, place
<1>4. TypeOK'
  BY <1>1, <1>2, <1>3 DEF IInv, TypeOK, Places
<1>5. ASSUME NEW q \in Processes  PROVE OpenInv(q)'
  <2>1. Access(q)' = Access(q) /\ Deny(q)' = Deny(q)
    BY <1>1, SameRequest
  <2>2. CASE q = p
    BY <1>1, <1>3, <2>1, <2>2 DEF IInv, TypeOK, OpenInv, mine
  <2>3. CASE q # p
    BY <1>1, <2>1, <2>3 DEF IInv, TypeOK, OpenInv
  <2>. QED  BY <2>2, <2>3
<1>6. ASSUME NEW q \in Processes  PROVE WriteInv(q)'
  <2>1. CASE q = p
    BY <1>1, <1>3, <2>1, ClosedHasNothing DEF IInv, TypeOK, WriteInv
  <2>2. CASE q # p
    BY <1>1, <2>2 DEF IInv, TypeOK, WriteInv
  <2>. QED  BY <2>1, <2>2
<1>7. ASSUME NEW q \in Processes, NEW r \in Processes, q # r  PROVE Agree(q, r)'
  <2>1. CASE q = p
    <3>1. handle'[q] = mine /\ handle'[r] = handle[r]
      BY <1>1, <1>7, <2>1 DEF IInv, TypeOK
    <3>. QED  BY <1>1, <1>7, <2>1, <3>1 DEF Allowed, Agree, mine
  <2>2. CASE r = p
    <3>1. handle'[r] = mine /\ handle'[q] = handle[q]
      BY <1>1, <1>7, <2>2 DEF IInv, TypeOK
    <3>. QED  BY <1>1, <1>7, <2>2, <3>1 DEF Allowed, Agree, mine
  <2>3. CASE q # p /\ r # p
    BY <1>1, <1>7, <2>3 DEF IInv, TypeOK, Agree
  <2>. QED  BY <2>1, <2>2, <2>3
<1>. QED  BY <1>4, <1>5, <1>6, <1>7 DEF IInv

\* Every step keeps the invariant.
LEMMA NextIInv == IInv /\ [Next]_fileVars => IInv'
<1>. SUFFICES ASSUME IInv, [Next]_fileVars  PROVE IInv'
  OBVIOUS
<1>. USE DEF IInv, TypeOK
<1>1. CASE UNCHANGED fileVars
  <2>1. UNCHANGED <<command, at, handle, pending>>
    BY <1>1 DEF fileVars
  <2>2. ASSUME NEW p \in Processes  PROVE Access(p)' = Access(p) /\ Deny(p)' = Deny(p)
    BY <2>1, SameRequest
  <2>. QED  BY <2>1, <2>2 DEF OpenInv, WriteInv, Agree
<1>2. ASSUME NEW p \in Processes, Step(p)  PROVE IInv'
  <2>1. ASSUME at[p] = "begin", UNCHANGED <<command, handle, pending>>,
               NEW place \in {"begin", "end"}, at' = [at EXCEPT ![p] = place]
        PROVE  IInv'
    <3>1. handle' = [handle EXCEPT ![p] = NotOpen]
      BY <2>1 DEF OpenInv
    <3>2. pending' = [pending EXCEPT ![p] = 0]
      BY <2>1, ClosedHasNothing
    <3>. QED  BY <2>1, <3>1, <3>2, ClosingKeeps
  <2>2. CASE Refuse(p)
    BY <2>1, <2>2 DEF Refuse
  <2>3. CASE CannotOpen(p)
    <3>1. PICK place \in {"begin", "end"} : at' = [at EXCEPT ![p] = place]
      BY <2>3, TurnPlace DEF CannotOpen
    <3>. QED  BY <2>1, <2>3, <3>1 DEF CannotOpen, AtOpen
  <2>4. CASE Open(p)
    BY <2>4, OpenKeeps
  <2>5. CASE ReadOtherFile(p)
    <3>1. PICK place \in {"begin", "end"} : at' = [at EXCEPT ![p] = place]
      BY <2>5, TurnPlace DEF ReadOtherFile
    <3>. QED  BY <2>1, <2>5, <3>1 DEF ReadOtherFile, AtOpen
  <2>6. CASE Fwrite(p)
    <3>1. UNCHANGED <<command, handle>> /\ at[p] = "writing"
      BY <2>6 DEF Fwrite
    <3>2. PICK n \in Nat, place \in {"writing", "closing"} :
             pending' = [pending EXCEPT ![p] = n] /\ at' = [at EXCEPT ![p] = place]
      <4>1. at = [at EXCEPT ![p] = "writing"] /\ pending[p] + 1 \in Nat
        BY <3>1
      <4>. QED  BY <2>6, <4>1 DEF Fwrite
    <3>. QED  BY <3>1, <3>2, StayingKeeps
  <2>7. CASE AllWritten(p)
    <3>1. pending' = [pending EXCEPT ![p] = pending[p]] /\ pending[p] \in Nat
      BY <2>7 DEF AllWritten
    <3>. QED  BY <2>7, <3>1, StayingKeeps DEF AllWritten
  <2>8. CASE Close(p)
    <3>1. PICK place \in {"begin", "end"} : at' = [at EXCEPT ![p] = place]
      BY <2>8, TurnPlace DEF Close
    <3>. QED  BY <2>8, <3>1, ClosingKeeps DEF Close
  <2>9. ASSUME at[p] = "reading", UNCHANGED <<command, handle, pending>>,
               UNCHANGED at \/ at' = [at EXCEPT ![p] = "closing"]
        PROVE  IInv'
    <3>1. pending' = [pending EXCEPT ![p] = 0]
      BY <2>9, ClosedHasNothing
    <3>2. PICK place \in {"reading", "closing"} : at' = [at EXCEPT ![p] = place]
      <4>1. at = [at EXCEPT ![p] = "reading"]
        BY <2>9
      <4>. QED  BY <2>9, <4>1
    <3>. QED  BY <2>9, <3>1, <3>2, StayingKeeps
  <2>10. CASE ReadBlock(p)
    BY <2>9, <2>10 DEF ReadBlock, Say
  <2>11. CASE AllRead(p)
    BY <2>9, <2>11 DEF AllRead, Say
  <2>12. CASE Release(p)
    <3>1. PICK place \in {"begin", "end"} : at' = [at EXCEPT ![p] = place]
      BY <2>12, TurnPlace DEF Release
    <3>2. pending' = [pending EXCEPT ![p] = 0]
      BY <2>12, ClosedHasNothing DEF Release
    <3>. QED  BY <2>12, <3>1, <3>2, ClosingKeeps DEF Release
  <2>13. CASE Die(p)
    BY <2>13, ClosingKeeps DEF Die
  <2>. QED  BY <1>2, <2>2, <2>3, <2>4, <2>5, <2>6, <2>7, <2>8, <2>10, <2>11, <2>12, <2>13 DEF Step
<1>. QED  BY <1>1, <1>2 DEF Next

\* At every moment those who have the file open agree on who may do what.
THEOREM SharingAgreed == Spec => []IInv
BY InitIInv, NextIInv, PTL DEF Spec

-----------------------------------------------------------------------------

\* While a process that denies reading or writing has the file open, no other
\* one is, or comes, writing.
LEMMA NoWriter ==
  ASSUME IInv, NEW p \in Processes, at[p] \notin {"begin", "end"}, Sealed(p),
         NEW q \in Processes, q # p, command[q].op \in Writers
  PROVE  /\ at[q] \in {"begin", "end"}
         /\ ~Allowed(q, Access(q), Deny(q))
<1>1. handle[p].deny \cap {"read", "write"} # {}
  <2>1. handle[p] = [access |-> Access(p), deny |-> Deny(p)]
    BY DEF IInv, OpenInv
  <2>. QED  BY <2>1, SealedDenies
<1>2. Access(q) = {"read", "write"}
  BY WritersDoBoth
<1>3. at[q] \in {"begin", "end"}
  <2>1. ASSUME at[q] \notin {"begin", "end"}  PROVE FALSE
    <3>1. handle[q] = [access |-> Access(q), deny |-> Deny(q)]
      BY <2>1 DEF IInv, OpenInv
    <3>2. handle[q].access = {"read", "write"}
      BY <3>1, <1>2
    <3>. QED  BY <1>1, <3>2 DEF IInv, Agree
  <2>. QED  BY <2>1
<1>. QED  BY <1>1, <1>2, <1>3 DEF Allowed

\* The file changes when a writer opens, writes or closes it, never otherwise.
LEMMA OnlyWritersChange ==
  ASSUME IInv, NEW q \in Processes, Step(q)
  PROVE  \/ UNCHANGED <<exists, file>>
         \/ /\ command[q].op \in Writers
            /\ at[q] \in {"writing", "closing"} \/ Allowed(q, Access(q), Deny(q))
            /\ at[q] \in {"begin", "writing", "closing"}
<1>1. CASE Open(q)
  BY <1>1 DEF Open, AtOpen
<1>2. CASE Fwrite(q)
  BY <1>2 DEF Fwrite, IInv, WriteInv
<1>3. CASE Close(q)
  <2>1. at[q] = "closing" /\ UNCHANGED exists
    BY <1>3 DEF Close
  <2>2. CASE pending[q] = 0
    <3>1. ~FlushFails(q)
      BY <2>2 DEF FlushFails
    <3>. QED  BY <1>3, <2>1, <2>2, <3>1 DEF Close
  <2>3. CASE pending[q] # 0
    BY <2>1, <2>3 DEF IInv, WriteInv
  <2>. QED  BY <2>2, <2>3
<1>4. CASE ~(Open(q) \/ Fwrite(q) \/ Close(q))
  BY <1>4 DEF Step, Refuse, CannotOpen, ReadOtherFile, AllWritten, ReadBlock, AllRead, Release, Die
<1>. QED  BY <1>1, <1>2, <1>3, <1>4

\* What one holds, or reads through the Windows functions, stays as it is
\* until it is closed, whatever others do or had begun (HeldStill).
THEOREM HeldAlwaysStill == Spec => HeldStill
<1>1. IInv /\ [Next]_fileVars =>
        [\A p \in Processes :
           /\ at[p] \in {"holding", "reading"} /\ at'[p] # "end"
           /\ \/ command[p].op = "hold" /\ command[p].letters # {"n"}
              \/ command[p].op \in WinApi /\ ~ByUnits(p)
           => UNCHANGED <<exists, file>>]_fileVars
  <2>. SUFFICES ASSUME IInv, NEW q \in Processes, Step(q),
                       NEW p \in Processes, at[p] \in {"holding", "reading"}, Sealed(p)
                PROVE  UNCHANGED <<exists, file>>
    BY DEF Next, Sealed
  <2>1. CASE q = p
    BY <2>1, OnlyWritersChange
  <2>2. CASE q # p
    BY <2>2, OnlyWritersChange, NoWriter
  <2>. QED  BY <2>1, <2>2
<1>. QED  BY <1>1, SharingAgreed, PTL DEF Spec, HeldStill

-----------------------------------------------------------------------------
(* The file and the positions in it.                                        *)

Said == {"none", "not opened", "written", "cut off", "error", "clean", "died"}

\* Types of the variables that matter to what is in the file.
DataOK == /\ file \in Seq(Int)
          /\ pos \in [Processes -> Nat]
          /\ turn \in [Processes -> Nat]
          /\ verdict \in [Processes -> Said]
          /\ \A p \in Processes :
              /\ pending[p] <= pos[p]
              /\ at[p] \notin {"begin", "end"} => ~Usage(p)
              /\ at[p] = "reading" => command[p].op \notin Writers \cup {"hold"}

\* The larger of two numbers, as FiniteSetsExt chooses it.
LEMMA MaxOfTwo == ASSUME NEW a \in Nat, NEW b \in Nat
                  PROVE  Max({a, b}) = IF a >= b THEN a ELSE b
BY DEF Max

\* The first n units of f are right.
RightIn(f, n) == \A i \in 1..n : i <= Len(f) /\ f[i] = i - 1

\* Writing right units makes none wrong, and continues a right beginning.
LEMMA WrittenRight ==
  ASSUME file \in Seq(Int), NEW from \in Nat, NEW n \in Nat, NEW f, f = Written(from, n)
  PROVE  /\ f \in Seq(Int)
         /\ \A m \in Nat : Right(m) => RightIn(f, m)
         /\ Right(from) => RightIn(f, from + n)
<1>. DEFINE end == IF n = 0 THEN 0 ELSE from + n
            long == Max({Len(file), end})
<1>1. Len(file) \in Nat /\ \A i \in 1..Len(file) : file[i] \in Int
  OBVIOUS
<1>2. end \in Nat /\ long \in Nat /\ Len(file) <= long /\ end <= long
  BY <1>1, MaxOfTwo
<1>. HIDE DEF long
<1>3. f = [i \in 1..long |-> IF i - 1 \in from..(from + n - 1) THEN i - 1
                             ELSE IF i <= Len(file) THEN file[i] ELSE 0]
  BY DEF Written, long
<1>4. \A i \in 1..long : f[i] \in Int
  BY <1>1, <1>2, <1>3
<1>5. f \in Seq(Int) /\ Len(f) = long
  <2>1. f = [i \in 1..long |-> f[i]]
    BY <1>3
  <2>. QED  BY <2>1, <1>2, <1>4
<1>6. ASSUME NEW m \in Nat, Right(m)  PROVE RightIn(f, m)
  <2>. SUFFICES ASSUME NEW i \in 1..m  PROVE i <= Len(f) /\ f[i] = i - 1
    BY DEF RightIn
  <2>1. i <= Len(file) /\ file[i] = i - 1
    BY <1>6 DEF Right
  <2>. QED  BY <2>1, <1>1, <1>2, <1>3, <1>5
<1>7. ASSUME Right(from)  PROVE RightIn(f, from + n)
  <2>. SUFFICES ASSUME NEW i \in 1..(from + n)  PROVE i <= Len(f) /\ f[i] = i - 1
    BY DEF RightIn
  <2>1. CASE i <= from
    <3>1. i <= Len(file) /\ file[i] = i - 1
      BY <1>7, <2>1 DEF Right
    <3>. QED  BY <3>1, <1>1, <1>2, <1>3, <1>5, <2>1
  <2>2. CASE i > from
    BY <1>1, <1>2, <1>3, <1>5, <2>2
  <2>. QED  BY <2>1, <2>2
<1>. QED  BY <1>5, <1>6, <1>7

\* A step writes some of what is pending in its place, empties the file, or
\* leaves it alone.
LEMMA FileSteps ==
  ASSUME IInv, DataOK, NEW q \in Processes, Step(q)
  PROVE  \/ UNCHANGED file
         \/ Open(q) /\ command[q].op \in Writers /\ file' = <<>>
         \/ /\ Fwrite(q) \/ Close(q)
            /\ \E n \in 0..pending[q] : file' = Written(pos[q] - pending[q], n)
<1>. pending[q] \in Nat
  BY DEF IInv, TypeOK
<1>1. CASE Open(q)
  BY <1>1 DEF Open
<1>2. CASE Fwrite(q)
  BY <1>2 DEF Fwrite, Flushed, FlushFails
<1>3. CASE Close(q)
  <2>1. UNCHANGED file \/ Flushed(q) \/ FlushFails(q)
    BY <1>3 DEF Close
  <2>. QED  BY <1>3, <2>1 DEF Flushed, FlushFails
<1>4. CASE ~(Open(q) \/ Fwrite(q) \/ Close(q))
  BY <1>4 DEF Step, Refuse, CannotOpen, ReadOtherFile, AllWritten, ReadBlock, AllRead, Release, Die
<1>. QED  BY <1>1, <1>2, <1>3, <1>4

\* What one asks for, in units.
LEMMA UnitsType == ASSUME IInv, NEW p \in Processes, command[p].op # "hold"
                   PROVE  Units(p) \in Nat /\ command[p].count \in Nat
<1>1. command[p].count \in Counts
  BY DEF IInv, TypeOK, Commands
<1>2. \A a, b \in Nat : a * b \in Nat
  OBVIOUS
<1>. QED  BY <1>1, <1>2, TestFileAssumption DEF Units

\* The size of a block, when there are blocks.
LEMMA SizeType == ASSUME IInv, NEW p \in Processes, command[p].op \in Verifiers \cup Readers, ~Usage(p)
                  PROVE  Size(p) \in Nat \ {0}
<1>1. command[p].block \in Nat
  BY TestFileAssumption DEF IInv, TypeOK, Commands, Verifiers, Readers
<1>. QED  BY <1>1 DEF Size, ByUnits, Usage, Verifiers, Readers

\* The files the runs begin with are sequences.
LEMMA InitData == Init => DataOK
<1>. SUFFICES ASSUME Init  PROVE DataOK
  OBVIOUS
<1>1. file \in Seq(Int)
  <2>1. PICK n \in 0..Max(Counts) * UnitsPerMB : file \in [1..n -> {Bad} \cup 0..n]
    BY DEF Init
  <2>2. n \in Nat /\ {Bad} \cup 0..n \subseteq Int
    BY DEF Bad
  <2>. QED  BY <2>1, <2>2
<1>. QED  BY <1>1 DEF Init, DataOK, Said

\* Every step keeps the types.
LEMMA DataKeeps == ASSUME IInv, DataOK, NEW p \in Processes, Step(p)  PROVE DataOK'
<1>. USE DEF DataOK
<1>1. file' \in Seq(Int)
  <2>1. ASSUME NEW n \in 0..pending[p], file' = Written(pos[p] - pending[p], n)
        PROVE  file' \in Seq(Int)
    <3>1. pos[p] - pending[p] \in Nat /\ n \in Nat
      BY <2>1 DEF IInv, TypeOK
    <3>2. PICK f : f = Written(pos[p] - pending[p], n)
      OBVIOUS
    <3>. QED  BY <2>1, <3>1, <3>2, WrittenRight
  <2>2. <<>> \in Seq(Int)
    OBVIOUS
  <2>. QED  BY <2>1, <2>2, FileSteps
<1>2. \A q \in Processes : pending[q] \in Nat
  BY DEF IInv, TypeOK
<1>3. UNCHANGED command /\ \A q \in Processes : Usage(q)' = Usage(q)
  BY DEF Step, Refuse, CannotOpen, Open, ReadOtherFile, Fwrite, AllWritten, Close, ReadBlock,
         AllRead, Release, Die, Usage
<1>4. turn' \in [Processes -> Nat]
  <2>1. UNCHANGED turn \/ turn' = [turn EXCEPT ![p] = turn[p] + 1]
    BY DEF Step, Refuse, CannotOpen, Open, ReadOtherFile, Fwrite, AllWritten, Close, ReadBlock,
           AllRead, Release, Die, NextTurn
  <2>. QED  BY <2>1
<1>5. verdict' \in [Processes -> Said]
  BY DEF Step, Refuse, CannotOpen, Open, ReadOtherFile, Fwrite, AllWritten, Close, ReadBlock,
         AllRead, Release, Die, Say, Said
<1>6. ASSUME NEW q \in Processes
      PROVE  /\ at'[q] \notin {"begin", "end"} => ~Usage(q)
             /\ at'[q] = "reading" => command[q].op \notin Writers \cup {"hold"}
  BY DEF Step, Refuse, CannotOpen, Open, AtOpen, ReadOtherFile, Fwrite, AllWritten, Close,
         ReadBlock, AllRead, Release, Die, Say, NextTurn, IInv, TypeOK
<1>7. pos' \in [Processes -> Nat] /\ (ReadBlock(p) => \A q \in Processes : pos[q] <= pos'[q])
  <2>1. CASE ReadBlock(p)
    <3>1. at[p] = "reading" /\ (UNCHANGED pos \/ pos' = [pos EXCEPT ![p] = @ + Size(p)])
      BY <2>1 DEF ReadBlock, Say
    <3>2. command[p].op \in Verifiers \cup Readers \/ Size(p) = 1
      BY <3>1 DEF IInv, TypeOK, Commands, Size, ByUnits, Writers
    <3>3. ~Usage(p) /\ pos \in [Processes -> Nat]
      BY <3>1
    <3>4. Size(p) \in Nat
      BY <3>2, <3>3, SizeType
    <3>5. PICK n \in Nat : pos' = [pos EXCEPT ![p] = pos[p] + n]
      <4>1. pos = [pos EXCEPT ![p] = pos[p] + 0]
        BY <3>3
      <4>. QED  BY <3>1, <3>4, <4>1
    <3>. QED  BY <3>3, <3>5
  <2>2. CASE ~ReadBlock(p)
    <3>1. \/ UNCHANGED pos
          \/ pos' = [pos EXCEPT ![p] = 0]
          \/ pos' = [pos EXCEPT ![p] = @ + 1]
      BY <2>2 DEF Step, Refuse, CannotOpen, Open, ReadOtherFile, Fwrite, AllWritten, Close,
                  AllRead, Release, Die, Say
    <3>2. pos \in [Processes -> Nat]
      OBVIOUS
    <3>3. PICK n \in Nat : pos' = [pos EXCEPT ![p] = n]
      <4>1. pos = [pos EXCEPT ![p] = pos[p]] /\ pos[p] \in Nat /\ pos[p] + 1 \in Nat
        BY <3>2
      <4>2. CASE pos' = [pos EXCEPT ![p] = pos[p] + 1]
        BY <4>1, <4>2
      <4>3. CASE UNCHANGED pos
        BY <4>1, <4>3
      <4>. QED  BY <3>1, <4>2, <4>3
    <3>4. pos' \in [Processes -> Nat]
      BY <3>2, <3>3
    <3>. QED  BY <2>2, <3>4
  <2>. QED  BY <2>1, <2>2
<1>8. ASSUME NEW q \in Processes  PROVE pending'[q] <= pos'[q]
  <2>1. CASE UNCHANGED <<pos, pending>>
    BY <2>1
  <2>2. CASE Open(p)
    <3>1. pending[p] = 0
      BY <2>2, ClosedHasNothing DEF Open, AtOpen
    <3>. QED  BY <1>2, <2>2, <3>1 DEF Open
  <2>3. CASE Fwrite(p)
    BY <1>2, <2>3 DEF Fwrite, IInv, TypeOK
  <2>4. CASE pending' = [pending EXCEPT ![p] = 0] /\ UNCHANGED pos
    BY <1>2, <2>4 DEF IInv, TypeOK
  <2>5. CASE ReadBlock(p)
    <3>1. UNCHANGED pending /\ pos[q] <= pos'[q]
      BY <1>7, <2>5 DEF ReadBlock
    <3>. QED  BY <1>2, <1>7, <3>1
  <2>. QED
    BY <2>1, <2>2, <2>3, <2>4, <2>5
    DEF Step, Refuse, CannotOpen, ReadOtherFile, AllWritten, Close, AllRead, Say, Release, Die
<1>. QED  BY <1>1, <1>3, <1>4, <1>5, <1>6, <1>7, <1>8

\* The types of all variables, at every moment.
LEMMA DataAlwaysOK == Spec => []DataOK
<1>1. IInv /\ DataOK /\ [Next]_fileVars => DataOK'
  <2>. SUFFICES ASSUME IInv, DataOK, [Next]_fileVars  PROVE DataOK'
    OBVIOUS
  <2>1. CASE UNCHANGED fileVars
    BY <2>1 DEF fileVars, DataOK, Usage
  <2>2. CASE Next
    BY <2>2, DataKeeps DEF Next
  <2>. QED  BY <2>1, <2>2
<1>. QED  BY <1>1, InitData, SharingAgreed, PTL DEF Spec

-----------------------------------------------------------------------------
(* VerdictTrue.                                                             *)

\* The processes it is about.
VerifiesBlocks(p) == command[p].op \in WinApi \cap Verifiers /\ ~ByUnits(p)

\* The verdict that has been given.
TrueVerdict(p) ==
  LET blocks == (Units(p) + Size(p) - 1) \div Size(p) IN
  (verdict[p] = "clean") <=> Right(Units(p)) /\ Len(file) >= blocks * Size(p)

\* Between two reads: some whole blocks, of which the last one was needed, have
\* been read and are in the file, and their units are right.
BlocksRead(p, k) ==
  /\ pos[p] = k * Size(p)
  /\ k = 0 \/ (k - 1) * Size(p) < Units(p)
  /\ pos[p] <= Len(file)
  /\ \A i \in 1..pos[p] : i <= Units(p) => file[i] = i - 1

VerifyInv(p) ==
  VerifiesBlocks(p) =>
    /\ at[p] = "reading" => \E k \in 0..pos[p] : BlocksRead(p, k)
    /\ at[p] = "closing" => TrueVerdict(p)

VerifiedTruly == \A p \in Processes : VerifyInv(p)

\* k blocks of size units cover all, and k - 1 do not, when k is total.
LEMMA BlockCount ==
  ASSUME NEW total \in Nat, NEW size \in Nat \ {0}, NEW k \in Nat,
         k = 0 \/ (k - 1) * size < total
  PROVE  LET blocks == (total + size - 1) \div size IN
         /\ blocks \in Nat
         /\ k * size < total => k * size + size <= blocks * size
         /\ k * size >= total => k * size = blocks * size
<1>. DEFINE blocks == (total + size - 1) \div size
<1>1. /\ blocks \in Nat
      /\ blocks * size <= total + size - 1
      /\ total + size - 1 < blocks * size + size
  <2>1. total + size - 1 \in Nat
    OBVIOUS
  <2>2. \A a \in Nat : /\ a \div size \in Nat
                      /\ (a \div size) * size <= a
                      /\ a < (a \div size) * size + size
    OBVIOUS
  <2>. QED  BY <2>1, <2>2
<1>. HIDE DEF blocks
<1>2. \A a, b \in Nat : /\ a * size \in Nat
                       /\ (a + 1) * size = a * size + size
                       /\ a <= b => a * size <= b * size
  OBVIOUS
<1>3. ASSUME k * size < total  PROVE k * size + size <= blocks * size
  <2>1. k < blocks
    <3>1. ASSUME blocks <= k  PROVE FALSE
      BY <1>1, <1>2, <1>3, <3>1
    <3>. QED  BY <1>1, <3>1
  <2>. QED  BY <1>1, <1>2, <2>1
<1>4. ASSUME k * size >= total  PROVE k * size = blocks * size
  <2>1. blocks <= k
    <3>1. ASSUME k + 1 <= blocks  PROVE FALSE
      <4>1. (k + 1) * size <= blocks * size
        BY <1>1, <1>2, <3>1
      <4>. QED  BY <1>1, <1>2, <1>4, <4>1
    <3>. QED  BY <1>1, <3>1
  <2>2. k <= blocks
    <3>1. CASE k = 0
      BY <1>1, <3>1
    <3>2. CASE k # 0
      <4>1. k - 1 \in Nat /\ (k - 1) * size < total
        BY <3>2
      <4>2. ASSUME blocks <= k - 1  PROVE FALSE
        <5>1. blocks * size <= (k - 1) * size
          BY <1>1, <1>2, <4>1, <4>2
        <5>. QED  BY <1>1, <1>2, <4>1, <5>1
      <4>. QED  BY <1>1, <4>1, <4>2
    <3>. QED  BY <3>1, <3>2
  <2>. QED  BY <1>1, <2>1, <2>2
<1>. QED  BY <1>1, <1>3, <1>4 DEF blocks

\* A verifying process wants whole blocks of one unit or more.
LEMMA VerifierTypes ==
  ASSUME IInv, DataOK, NEW p \in Processes, VerifiesBlocks(p), at[p] \notin {"begin", "end"}
  PROVE  Units(p) \in Nat /\ Size(p) \in Nat \ {0} /\ Length(p) = Units(p) /\ Sealed(p)
<1>1. command[p].op = "verify-api" /\ ~Usage(p)
  BY DEF VerifiesBlocks, WinApi, Verifiers, DataOK
<1>. QED
  BY <1>1, UnitsType, SizeType DEF VerifiesBlocks, Length, Readers, Sealed, Verifiers

\* A block more, or a verdict: the block that is missing or wrong is one of
\* those that should have been there.
LEMMA ReadBlockVerifies ==
  ASSUME IInv, DataOK, NEW p \in Processes, VerifiesBlocks(p), VerifyInv(p), ReadBlock(p)
  PROVE  VerifyInv(p)'
<1>. DEFINE S == Size(p)
            U == Units(p)
            blocks == (U + S - 1) \div S
<1>1. /\ at[p] = "reading" /\ pos[p] < Length(p) /\ UNCHANGED <<file, command>>
      /\ pos[p] \in Nat /\ at \in [Processes -> Places] /\ verdict \in [Processes -> Said]
      /\ Len(file) \in Nat /\ pos \in [Processes -> Nat]
  BY DEF ReadBlock, DataOK, IInv, TypeOK
<1>2. U \in Nat /\ S \in Nat \ {0} /\ Length(p) = U
  BY <1>1, VerifierTypes
<1>3. U' = U /\ S' = S /\ VerifiesBlocks(p)'
  BY <1>1 DEF Units, Size, ByUnits, VerifiesBlocks
<1>4. PICK k \in 0..pos[p] : BlocksRead(p, k)
  BY <1>1 DEF VerifyInv
<1>5. k \in Nat /\ k * S < U
  BY <1>1, <1>2, <1>4 DEF BlocksRead
<1>6. blocks \in Nat /\ k * S + S <= blocks * S
  BY <1>2, <1>4, <1>5, BlockCount DEF BlocksRead
<1>7. Compared(p) = pos[p]..(Min({pos[p] + S, U}) - 1)
  BY <1>2, <1>3 DEF Compared, VerifiesBlocks, WinApi, Verifiers, Readers
<1>8. Min({pos[p] + S, U}) = IF pos[p] + S <= U THEN pos[p] + S ELSE U
  BY <1>1, <1>2 DEF Min
<1>9. CASE Len(file) < pos[p] + S \/ \E i \in Compared(p) : file[i + 1] # i
  <2>1. at'[p] = "closing" /\ verdict'[p] = "error"
    BY <1>1, <1>9 DEF ReadBlock, Say
  <2>2. ~(Right(U) /\ Len(file) >= blocks * S)
    <3>1. CASE Len(file) < pos[p] + S
      BY <1>1, <1>2, <1>4, <1>5, <1>6, <3>1 DEF BlocksRead
    <3>2. CASE \E i \in Compared(p) : file[i + 1] # i
      <4>1. PICK i \in Compared(p) : file[i + 1] # i
        BY <3>2
      <4>2. i + 1 \in 1..U /\ (i + 1) - 1 = i
        BY <1>1, <1>2, <1>7, <1>8, <4>1
      <4>3. Right(U) => file[i + 1] = (i + 1) - 1
        BY <4>2 DEF Right
      <4>. QED  BY <4>1, <4>2, <4>3
    <3>. QED  BY <1>9, <3>1, <3>2
  <2>3. TrueVerdict(p)'
    BY <1>1, <1>3, <2>1, <2>2 DEF TrueVerdict, Right
  <2>. QED  BY <2>1, <2>3 DEF VerifyInv
<1>10. CASE ~(Len(file) < pos[p] + S \/ \E i \in Compared(p) : file[i + 1] # i)
  <2>1. pos' = [pos EXCEPT ![p] = pos[p] + S] /\ at'[p] = "reading"
    BY <1>1, <1>10 DEF ReadBlock
  <2>2. pos'[p] = k * S + S /\ pos'[p] = pos[p] + S
    BY <1>1, <1>4, <2>1 DEF BlocksRead
  <2>3. (k + 1) * S = k * S + S /\ (k + 1) - 1 = k /\ k + 1 \in 0..pos'[p]
    BY <1>1, <1>2, <1>5, <2>2
  <2>4. ASSUME NEW i \in 1..pos'[p], i <= U  PROVE file[i] = i - 1
    <3>1. CASE i <= pos[p]
      BY <1>1, <1>4, <2>4, <3>1 DEF BlocksRead
    <3>2. CASE i > pos[p]
      <4>1. i - 1 \in Compared(p) /\ (i - 1) + 1 = i
        BY <1>1, <1>2, <1>7, <1>8, <2>2, <2>4, <3>2
      <4>. QED  BY <1>10, <4>1
    <3>. QED  BY <1>1, <1>2, <2>2, <3>1, <3>2
  <2>5. pos'[p] <= Len(file)
    BY <1>1, <1>2, <1>10, <2>2
  <2>6. \E n \in 0..pos'[p] : BlocksRead(p, n)'
    BY <1>1, <1>3, <1>5, <2>2, <2>3, <2>4, <2>5 DEF BlocksRead
  <2>. QED  BY <2>1, <2>6 DEF VerifyInv
<1>. QED  BY <1>9, <1>10

\* At the end of the loop the verdict follows from what has been read.
LEMMA AllReadVerifies ==
  ASSUME IInv, DataOK, NEW p \in Processes, VerifiesBlocks(p), VerifyInv(p), AllRead(p)
  PROVE  VerifyInv(p)'
<1>. DEFINE S == Size(p)
            U == Units(p)
            blocks == (U + S - 1) \div S
<1>1. /\ at[p] = "reading" /\ pos[p] >= Length(p) /\ UNCHANGED <<file, command>>
      /\ pos[p] \in Nat /\ at \in [Processes -> Places] /\ verdict \in [Processes -> Said]
      /\ Len(file) \in Nat
      /\ command[p].op # "read-mmf"
  BY DEF AllRead, DataOK, IInv, TypeOK, VerifiesBlocks, Verifiers
<1>2. U \in Nat /\ S \in Nat \ {0} /\ Length(p) = U
  BY <1>1, VerifierTypes
<1>3. U' = U /\ S' = S
  BY <1>1 DEF Units, Size, ByUnits
<1>4. PICK k \in 0..pos[p] : BlocksRead(p, k)
  BY <1>1 DEF VerifyInv
<1>5. pos[p] = blocks * S
  <2>1. k \in Nat /\ pos[p] = k * S /\ (k = 0 \/ (k - 1) * S < U)
    BY <1>1, <1>4 DEF BlocksRead
  <2>2. k * S >= U => k * S = blocks * S
    BY <1>2, <2>1, BlockCount
  <2>. QED  BY <1>1, <1>2, <2>1, <2>2
<1>6. Right(U) /\ Len(file) >= blocks * S
  <2>1. pos[p] <= Len(file) /\ \A i \in 1..pos[p] : i <= U => file[i] = i - 1
    BY <1>4 DEF BlocksRead
  <2>2. ASSUME NEW i \in 1..U  PROVE i <= Len(file) /\ file[i] = i - 1
    BY <1>1, <1>2, <2>1
  <2>. QED  BY <1>1, <1>5, <2>1, <2>2 DEF Right
<1>7. at'[p] = "closing" /\ verdict'[p] = "clean"
  BY <1>1 DEF AllRead, Say
<1>8. TrueVerdict(p)'
  BY <1>1, <1>3, <1>6, <1>7 DEF TrueVerdict, Right
<1>. QED  BY <1>7, <1>8 DEF VerifyInv

\* The process's own steps.
LEMMA OwnStepVerifies ==
  ASSUME IInv, DataOK, NEW p \in Processes, Step(p), VerifyInv(p)
  PROVE  VerifyInv(p)'
<1>. SUFFICES ASSUME VerifiesBlocks(p)'  PROVE VerifyInv(p)'
  BY DEF VerifyInv
<1>0. UNCHANGED command /\ VerifiesBlocks(p)
  BY DEF Step, Refuse, CannotOpen, Open, ReadOtherFile, Fwrite, AllWritten, Close, ReadBlock,
         AllRead, Release, Die, VerifiesBlocks, ByUnits
<1>1. command[p].op = "verify-api" /\ at \in [Processes -> Places] /\ pos \in [Processes -> Nat]
  BY <1>0 DEF VerifiesBlocks, WinApi, Verifiers, IInv, TypeOK, DataOK
<1>2. CASE Open(p)
  <2>1. at'[p] = "reading" /\ pos'[p] = 0
    BY <1>1, <1>2 DEF Open, Writers
  <2>2. 0 = 0 * Size(p)' /\ 0 <= Len(file)'
    <3>1. at'[p] \notin {"begin", "end"}
      BY <2>1
    <3>2. Size(p)' \in Nat /\ Len(file') \in Nat
      <4>1. IInv' /\ DataOK'
        BY OpenKeeps, DataKeeps, <1>2
      <4>2. ~Usage(p)
        BY <1>2 DEF Open, AtOpen
      <4>3. Size(p) \in Nat
        BY <1>1, <4>2, SizeType DEF Verifiers
      <4>4. Size(p)' = Size(p)
        BY <1>0 DEF Size, ByUnits
      <4>. QED  BY <4>1, <4>3, <4>4 DEF DataOK
    <3>. QED  BY <3>2
  <2>3. BlocksRead(p, 0)'
    BY <2>1, <2>2 DEF BlocksRead
  <2>. QED  BY <2>1, <2>3 DEF VerifyInv
<1>3. CASE ReadBlock(p)
  BY <1>0, <1>3, ReadBlockVerifies
<1>4. CASE AllRead(p)
  BY <1>0, <1>4, AllReadVerifies
<1>5. CASE Fwrite(p) \/ AllWritten(p)
  BY <1>1, <1>5 DEF Fwrite, AllWritten, IInv, WriteInv, Writers
<1>6. CASE Refuse(p) \/ CannotOpen(p) \/ ReadOtherFile(p) \/ Close(p) \/ Release(p) \/ Die(p)
  <2>1. at'[p] \in {"begin", "end"}
    BY <1>1, <1>6 DEF Refuse, CannotOpen, ReadOtherFile, Close, Release, Die, NextTurn
  <2>. QED  BY <2>1 DEF VerifyInv
<1>. QED  BY <1>2, <1>3, <1>4, <1>5, <1>6 DEF Step

\* The others cannot disturb it.
LEMMA OtherStepVerifies ==
  ASSUME IInv, DataOK, NEW p \in Processes, NEW q \in Processes, q # p, Step(q), VerifyInv(p)
  PROVE  VerifyInv(p)'
<1>1. /\ UNCHANGED command
      /\ at'[p] = at[p] /\ pos'[p] = pos[p] /\ verdict'[p] = verdict[p]
  BY DEF IInv, TypeOK, DataOK, Step, Refuse, CannotOpen, Open, ReadOtherFile, Fwrite, AllWritten,
         Close, ReadBlock, AllRead, Say, Release, Die, NextTurn
<1>2. /\ VerifiesBlocks(p)' = VerifiesBlocks(p)
      /\ Units(p)' = Units(p) /\ Size(p)' = Size(p)
  BY <1>1 DEF VerifiesBlocks, Units, Size, ByUnits
<1>3. CASE VerifiesBlocks(p) /\ at[p] \notin {"begin", "end"}
  <2>1. Sealed(p)
    BY <1>3, VerifierTypes
  <2>2. UNCHANGED file
    BY <1>3, <2>1, OnlyWritersChange, NoWriter
  <2>. QED
    BY <1>1, <1>2, <2>2 DEF VerifyInv, TrueVerdict, BlocksRead, Right
<1>4. CASE ~(VerifiesBlocks(p) /\ at[p] \notin {"begin", "end"})
  BY <1>1, <1>2, <1>4 DEF VerifyInv
<1>. QED  BY <1>3, <1>4

\* A verification through the Windows functions speaks the truth about the
\* file as it is when it does, whatever others did while it was reading.
THEOREM VerdictsAlwaysTrue == Spec => []VerdictTrue
<1>1. Init => VerifiedTruly
  BY DEF Init, VerifiedTruly, VerifyInv
<1>2. IInv /\ DataOK /\ VerifiedTruly /\ [Next]_fileVars => VerifiedTruly'
  <2>. SUFFICES ASSUME IInv, DataOK, VerifiedTruly, [Next]_fileVars, NEW p \in Processes
                PROVE  VerifyInv(p)'
    BY DEF VerifiedTruly
  <2>1. CASE UNCHANGED fileVars
    BY <2>1 DEF fileVars, VerifiedTruly, VerifyInv, VerifiesBlocks, TrueVerdict, BlocksRead, Right,
                Units, Size, ByUnits
  <2>2. ASSUME NEW q \in Processes, Step(q)  PROVE VerifyInv(p)'
    BY <2>2, OwnStepVerifies, OtherStepVerifies DEF VerifiedTruly
  <2>. QED  BY <2>1, <2>2 DEF Next
<1>3. VerifiedTruly => VerdictTrue
  BY DEF VerifiedTruly, VerifyInv, VerifiesBlocks, TrueVerdict, VerdictTrue
<1>. QED  BY <1>1, <1>2, <1>3, SharingAgreed, DataAlwaysOK, PTL DEF Spec

-----------------------------------------------------------------------------
(* WritersAgree.                                                            *)

\* The processes it is about, and those that do not end well.
Writing(p) == command[p].op \in Writers /\ ~Usage(p)

Failed(p) == verdict[p] \in {"error", "cut off", "died", "not opened"}

\* The writer that emptied the file last, as long as it does well: what it has
\* handed to the system is right, whoever else writes.
LastWriter(p) ==
  /\ at[p] \in {"writing", "closing", "end"}
  /\ Right(pos[p] - pending[p])
  /\ at[p] \in {"closing", "end"} => pos[p] = Units(p)
  /\ at[p] = "end" => pending[p] = 0

\* A writer opens the file once, and is closing it when it says how it went.
OnceInv(p) ==
  command[p].op \in Writers =>
    /\ at[p] # "end" => turn[p] = 0
    /\ Failed(p) => at[p] \in {"closing", "end"}

WritersInv ==
  /\ \A p \in Processes : OnceInv(p)
  /\ \/ \E p \in Processes : Writing(p) /\ Failed(p)
     \/ \A p \in Processes : Writing(p) => at[p] = "begin"
     \/ \E p \in Processes : Writing(p) /\ LastWriter(p)

\* A writer's only loop ends its command.
LEMMA WriterEnds ==
  ASSUME IInv, DataOK, NEW p \in Processes, command[p].op \in Writers, OnceInv(p), at[p] # "end",
         NextTurn(p), UNCHANGED command
  PROVE  at' = [at EXCEPT ![p] = "end"]
<1>1. turn[p] = 0 /\ Turns(p) = 1
  BY DEF OnceInv, Turns, Writers
<1>2. turn'[p] = Turns(p)
  BY <1>1 DEF NextTurn, DataOK
<1>. QED  BY <1>2 DEF NextTurn

\* Nobody opens the file twice to write it.
LEMMA OnceKeeps ==
  ASSUME IInv, DataOK, NEW q \in Processes, Step(q), NEW p \in Processes, OnceInv(p)
  PROVE  OnceInv(p)' /\ (Writing(p) /\ Failed(p) => Writing(p)' /\ Failed(p)')
<1>1. UNCHANGED command /\ Writing(p)' = Writing(p)
  BY DEF Step, Refuse, CannotOpen, Open, ReadOtherFile, Fwrite, AllWritten, Close, ReadBlock,
         AllRead, Release, Die, Writing, Usage
<1>2. CASE q # p
  <2>1. at'[p] = at[p] /\ turn'[p] = turn[p] /\ verdict'[p] = verdict[p]
    BY <1>2 DEF IInv, TypeOK, DataOK, Step, Refuse, CannotOpen, Open, ReadOtherFile, Fwrite,
           AllWritten, Close, ReadBlock, AllRead, Say, Release, Die, NextTurn
  <2>. QED  BY <1>1, <2>1 DEF OnceInv, Failed
<1>3. CASE command[p].op \notin Writers
  BY <1>1, <1>3 DEF OnceInv, Writing
<1>4. CASE q = p /\ command[p].op \in Writers
  <2>. USE <1>1, <1>4 DEF OnceInv, Failed, IInv, TypeOK, DataOK
  <2>1. CASE Refuse(p)
    BY <2>1 DEF Refuse
  <2>2. CASE CannotOpen(p)
    BY <2>2, WriterEnds DEF CannotOpen, AtOpen
  <2>3. CASE Open(p)
    BY <2>3 DEF Open, AtOpen
  <2>4. CASE Fwrite(p)
    BY <2>4 DEF Fwrite
  <2>5. CASE AllWritten(p)
    BY <2>5 DEF AllWritten
  <2>6. CASE Close(p)
    <3>1. at' = [at EXCEPT ![p] = "end"]
      BY <2>6, WriterEnds DEF Close
    <3>. QED  BY <2>6, <3>1 DEF Close
  <2>7. CASE Die(p)
    BY <2>7 DEF Die
  <2>8. CASE ReadOtherFile(p) \/ ReadBlock(p) \/ AllRead(p)
    BY <2>8 DEF ReadOtherFile, ReadBlock, AllRead, Writers, Readers
  <2>9. CASE Release(p)
    <3>1. at' = [at EXCEPT ![p] = "end"]
      BY <2>9, WriterEnds DEF Release
    <3>. QED  BY <2>9, <3>1 DEF Release
  <2>. QED  BY <2>1, <2>2, <2>3, <2>4, <2>5, <2>6, <2>7, <2>8, <2>9 DEF Step
<1>. QED  BY <1>2, <1>3, <1>4

\* Writing in another's turn leaves the last writer's units right; its own
\* writing continues them.
LEMMA LastWriterKeeps ==
  ASSUME IInv, DataOK, NEW q \in Processes, Step(q), \A p \in Processes : OnceInv(p),
         ~(Open(q) /\ command[q].op \in Writers),
         NEW p \in Processes, Writing(p), LastWriter(p)
  PROVE  LastWriter(p)' \/ (Failed(q)' /\ Writing(q))
<1>0. /\ pos[p] \in Nat /\ pending[p] \in Nat /\ pending[p] <= pos[p]
      /\ pos[q] \in Nat /\ pending[q] \in Nat /\ pending[q] <= pos[q]
      /\ pos[p] - pending[p] \in Nat /\ pos[q] - pending[q] \in Nat
      /\ pos \in [Processes -> Nat] /\ pending \in [Processes -> Nat]
      /\ at \in [Processes -> Places] /\ verdict \in [Processes -> Said]
      /\ file \in Seq(Int)
  BY DEF IInv, TypeOK, DataOK
<1>1. UNCHANGED command /\ Units(p)' = Units(p)
  BY DEF Step, Refuse, CannotOpen, Open, ReadOtherFile, Fwrite, AllWritten, Close, ReadBlock,
         AllRead, Release, Die, Units
<1>2. CASE q # p
  <2>1. at'[p] = at[p] /\ pos'[p] = pos[p] /\ pending'[p] = pending[p]
    BY <1>0, <1>2 DEF Step, Refuse, CannotOpen, Open, ReadOtherFile, Fwrite,
           AllWritten, Close, ReadBlock, AllRead, Say, Release, Die, NextTurn
  <2>2. \A m \in Nat : Right(m) => RightIn(file', m)
    <3>1. CASE UNCHANGED file
      BY <3>1 DEF Right, RightIn
    <3>2. ASSUME NEW n \in 0..pending[q], file' = Written(pos[q] - pending[q], n)
          PROVE  \A m \in Nat : Right(m) => RightIn(file', m)
      <4>1. PICK f : f = Written(pos[q] - pending[q], n)
        OBVIOUS
      <4>2. n \in Nat
        BY <1>0
      <4>. QED  BY <1>0, <3>2, <4>1, <4>2, WrittenRight
    <3>. QED  BY <3>1, <3>2, FileSteps
  <2>3. RightIn(file', pos[p] - pending[p])
    BY <1>0, <2>2 DEF LastWriter
  <2>4. Right(pos[p] - pending[p])'
    BY <2>1, <2>3 DEF Right, RightIn
  <2>. QED  BY <1>1, <2>1, <2>4 DEF LastWriter
<1>3. CASE q = p
  <2>1. CASE Fwrite(p)
    <3>1. at[p] = "writing" /\ at' \in [Processes -> Places]
      BY <1>0, <2>1 DEF Fwrite, Places
    <3>2. CASE UNCHANGED <<file, at>> /\ pos'[p] - pending'[p] = pos[p] - pending[p]
      BY <1>0, <3>1, <3>2 DEF LastWriter, Right
    <3>3. CASE Flushed(p) /\ UNCHANGED at /\ pos'[p] - pending'[p] = pos[p]
      <4>1. PICK f : f = Written(pos[p] - pending[p], pending[p])
        OBVIOUS
      <4>2. RightIn(f, (pos[p] - pending[p]) + pending[p])
        BY <1>0, <4>1, WrittenRight DEF LastWriter
      <4>3. RightIn(file', pos[p])
        BY <1>0, <3>3, <4>1, <4>2 DEF Flushed
      <4>4. Right(pos[p] - pending[p])'
        BY <3>3, <4>3 DEF Right, RightIn
      <4>. QED  BY <3>1, <3>3, <4>4 DEF LastWriter
    <3>4. CASE verdict'[p] = "error"
      BY <1>3, <3>4 DEF Failed
    <3>. QED  BY <1>0, <2>1, <3>2, <3>3, <3>4 DEF Fwrite
  <2>2. CASE AllWritten(p)
    <3>1. at'[p] = "closing" /\ pos[p] = Units(p) /\ UNCHANGED <<file, pos, pending>>
      BY <1>0, <2>2 DEF AllWritten
    <3>. QED  BY <1>1, <3>1 DEF LastWriter, Right
  <2>3. CASE Close(p)
    <3>1. at' = [at EXCEPT ![p] = "end"]
      BY <1>1, <2>3, WriterEnds DEF Close, Writing
    <3>2. at'[p] = "end" /\ pending'[p] = 0 /\ pos'[p] = pos[p] /\ pos[p] = Units(p)
      BY <1>0, <2>3, <3>1 DEF Close, LastWriter
    <3>3. CASE pending[p] = 0 /\ UNCHANGED file
      BY <1>0, <1>1, <3>2, <3>3 DEF LastWriter, Right
    <3>4. CASE Flushed(p)
      <4>1. PICK f : f = Written(pos[p] - pending[p], pending[p])
        OBVIOUS
      <4>2. RightIn(f, (pos[p] - pending[p]) + pending[p])
        BY <1>0, <4>1, WrittenRight DEF LastWriter
      <4>3. RightIn(file', pos[p] - 0)
        BY <1>0, <3>4, <4>1, <4>2 DEF Flushed
      <4>4. Right(pos[p] - pending[p])'
        BY <3>2, <4>3 DEF Right, RightIn
      <4>. QED  BY <1>1, <3>2, <4>4 DEF LastWriter
    <3>5. CASE verdict'[p] = "cut off"
      BY <1>3, <3>5 DEF Failed
    <3>. QED  BY <1>0, <2>3, <3>3, <3>4, <3>5 DEF Close
  <2>4. CASE Die(p)
    BY <1>0, <1>3, <2>4 DEF Die, Failed
  <2>5. CASE Refuse(p) \/ CannotOpen(p) \/ Open(p) \/ ReadOtherFile(p)
    BY <2>5 DEF Refuse, CannotOpen, Open, ReadOtherFile, AtOpen, LastWriter
  <2>6. CASE ReadBlock(p) \/ AllRead(p) \/ Release(p)
    BY <2>6 DEF ReadBlock, AllRead, Release, LastWriter
  <2>. QED  BY <1>3, <2>1, <2>2, <2>3, <2>4, <2>5, <2>6 DEF Step
<1>. QED  BY <1>2, <1>3

\* Every step keeps it: who opens the file to write it becomes its last writer.
LEMMA WritersStep ==
  ASSUME IInv, DataOK, WritersInv, NEW q \in Processes, Step(q)
  PROVE  WritersInv'
<1>1. \A p \in Processes : OnceInv(p)' /\ (Writing(p) /\ Failed(p) => Writing(p)' /\ Failed(p)')
  BY OnceKeeps DEF WritersInv
<1>2. UNCHANGED command /\ \A p \in Processes : Writing(p)' = Writing(p)
  BY DEF Step, Refuse, CannotOpen, Open, ReadOtherFile, Fwrite, AllWritten, Close, ReadBlock,
         AllRead, Release, Die, Writing, Usage
<1>3. CASE \E p \in Processes : Writing(p) /\ Failed(p)
  BY <1>1, <1>3 DEF WritersInv
<1>4. CASE Open(q) /\ command[q].op \in Writers
  <2>1. /\ Writing(q) /\ file' = <<>> /\ pos'[q] = 0 /\ at'[q] = "writing"
        /\ pending'[q] = 0
    BY <1>4, ClosedHasNothing DEF Open, AtOpen, Writing, DataOK, IInv, TypeOK, Writers
  <2>2. Right(pos[q] - pending[q])'
    BY <2>1 DEF Right
  <2>3. LastWriter(q)'
    BY <2>1, <2>2 DEF LastWriter
  <2>. QED  BY <1>1, <1>2, <2>1, <2>3 DEF WritersInv
<1>5. CASE ~(Open(q) /\ command[q].op \in Writers) /\ \E p \in Processes : Writing(p) /\ LastWriter(p)
  <2>1. PICK p \in Processes : Writing(p) /\ LastWriter(p)
    BY <1>5
  <2>2. LastWriter(p)' \/ (Failed(q)' /\ Writing(q))
    BY <1>5, <2>1, LastWriterKeeps DEF WritersInv
  <2>. QED  BY <1>1, <1>2, <2>1, <2>2 DEF WritersInv
<1>6. CASE ~(Open(q) /\ command[q].op \in Writers) /\ \A p \in Processes : Writing(p) => at[p] = "begin"
  <2>1. CASE \A p \in Processes : Writing(p) => at'[p] = "begin"
    BY <1>1, <1>2, <2>1 DEF WritersInv
  <2>2. CASE Writing(q) /\ CannotOpen(q)
    <3>1. Failed(q)'
      BY <2>2 DEF CannotOpen, Failed, DataOK
    <3>. QED  BY <1>1, <1>2, <2>2, <3>1 DEF WritersInv
  <2>3. CASE ~Writing(q)
    <3>1. \A p \in Processes : p # q => at'[p] = at[p]
      BY DEF IInv, TypeOK, Step, Refuse, CannotOpen, Open, ReadOtherFile, Fwrite, AllWritten,
             Close, ReadBlock, AllRead, Say, Release, Die, NextTurn
    <3>2. \A p \in Processes : Writing(p) => at'[p] = "begin"
      BY <1>6, <2>3, <3>1
    <3>. QED  BY <2>1, <3>2
  <2>4. CASE Writing(q) /\ ~CannotOpen(q)
    BY <1>6, <2>4 DEF Step, Refuse, Open, ReadOtherFile, Fwrite, AllWritten, Close, ReadBlock,
           AllRead, Release, Die, Writing, Writers, Readers, IInv, OpenInv
  <2>. QED  BY <2>2, <2>3, <2>4
<1>. QED  BY <1>3, <1>4, <1>5, <1>6 DEF WritersInv

\* Of numbers, there is a least one.
LEMMA Minimal == ASSUME NEW R, IsWellFoundedOn(R, Nat), NEW T, T \subseteq Nat, T # {}
                 PROVE  \E x \in T : \A y \in T : ~(<<y, x>> \in R)
BY WFMin

LEMMA NatOrder == \A x, y \in Nat : x < y => <<x, y>> \in OpToRel(<, Nat)
BY ZenonT(30) DEF OpToRel

LEMMA MinOfSome == ASSUME NEW T, T \subseteq Nat, NEW n \in T
                   PROVE  Min(T) \in T /\ Min(T) <= n
<1>1. PICK R : IsWellFoundedOn(R, Nat) /\ \A x, y \in Nat : x < y => <<x, y>> \in R
  BY NatLessThanWellFounded, NatOrder
<1>2. PICK x \in T : \A y \in T : ~(<<y, x>> \in R)
  BY <1>1, Minimal
<1>3. ASSUME NEW y \in T  PROVE x <= y
  <2>1. y < x => <<y, x>> \in R
    BY <1>1
  <2>2. <<y, x>> \notin R
    BY <1>2
  <2>3. x \in Nat /\ y \in Nat
    OBVIOUS
  <2>. QED  BY <2>1, <2>2, <2>3
<1>. QED  BY <1>3 DEF Min

\* However many processes write the file at once, if all of them could write
\* and close it, what all of them wrote is right.
THEOREM WritersAlwaysAgree == Spec => []WritersAgree
<1>1. Init => WritersInv
  BY DEF Init, WritersInv, OnceInv, Failed
<1>2. IInv /\ DataOK /\ WritersInv /\ [Next]_fileVars => WritersInv'
  <2>1. IInv /\ DataOK /\ WritersInv /\ UNCHANGED fileVars => WritersInv'
    BY DEF fileVars, WritersInv, OnceInv, Failed, LastWriter, Writing, Usage, Right, Units
  <2>. QED  BY <2>1, WritersStep DEF Next
<1>3. IInv /\ DataOK /\ WritersInv => WritersAgree
  <2>. DEFINE writers == {p \in Processes : command[p].op \in Writers /\ ~Usage(p)}
  <2>. SUFFICES ASSUME IInv, DataOK, WritersInv, writers # {},
                       \A p \in writers : at[p] = "end" /\ verdict[p] = "written"
                PROVE  Right(Min({Units(p) : p \in writers}))
    BY DEF WritersAgree
  <2>1. PICK p \in writers : LastWriter(p)
    BY DEF WritersInv, Writing, Failed
  <2>2. Right(Units(p))
    <3>1. pos[p] - pending[p] = Units(p)
      BY <2>1 DEF LastWriter, DataOK
    <3>. QED  BY <2>1, <3>1 DEF LastWriter
  <2>3. \A q \in writers : Units(q) \in Nat
    BY UnitsType DEF Writers
  <2>4. /\ Min({Units(q) : q \in writers}) \in Nat
        /\ Min({Units(q) : q \in writers}) <= Units(p)
    <3>1. PICK T : T = {Units(q) : q \in writers}
      OBVIOUS
    <3>2. T \subseteq Nat /\ Units(p) \in T
      BY <2>3, <3>1
    <3>3. Min(T) \in T /\ Min(T) <= Units(p)
      BY <3>2, MinOfSome
    <3>. QED  BY <3>1, <3>2, <3>3
  <2>. QED  BY <2>2, <2>3, <2>4 DEF Right
<1>. QED  BY <1>1, <1>2, <1>3, SharingAgreed, DataAlwaysOK, PTL DEF Spec

=============================================================================
