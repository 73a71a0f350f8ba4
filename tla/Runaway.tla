------------------------------- MODULE Runaway --------------------------------
(***************************************************************************)
(* The cr command (Runaway.cpp): two reports of a debugger on the times of *)
(* a process's threads are loaded line by line into arrays, the later one  *)
(* is recognised and the threads are compared.  Times are unsigned words   *)
(* of Width bits, whose differences are taken as signed ones.              *)
(***************************************************************************)
EXTENDS Integers, Sequences, FiniteSets, SequencesExt

CONSTANTS Width,      \* bits of ULONG and LONG
          Ids,        \* identifiers of threads
          Prealloc,   \* entries an array has from the start (1024)
          Ages,       \* how long a thread may have lived at the earlier report
          Delays,     \* time between the two reports
          MaxBusy,    \* user and kernel time a thread may take up meanwhile
          Hundred     \* percentages are shares of this (100)

ASSUME RunawayAssumption == /\ Width \in Nat \ {0} /\ Prealloc \in Nat /\ MaxBusy \in Nat /\ Hundred \in Nat
                            /\ Ages \subseteq Nat /\ Delays \subseteq Nat \ {0} /\ IsFiniteSet(Ids)
                            /\ 2^(Width - 1) \in Nat \ {0} /\ 2^Width = 2 * 2^(Width - 1)

Word(t)   == t % 2^Width
Signed(t) == IF Word(t) >= 2^(Width - 1) THEN Word(t) - 2^Width ELSE Word(t)

VARIABLES reports,  \* the process as the two files found it
          late,     \* which of the files was written later
          delay,    \* and how much later
          unread,   \* lines of the section being read that are still to come
          mode,     \* the section Load is in
          arrays,   \* the two CThreadArrays
          result,   \* what Compare returned
          diff,     \* what Diff printed
          stage     \* 1 or 2 while that file is loaded, then 3 (compare), 4 (done);
                    \* 5 when a file could not be opened

runVars == <<reports, late, delay, unread, mode, arrays, result, diff, stage>>

Modes == <<"user", "kernel", "elapsed">>

-----------------------------------------------------------------------------
(* The process: threads in the order the debugger numbers them.            *)

Threads == [id : Ids, user : 0..MaxBusy, kernel : 0..MaxBusy, elapsed : Ages]

IdsOf(ts) == {ts[i].id : i \in DOMAIN ts}
Distinct(ts) == \A i, j \in DOMAIN ts : ts[i].id = ts[j].id => i = j

Processes == {ts \in BoundedSeq(Threads, Cardinality(Ids)) : Distinct(ts)}

\* What became of a process: some threads are gone, the others have moved up
\* and aged, and new ones follow them.
Rising(n) == {at \in UNION {[1..m -> 1..n] : m \in 0..n} :
                 \A i, j \in DOMAIN at : i < j => at[i] < at[j]}

Survivors(ts) == {[i \in DOMAIN at |-> ts[at[i]]] : at \in Rising(Len(ts))}

Aged(ts, d, u, k) == [i \in DOMAIN ts |->
  [id |-> ts[i].id, user |-> ts[i].user + u[i], kernel |-> ts[i].kernel + k[i],
   elapsed |-> ts[i].elapsed + d]]

\* Born between the reports; the system may give it a dead thread's identifier.
NewThreads(d) == [id : Ids, user : {0}, kernel : {0}, elapsed : {0, d}]

Lines(ts, m) == {[no |-> i - 1, id |-> ts[i].id, time |-> Word(ts[i][m])] : i \in DOMAIN ts}

-----------------------------------------------------------------------------
(* CThreadArray; thread number no is at index no + 1.                      *)

Blank == [no |-> -1, id |-> 0, user |-> 0, kernel |-> 0, elapsed |-> 0]
Blanks(n) == [i \in 1..n |-> Blank]

\* The array as long as it has to be for thread number no.
Grown(array, no) == IF no < Len(array) THEN array ELSE array \o Blanks(no + 1 - Len(array))

FindByNo(array, no) == array[no + 1].no = no

\* A bug: the time of a thread's first line is not kept.
StoreNoTime(array, line, m) ==
  LET grown == Grown(array, line.no)
  IN [grown EXCEPT ![line.no + 1] = IF FindByNo(grown, line.no) THEN [@ EXCEPT ![m] = line.time]
                                    ELSE [Blank EXCEPT !.no = line.no, !.id = line.id]]

\* A line of Load: the array grows up to the thread's number, and a thread
\* seen for the first time is entered with this one time.
Store(array, line, m) ==
  LET grown == Grown(array, line.no)
      entry == IF FindByNo(grown, line.no) THEN grown[line.no + 1]
               ELSE [Blank EXCEPT !.no = line.no, !.id = line.id]
  IN [grown EXCEPT ![line.no + 1] = [entry EXCEPT ![m] = line.time]]

\* The rows a loop sees that ends at the first entry without a thread.
Rows(array) == {i \in DOMAIN array : \A j \in 1..i : array[j].no >= 0}

\* The row of a thread as a set: FindById ends at the first entry out of place.
FindById(array, id) ==
  {i \in DOMAIN array : /\ \A j \in 1..i : array[j].no = j - 1
                        /\ array[i].id = id /\ \A j \in 1..(i - 1) : array[j].id # id}

\* Where the threads that both arrays have are in each of them.
Pairs(a1, a2) == {q \in Rows(a1) \X DOMAIN a2 : q[2] \in FindById(a2, a1[q[1]].id)}

\* A bug: times are compared as they are.
CompareUnsigned(a1, a2) ==
  LET pairs == Pairs(a1, a2)
  IN IF pairs = {} THEN 0
     ELSE IF \A p \in pairs : a1[p[1]].elapsed > a2[p[2]].elapsed THEN 1
     ELSE IF \A p \in pairs : a1[p[1]].elapsed < a2[p[2]].elapsed THEN -1 ELSE 0

\* 1 or -1 when all threads that both arrays have agree on which is later.
Compare(a1, a2) ==
  LET diffs == {Signed(a1[p[1]].elapsed - a2[p[2]].elapsed) : p \in Pairs(a1, a2)} \ {0}
  IN IF diffs = {} THEN 0
     ELSE IF \A d \in diffs : d > 0 THEN 1
     ELSE IF \A d \in diffs : d < 0 THEN -1 ELSE 0

\* All of it in unsigned words.
Percentage(elapsed, kernel, user) ==
  IF Word(elapsed) = 0 THEN 0 ELSE Word((kernel + user) * Hundred) \div Word(elapsed)

Deleted(a1, a2) == {[kind |-> "deleted", id |-> a2[i].id] :
                       i \in {j \in Rows(a2) : FindById(a1, a2[j].id) = {}}}

Created(a1, a2) == {[kind |-> "created", id |-> a1[i].id] :
                       i \in {j \in Rows(a1) : FindById(a2, a1[j].id) = {}}}

Activity(t1, t2) ==
  LET user == Signed(t1.user - t2.user)
      kernel == Signed(t1.kernel - t2.kernel)
      elapsed == Signed(t1.elapsed - t2.elapsed)
  IN [kind |-> IF kernel # 0 \/ user # 0 THEN "active" ELSE "idle",
      id |-> t1.id, elapsed |-> elapsed, user |-> user, kernel |-> kernel,
      share |-> Percentage(elapsed, kernel, user)]

Both(a1, a2) == {Activity(a1[p[1]], a2[p[2]]) : p \in Pairs(a1, a2)}

\* A bug: the second loop runs over the first array again.
DiffNoDeleted(a1, a2) == Created(a1, a2) \cup Both(a1, a2) \cup Deleted(a2, a1)

\* The lines of Diff; a1 is the later array.
Diff(a1, a2) == Created(a1, a2) \cup Both(a1, a2) \cup Deleted(a1, a2)

-----------------------------------------------------------------------------

RunawayInit == /\ late \in {1, 2} /\ delay \in Delays
               /\ \E before \in Processes : \E left \in Survivors(before) :
                \E u \in [DOMAIN left -> 0..MaxBusy], k \in [DOMAIN left -> 0..MaxBusy] :
                \E new \in BoundedSeq(NewThreads(delay), Cardinality(Ids)) :
                  LET after == Aged(left, delay, u, k) \o new
                  IN Distinct(after) /\ reports = IF late = 1 THEN <<after, before>> ELSE <<before, after>>
               /\ unread = {} /\ mode = 0
               /\ arrays = <<Blanks(Prealloc), Blanks(Prealloc)>>
               /\ result = 0 /\ diff = {} /\ stage = 1

\* A headline of a section: every thread has a line in it.
Headline == /\ stage \in {1, 2} /\ unread = {} /\ mode < Len(Modes)
            /\ mode' = mode + 1
            /\ unread' = Lines(reports[stage], Modes[mode'])
            /\ UNCHANGED <<reports, late, delay, arrays, result, diff, stage>>

\* The debugger sorts a section by time, so its lines come in any order.
LoadLine == /\ stage \in {1, 2}
            /\ \E line \in unread :
                 /\ unread' = unread \ {line}
                 /\ arrays' = [arrays EXCEPT ![stage] = Store(@, line, Modes[mode])]
            /\ UNCHANGED <<reports, late, delay, mode, result, diff, stage>>

EndOfFile == /\ stage \in {1, 2} /\ unread = {} /\ mode = Len(Modes)
             /\ stage' = stage + 1
             /\ mode' = 0
             /\ UNCHANGED <<reports, late, delay, unread, arrays, result, diff>>

\* fopen fails: CompareRunaways returns 1 before it compares.
OpenFails == /\ stage \in {1, 2} /\ mode = 0
             /\ stage' = 5
             /\ UNCHANGED <<reports, late, delay, unread, mode, arrays, result, diff>>

CompareRunaways ==
  /\ stage = 3
  /\ result' = Compare(arrays[1], arrays[2])
  /\ diff' = IF result' > 0 THEN Diff(arrays[1], arrays[2])
             ELSE IF result' < 0 THEN Diff(arrays[2], arrays[1]) ELSE {}
  /\ stage' = 4
  /\ UNCHANGED <<reports, late, delay, unread, mode, arrays>>

RunawayNext == OpenFails \/ Headline \/ LoadLine \/ EndOfFile \/ CompareRunaways

RunawaySpec == RunawayInit /\ [][RunawayNext]_runVars

-----------------------------------------------------------------------------

Shared == IdsOf(reports[1]) \cap IdsOf(reports[2])

\* A loaded file is the report: every thread at its number with all of its
\* times, in whatever order the lines came and although the array had to grow.
LoadedFaithfully ==
  \A f \in {1, 2} : stage \in (f + 1)..4 =>
    /\ Len(arrays[f]) >= Len(reports[f])
    /\ \A i \in DOMAIN arrays[f] :
         arrays[f][i] = IF i \notin DOMAIN reports[f] THEN Blank
                        ELSE LET t == reports[f][i]
                             IN [no |-> i - 1, id |-> t.id, user |-> Word(t.user),
                                 kernel |-> Word(t.kernel), elapsed |-> Word(t.elapsed)]

\* Who has the identifier of an earlier thread could be that thread: it is older
\* by the delay and has used no less time.
NoIdReused ==
  \A old \in ToSet(reports[3 - late]), now \in ToSet(reports[late]) :
    old.id = now.id => /\ now.elapsed = old.elapsed + delay
                       /\ now.user >= old.user /\ now.kernel >= old.kernel

\* The later report is recognised whatever thread died, was born or was
\* renumbered meanwhile, and although the clock wrapped, as long as no
\* identifier was used again, less than half of the clock's range passed between
\* the reports and a thread is in both.
LaterRecognized ==
  stage = 4 /\ NoIdReused /\ delay < 2^(Width - 1) =>
    result = IF Shared = {} THEN 0 ELSE IF late = 1 THEN 1 ELSE -1

\* The report of a comparison accounts for every thread of either file once,
\* and for what it did between the reports, as long as no identifier was used
\* again: Diff takes the two threads for one.  Its share of the time is right
\* as long as a hundred times what it used is a word, and what it is beyond
\* that (after 11.9 hours) nobody says.
EveryThreadReported ==
  stage = 4 /\ result # 0 /\ NoIdReused /\ delay < 2^(Width - 1) =>
    LET after == reports[late]  before == reports[3 - late]
        in(ts, id) == CHOOSE t \in ToSet(ts) : t.id = id
        kept == {d \in diff : d.kind \in {"active", "idle"}}
    IN /\ diff \ kept = {[kind |-> "created", id |-> id] : id \in IdsOf(after) \ Shared} \cup
                        {[kind |-> "deleted", id |-> id] : id \in IdsOf(before) \ Shared}
       /\ {d.id : d \in kept} = Shared /\ Cardinality(kept) = Cardinality(Shared)
       /\ \A d \in kept :
            LET t == in(after, d.id)  b == in(before, d.id)  busy == t.user - b.user + t.kernel - b.kernel
            IN /\ d.elapsed = delay /\ d.user = t.user - b.user /\ d.kernel = t.kernel - b.kernel
               /\ d.kind = IF busy = 0 THEN "idle" ELSE "active"
               /\ busy * Hundred < 2^Width => d.share = (busy * Hundred) \div delay
=============================================================================
