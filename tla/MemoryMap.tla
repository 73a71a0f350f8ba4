------------------------------ MODULE MemoryMap -------------------------------
(***************************************************************************)
(* The memory command (memory.cpp) and the class it drives,                *)
(* CMemoryMappedFile (utils.h): sections of the page file are created,     *)
(* mapped in whole or chunk by chunk, touched and unmapped.  One step is   *)
(* one call into the system, which may refuse it.                          *)
(***************************************************************************)
EXTENDS Integers, FiniteSets

CONSTANTS UintWidth,      \* bits of UINT
          MaxLoops,   \* largest number of iterations asked for
          MaxMB,      \* largest section, in MB
          Chunks,     \* chunks of AllocAlignment() in 1 MB
          Space       \* MB of address space

ASSUME MemoryMapAssumption == /\ UintWidth \in Nat \ {0} /\ 2^UintWidth \in Nat \ {0}
                              /\ MaxLoops \in 0..(2^UintWidth - 1) /\ MaxMB \in Nat /\ Chunks \in Nat \ {0} /\ Space \in Nat

VARIABLES job,      \* the subcommand and its parameters
          section,  \* m_Handle: the section is open
          buffer,   \* m_Buffer: the view the object keeps
          chunk,    \* the chunk that is mapped next, or is mapped
          views,    \* views the process has mapped
          left,     \* count, or loops
          done,     \* iterations of pte, n of pte3
          mapped,   \* views mapped so far by pte2
          memoryAt  \* where the command is

memoryVars == <<job, section, buffer, chunk, views, left, done, mapped, memoryAt>>

Jobs == [op : {"pte", "pte2", "pte3"}, mb : 0..MaxMB, count : 0..MaxLoops]

Decrement(n) == (n - 1) % 2^UintWidth

MapAll == job.op # "pte3"

MemoryInit == /\ job \in Jobs
              /\ section = FALSE /\ buffer = FALSE /\ chunk = 0 /\ views = 0
              /\ left = job.count /\ done = 0 /\ mapped = 0
              /\ memoryAt = "begin"

\* No iterations asked of pte are as many as a UINT can count.
Begin == /\ memoryAt = "begin"
         /\ left' = IF job.op = "pte" /\ left = 0 THEN Decrement(left) ELSE left
         /\ memoryAt' = IF job.op = "pte" THEN "iterate" ELSE "create"
         /\ UNCHANGED <<job, section, buffer, chunk, views, done, mapped>>

\* PteStress.
Iterate == /\ memoryAt = "iterate"
           /\ IF left = 0 THEN memoryAt' = "end" /\ UNCHANGED <<left, done>>
                          ELSE /\ memoryAt' = "create"
                               /\ left' = Decrement(left) /\ done' = done + 1
           /\ UNCHANGED <<job, section, buffer, chunk, views, mapped>>

\* The constructor; the page file has no section of no bytes.
CreateSection == /\ memoryAt = "create"
                 /\ \/ job.mb # 0 /\ section' = TRUE
                    \/ UNCHANGED section
                 /\ memoryAt' = IF section' /\ MapAll THEN "map" ELSE "use"
                 /\ UNCHANGED <<job, buffer, chunk, views, left, done, mapped>>

\* MapViewOfFile of the whole section.
View == /\ (views + 1) * job.mb <= Space
        /\ views' = views + 1

MapBuffer == /\ memoryAt = "map"
             /\ \/ View /\ buffer' = TRUE
                \/ UNCHANGED <<views, buffer>>
             /\ memoryAt' = "use"
             /\ mapped' = IF job.op = "pte2" THEN views' ELSE 0
             /\ UNCHANGED <<job, section, chunk, left, done>>

\* PteIteration: Poke touches what is mapped, if anything is.
Poke == /\ memoryAt = "use" /\ job.op = "pte"
        /\ memoryAt' = "destroy"
        /\ UNCHANGED <<job, section, buffer, chunk, views, left, done, mapped>>

\* PteToFail: one more view, until there is none to be had.
MapAndForget == /\ memoryAt = "use" /\ job.op = "pte2"
                /\ \/ section /\ buffer /\ View /\ mapped' = mapped + 1 /\ UNCHANGED memoryAt
                   \/ memoryAt' = "destroy" /\ UNCHANGED <<views, mapped>>
                /\ UNCHANGED <<job, section, buffer, chunk, left, done>>

\* A bug: the chunk is left mapped when it has been touched.
KeepChunk == /\ memoryAt = "chunk"
             /\ chunk' = chunk + 1 /\ memoryAt' = "use"
             /\ UNCHANGED <<job, section, buffer, views, left, done, mapped>>

\* PteSmallToFail, MapOneByOne: each chunk is mapped, touched and unmapped.
MapChunk == /\ memoryAt = "use" /\ job.op = "pte3" /\ chunk < job.mb * Chunks
            /\ \/ section /\ views' = views + 1 /\ memoryAt' = "chunk"
               \/ UNCHANGED views /\ memoryAt' = "destroy"
            /\ UNCHANGED <<job, section, buffer, chunk, left, done, mapped>>

UnmapChunk == /\ memoryAt = "chunk"
              /\ views' = views - 1
              /\ chunk' = chunk + 1 /\ memoryAt' = "use"
              /\ UNCHANGED <<job, section, buffer, left, done, mapped>>

\* The pass is over: && loops--, so that one more pass is made than is counted.
EndOfPass == /\ memoryAt = "use" /\ job.op = "pte3" /\ chunk = job.mb * Chunks
             /\ IF section /\ left # 0 THEN done' = done + 1 /\ chunk' = 0 /\ UNCHANGED memoryAt
                                       ELSE memoryAt' = "destroy" /\ UNCHANGED <<done, chunk>>
             /\ left' = IF section THEN Decrement(left) ELSE left
             /\ UNCHANGED <<job, section, buffer, views, mapped>>

Destroy == /\ memoryAt = "destroy"
           /\ views' = IF buffer THEN views - 1 ELSE views
           /\ section' = FALSE /\ buffer' = FALSE
           /\ memoryAt' = IF job.op = "pte" THEN "iterate" ELSE "end"
           /\ UNCHANGED <<job, chunk, left, done, mapped>>

MemoryNext == \/ Begin \/ Iterate \/ CreateSection \/ MapBuffer \/ Poke \/ MapAndForget
              \/ MapChunk \/ UnmapChunk \/ EndOfPass \/ Destroy

MemorySpec == MemoryInit /\ [][MemoryNext]_memoryVars

-----------------------------------------------------------------------------

\* CMemoryMappedFile under each command and every failure of the system: views
\* are never kept by accident.  pte and pte3 have at most one and give it back;
\* pte2 gives back one and leaves all others, as it is meant to.  The counts
\* are those asked for, but that pte3 makes one pass more than it reports.
ViewsReturned ==
  /\ job.op # "pte2" => views <= 1
  /\ memoryAt = "end" =>
       /\ ~section
       /\ views = IF mapped = 0 THEN 0 ELSE mapped - 1
       /\ job.op = "pte" => done = IF job.count = 0 THEN 2^UintWidth - 1 ELSE job.count
       /\ job.op = "pte3" => done <= job.count
=============================================================================
